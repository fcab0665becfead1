----------------------------- MODULE MCDelivery -----------------------------
(* Instances of Delivery for TLC. *)
EXTENDS Delivery, TLC

CONSTANTS h1, h2, h3, m1, m2, u1, u2

ThreeHandlers == {h1, h2, h3}
Swaps == Permutations(ThreeHandlers) \cup Permutations({u1, u2})
Taken == {201}
NotTaken == {500}
=============================================================================
