----------------------------- MODULE MCLiveView -----------------------------
(* Instances of LiveView for TLC. *)
EXTENDS LiveView

CONSTANTS t1, w1, w2, c1, c2

OneTab == {t1}
TwoWriters == {w1, w2}
TwoThreads == {c1, c2}

(* A page comes up while two things happen; the tab looks at its list. *)
Listing ==
  [writers |-> TwoWriters, ops |-> {"arrive", "delete", "read", "config"}, hands |-> {Elsewhere},
   threads |-> {}, loaded |-> FALSE, faults |-> {"sql"}, opens |-> 0, gets |-> 0, asks |-> 2, closes |-> 1]

(* The tab opens two conversations, in one of which something happens... *)
Opening ==
  [writers |-> {w1}, ops |-> Kinds, hands |-> {t1, Elsewhere}, threads |-> TwoThreads,
   loaded |-> TRUE, faults |-> {"sql"}, opens |-> 2, gets |-> 2, asks |-> 1, closes |-> 0]

(* ...or one, in which two things happen. *)
Following ==
  [Opening EXCEPT !.writers = TwoWriters, !.ops = {"arrive", "drop", "deliver"},
                  !.hands = {Elsewhere}, !.threads = {c1}, !.faults = {}, !.opens = 1, !.closes = 1]

MCScenes == {Listing, Opening, Following}

(* A message arrives and the connection breaks; nothing else. *)
MCMissed ==
  {[Listing EXCEPT !.ops = {"arrive"}, !.faults = {}, !.asks = 1]}
=============================================================================
