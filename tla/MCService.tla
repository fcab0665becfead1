------------------------------- MODULE MCService -------------------------------
(* One terminal and one login service for TLC. *)
EXTENDS Service

CONSTANTS terminal, job

Both == {terminal, job}
=============================================================================
