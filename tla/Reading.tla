------------------------------- MODULE Reading -------------------------------
(***************************************************************************)
(* The pure rules of reading the inbox page by page                        *)
(* (mailstore.ListConversations and the handler that answers GET           *)
(* /conversations).                                                        *)
(*                                                                         *)
(* convs is the set of conversations, [thread, key, activity], with         *)
(* activity in whole seconds; what a row of the list says besides (counts,  *)
(* preview, sender) is left out.                                           *)
(***************************************************************************)
EXTENDS Naturals, Sequences, FiniteSets, FiniteSetsExt, SequencesExt

CONSTANTS DefaultListLimit, MaxListLimit

ASSUME ReadingAssumption ==
  /\ DefaultListLimit \in Nat \ {0} /\ MaxListLimit \in Nat
  /\ DefaultListLimit <= MaxListLimit

EffectiveLimit(limit) ==
  CASE limit = 0 -> DefaultListLimit
    [] limit > MaxListLimit -> MaxListLimit
    [] OTHER -> limit

NoCursor == 0

(* ORDER BY last_activity_at DESC, id DESC *)
Above(c, d) == c.activity > d.activity \/ (c.activity = d.activity /\ c.thread > d.thread)

(* Faulty variant: a row as old as the cursor's is on the next page again. *)
OlderOrAsOld(convs, before) ==
  {c \in convs : before # NoCursor =>
     \E d \in convs : d.thread = before /\ c.activity <= d.activity}

(* Older than the row of the cursor is now; than a row that is gone, nothing is. *)
Older(convs, before) ==
  {c \in convs : before # NoCursor =>
     \E d \in convs : d.thread = before /\ c.activity < d.activity}

(* ListConversations: the threads of one page, each in its place.  found are  *)
(* the ones a query matches.                                                 *)
ListConversations(convs, found, before, limit) ==
  LET rest == {c \in Older(convs, before) : c.thread \in found}
      Place(c) == 1 + Cardinality({d \in rest : Above(d, c)})
  IN  [i \in 1..Min({Cardinality(rest), EffectiveLimit(limit)}) |->
         (CHOOSE c \in rest : Place(c) = i).thread]

(* Faulty variant: a full page is measured with the limit that was asked for. *)
NextCursorAsked(page, limit) == IF page # <<>> /\ Len(page) = limit THEN Last(page) ELSE NoCursor

(* The last row of a full page; a short page is the last one. *)
NextCursor(page, limit) ==
  IF page # <<>> /\ Len(page) = EffectiveLimit(limit) THEN Last(page) ELSE NoCursor

=============================================================================
