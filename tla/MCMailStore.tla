----------------------------- MODULE MCMailStore -----------------------------
(* Instances of MailStore for TLC. *)
EXTENDS MailStore, TLC

CONSTANTS r1, r2

MCMail(id, parent, subject, parts) ==
  [id |-> id, inReplyTo |-> Bracket(parent), references |-> <<>>,
   subject |-> subject, parts |-> parts]

Hi == Word("hi", TRUE)

(* A message that opens a thread and carries an attachment, and an answer to *)
(* it from a client that sets no threading headers and no Message-ID, so     *)
(* that its subject alone places it.                                        *)
Opening   == MCMail("a", Blank, <<Hi>>, TRUE)
BySubj    == MCMail(Blank, Blank, <<Marker, Space, Word("hi", FALSE)>>, FALSE)
OpenAndAnswer == {Opening, BySubj}

OneRequest  == {r1}
TwoRequests == {r1, r2}
Swaps == Permutations(TwoRequests)
=============================================================================
