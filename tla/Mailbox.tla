-------------------------------- MODULE Mailbox --------------------------------
(***************************************************************************)
(* What the mail store promises to whoever looks at it only through its    *)
(* rows: a mailbox of messages sorted into conversations.                  *)
(*                                                                         *)
(* A message enters once, into an open conversation or a new one, and      *)
(* stays in that conversation until it leaves; once gone it never returns. *)
(* Messages leave one at a time, with their whole conversation, or all     *)
(* together, and never in any other selection.  A conversation id that was *)
(* closed never names another conversation.                                *)
(***************************************************************************)
EXTENDS Naturals

CONSTANT Messages

VARIABLES
  thread,   \* the conversation of each kept message, 0 for a message not kept
  gone,     \* the messages that left
  open,     \* the conversations there are
  closed    \* the conversations there were

mailbox == <<thread, gone, open, closed>>

Init ==
  /\ thread = [m \in Messages |-> 0]
  /\ gone = {} /\ open = {} /\ closed = {}

Without(leaving) == [m \in Messages |-> IF m \in leaving THEN 0 ELSE thread[m]]

Kept == {m \in Messages : thread[m] # 0}

(* Which conversation a message enters is left open, but for the closed ones. *)
Enter(m) ==
  /\ thread[m] = 0 /\ m \notin gone
  /\ thread'[m] \in Nat \ ({0} \cup closed)
  /\ thread' = [thread EXCEPT ![m] = thread'[m]]
  /\ open' = open \cup {thread'[m]}
  /\ UNCHANGED <<gone, closed>>

Leave(leaving) ==
  /\ thread' = Without(leaving)
  /\ gone' = gone \cup leaving

TakeOne(m) ==
  /\ m \in Kept
  /\ Leave({m})
  /\ UNCHANGED <<open, closed>>

CloseOne(c) ==
  /\ c \in open
  /\ Leave({m \in Messages : thread[m] = c})
  /\ open' = open \ {c}
  /\ closed' = closed \cup {c}

CloseAll ==
  /\ Leave(Kept)
  /\ open' = {}
  /\ closed' = closed \cup open

TakeAll ==
  /\ Leave(Kept)
  /\ UNCHANGED <<open, closed>>

Next ==
  \/ \E m \in Messages : Enter(m) \/ TakeOne(m)
  \/ \E c \in open : CloseOne(c)
  \/ CloseAll
  \/ TakeAll

Spec == Init /\ [][Next]_mailbox
=============================================================================
