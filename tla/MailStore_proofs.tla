--------------------------- MODULE MailStore_proofs ---------------------------
(***************************************************************************)
(* Theorems about the mail store, for any number of messages and requests, *)
(* any mail, any faults and any number of crashes.                         *)
(***************************************************************************)
EXTENDS MailStore, FiniteSetTheorems, TLAPS

-----------------------------------------------------------------------------
(* The types, and the agreement of the two tables *)

TargetKnown ==
  \A r \in Requests : step[r] \in {"parts", "thread", "row"} => target[r] \in Msgs

Basic == TypeOK /\ ThreadOfRow /\ TargetKnown

(* A conversation that ResolveConversation finds exists. *)
LEMMA MatchIsOpen ==
  ASSUME ThreadOfRow, NEW m \in Msgs
  PROVE  Match(m) \subseteq DOMAIN convs
<1> DEFINE anc == Ancestors(mail[m].inReplyTo, mail[m].references)
<1>1. \A id : ByMessageID(Rows, id) \subseteq DOMAIN convs
  BY DEF ByMessageID, Rows, Stored, ThreadOfRow
<1>2. ByAncestors(Rows, anc) \subseteq DOMAIN convs
  BY <1>1 DEF ByAncestors
<1>3. \A key : BySubject(Table, key) \subseteq DOMAIN convs
  BY DEF BySubject, Table
<1> QED
  BY <1>2, <1>3 DEF Match, Matching

(* The paths collected for a message are files of the mail directory. *)
LEMMA PathsAreFiles ==
  ASSUME NEW m \in Msgs
  PROVE  FilesOf(m) \subseteq Files /\ RawPath(m) \subseteq Files /\ PartPaths(m) \subseteq Files
<1>1. Raw(m) \in Files /\ Parts(m) \in Files
  BY DEF Raw, Parts, Files
<1> QED
  BY <1>1 DEF FilesOf, RawPath, PartPaths

(* The count Clear reports is a number. *)
LEMMA CountIsNat == Cardinality(Stored) \in Nat
<1>1. IsFiniteSet(Msgs)
  BY MailStoreAssumption, FS_Interval DEF Msgs
<1>2. IsFiniteSet(Stored)
  BY <1>1, FS_Subset DEF Stored
<1> QED
  BY <1>2, FS_CardinalityType

(* An empty store has the types. *)
LEMMA BasicInit == Init => Basic
BY MailStoreAssumption DEF Init, Basic, TypeOK, ThreadOfRow, TargetKnown, Stored, NoRow, Msgs, Keys

(* Every step keeps the types: one case per action of Next. *)
LEMMA BasicNext == Basic /\ [Next]_vars => Basic'
<1> SUFFICES ASSUME Basic, [Next]_vars PROVE Basic'
  OBVIOUS
<1> USE DEF Basic, TypeOK, ThreadOfRow, TargetKnown, Stored, NoRow, Committed, SqlSteps, DiskSteps, Files,
            db, ingest, request, locals, world, history, Serving, Owner, Raw, Parts, FilesOf
<1>1. ASSUME NEW m \in Msgs, Arrival(m) PROVE Basic'
  <2>1. CASE Receive(m)
    BY <2>1 DEF Receive
  <2>2. CASE ReceiveFails(m)
    BY <2>2 DEF ReceiveFails
  <2>3. CASE Persist(m)
    BY <2>3 DEF Persist, Stamp
  <2>4. CASE PersistFails(m)
    BY <2>4 DEF PersistFails, Stamp
  <2>5. CASE Commit(m)
    <3>1. Key(mail[m].subject) \in Keys
      BY DEF Keys
    <3>2. CASE Open(m)
      BY <2>5, <3>1, <3>2 DEF Commit, Open, Created, Touched
    <3>3. ASSUME NEW c \in Match(m), Join(m, c) PROVE Basic'
      <4>1. c \in DOMAIN convs
        BY MatchIsOpen
      <4> QED
        BY <2>5, <3>1, <3>3, <4>1 DEF Commit, Join, Touched
    <3> QED
      BY <2>5, <3>2, <3>3 DEF Commit
  <2>6. CASE CommitFails(m)
    BY <2>6 DEF CommitFails
  <2>7. CASE UndoRaw(m)
    BY <2>7 DEF UndoRaw, TakeBack
  <2>8. CASE UndoParts(m)
    BY <2>8 DEF UndoParts, TakeBack
  <2>9. CASE Acknowledge(m)
    BY <2>9 DEF Acknowledge
  <2> QED
    BY <1>1, <2>1, <2>2, <2>3, <2>4, <2>5, <2>6, <2>7, <2>8, <2>9 DEF Arrival
<1>2. ASSUME NEW r \in Requests, Working(r) PROVE Basic'
  <2>1. CASE ReadParts(r)
    <3>1. PartPaths(target[r]) \subseteq Files
      BY <2>1, PathsAreFiles DEF ReadParts
    <3> QED
      BY <2>1, <3>1 DEF ReadParts, GoTo
  <2>2. CASE FindThread(r)
    <3>1. target[r] \in Msgs /\ row[target[r]] \in Nat
      BY <2>2 DEF FindThread
    <3>2. CASE row[target[r]] = NoRow
      <4>1. Return(r, "done") /\ UNCHANGED <<db, ingest, world, history, disk>>
        BY <2>2, <3>2 DEF FindThread
      <4> QED
        BY <4>1 DEF Return, GoTo
    <3>3. CASE row[target[r]] # NoRow
      <4>1. /\ victim' = [victim EXCEPT ![r] = row[target[r]]]
            /\ step' = [step EXCEPT ![r] = "row"]
            /\ UNCHANGED <<op, target, todo, paths, tally, db, ingest, world, history, disk>>
        BY <2>2, <3>3 DEF FindThread, GoTo
      <4> QED
        BY <2>2, <3>1, <4>1 DEF FindThread
    <3> QED
      BY <3>2, <3>3
  <2>3. CASE DeleteRow(r)
    BY <2>3 DEF DeleteRow, GoTo
  <2>4. CASE CountRemaining(r)
    BY <2>4 DEF CountRemaining, GoTo
  <2>5. CASE DropThread(r)
    BY <2>5 DEF DropThread, GoTo, Restrict, Thread
  <2>6. CASE Answer(r)
    BY <2>6 DEF Answer, Return, GoTo
  <2>7. CASE DropThreads(r)
    BY <2>7 DEF DropThreads, GoTo
  <2>8. CASE SweepMessages(r)
    BY <2>8 DEF SweepMessages, GoTo
  <2>9. CASE WipeRaw(r)
    BY <2>9 DEF WipeRaw, Wipe, GoTo
  <2>10. CASE WipeParts(r)
    BY <2>10 DEF WipeParts, Wipe, Return, GoTo
  <2>11. ASSUME NEW m \in Msgs, ReadRaw(r, m) PROVE Basic'
    <3>1. RawPath(m) \subseteq Files
      BY PathsAreFiles
    <3>2. m \in Nat
      BY DEF Msgs
    <3> QED
      BY <2>11, <3>1, <3>2 DEF ReadRaw, GoTo
  <2>12. ASSUME NEW f \in Files, Unlink(r, f) PROVE Basic'
    BY <2>12 DEF Unlink
  <2> QED
    BY <1>2, <2>1, <2>2, <2>3, <2>4, <2>5, <2>6, <2>7, <2>8, <2>9, <2>10, <2>11, <2>12
    DEF Working
<1>3. ASSUME NEW r \in Requests, Calls(r) PROVE Basic'
  <2>1. ASSUME NEW m \in Msgs, DeleteMessage(r, m) PROVE Basic'
    <3>1. RawPath(m) \subseteq Files
      BY PathsAreFiles
    <3>2. m \in Nat
      BY DEF Msgs
    <3> QED
      BY <2>1, <3>1, <3>2 DEF DeleteMessage, Arrives
  <2>2. ASSUME NEW c \in 1..lastConv, DeleteConversation(r, c) PROVE Basic'
    BY <2>2 DEF DeleteConversation, Arrives, Thread
  <2>3. CASE Clear(r)
    BY <2>3, CountIsNat DEF Clear, Arrives
  <2> QED
    BY <1>3, <2>1, <2>2, <2>3 DEF Calls
<1>4. ASSUME NEW r \in Requests, Breaking(r) PROVE Basic'
  <2>1. CASE Fail(r)
    BY <2>1 DEF Fail, Return, GoTo, Abandoned
  <2>2. ASSUME NEW gone \in SUBSET disk, WipeFails(r, gone) PROVE Basic'
    BY <2>2 DEF WipeFails, Return, GoTo, Abandoned
  <2> QED
    BY <1>4, <2>1, <2>2 DEF Breaking
<1>5. CASE CrashAndRestart
  BY <1>5, MailStoreAssumption DEF CrashAndRestart, Running
<1>6. CASE UNCHANGED vars
  BY <1>6 DEF vars
<1> QED
  BY <1>1, <1>2, <1>3, <1>4, <1>5, <1>6 DEF Next

(* A state of the store has the types and the foreign key TLC checks. *)
THEOREM TypesCorrect == Spec => []TypeOK
<1>1. Basic => TypeOK
  BY DEF Basic
<1> QED
  BY <1>1, BasicInit, BasicNext, PTL DEF Spec

-----------------------------------------------------------------------------
(* What a request knows of the messages it handles *)

(* A row appears only when Ingest has committed. *)
RowsCommitted == \A m \in Stored : at[m] \in Committed

(* Each kind of request runs its own statements only; one that is not        *)
(* running has no files left to remove.                                     *)
KindOfStep ==
  \A r \in Requests :
    /\ step[r] \in {"thread", "row", "count"} => op[r] = "message"
    /\ step[r] = "raw" => op[r] = "thread"
    /\ step[r] \in {"parts", "drop", "unlink"} => op[r] \in {"message", "thread"}
    /\ step[r] \in {"dropall", "sweep", "wiperaw", "wipeparts"} => op[r] = "clear"
    /\ step[r] \in {"idle", "done", "failed"} => paths[r] = {} /\ todo[r] = {}

(* A DeleteMessage holds the files of its target alone.  Once it knows the   *)
(* conversation the row is there or gone for good, and gone after DELETE.    *)
OneMessage ==
  \A r \in Requests : op[r] = "message" =>
    /\ \A f \in paths[r] : Owner(f) = target[r]
    /\ step[r] \in {"parts", "thread", "row", "count", "drop", "unlink"} =>
         target[r] \in Msgs /\ at[target[r]] \in Committed
    /\ step[r] = "row" => row[target[r]] \in {NoRow, victim[r]}
    /\ step[r] \in {"count", "drop", "unlink"} => row[target[r]] = NoRow

(* The messages a DeleteConversation has listed. *)
Listed(r) ==
  todo[r] \cup {Owner(f) : f \in paths[r]} \cup {m \in {target[r]} : step[r] = "parts"}

(* They were in its conversation and are nowhere else; after the cascade     *)
(* they are gone.                                                           *)
OneThread ==
  \A r \in Requests : op[r] = "thread" =>
    /\ \A m \in Listed(r) : m \in Msgs /\ at[m] \in Committed /\ row[m] \in {NoRow, victim[r]}
    /\ step[r] = "unlink" => \A f \in paths[r] : row[Owner(f)] = NoRow

Bookkeeping == RowsCommitted /\ KindOfStep /\ OneMessage /\ OneThread

(* No request has started, so none holds anything. *)
LEMMA BookkeepingInit == Init => Bookkeeping
BY DEF Init, Bookkeeping, RowsCommitted, KindOfStep, OneMessage, OneThread, Listed, Stored, NoRow

(* The paths collected for a message are its own files, and there are none   *)
(* when its row is gone.                                                    *)
LEMMA PathsAreOwn ==
  ASSUME NEW m \in Msgs
  PROVE  /\ \A f \in FilesOf(m) : Owner(f) = m
         /\ RawPath(m) \cup PartPaths(m) \subseteq FilesOf(m)
BY DEF FilesOf, RawPath, PartPaths, Owner, Raw, Parts

(* What a request knows stays true under its own steps and everybody else's. *)
LEMMA BookkeepingNext == Basic /\ Bookkeeping /\ [Next]_vars => Bookkeeping'
<1> SUFFICES ASSUME Basic, Bookkeeping, [Next]_vars PROVE Bookkeeping'
  OBVIOUS
<1> USE DEF Basic, TypeOK, TargetKnown, Bookkeeping, RowsCommitted, KindOfStep, OneMessage,
            OneThread, Listed, Stored, NoRow, Committed, SqlSteps, DiskSteps,
            db, ingest, request, locals, world, history, Serving
<1>1. ASSUME NEW m \in Msgs, Arrival(m) PROVE Bookkeeping'
  <2>1. CASE Receive(m)
    BY <2>1 DEF Receive
  <2>2. CASE ReceiveFails(m)
    BY <2>2 DEF ReceiveFails
  <2>3. CASE Persist(m)
    BY <2>3 DEF Persist, Stamp
  <2>4. CASE PersistFails(m)
    BY <2>4 DEF PersistFails, Stamp
  <2>5. CASE Commit(m)
    <3>1. \E c : row' = [row EXCEPT ![m] = c]
      BY <2>5 DEF Commit, Open, Join
    <3> QED
      BY <2>5, <3>1 DEF Commit
  <2>6. CASE CommitFails(m)
    BY <2>6 DEF CommitFails
  <2>7. CASE UndoRaw(m)
    BY <2>7 DEF UndoRaw
  <2>8. CASE UndoParts(m)
    BY <2>8 DEF UndoParts
  <2>9. CASE Acknowledge(m)
    BY <2>9 DEF Acknowledge
  <2> QED
    BY <1>1, <2>1, <2>2, <2>3, <2>4, <2>5, <2>6, <2>7, <2>8, <2>9 DEF Arrival
<1>2. ASSUME NEW r \in Requests, Working(r) PROVE Bookkeeping'
  <2>1. CASE ReadParts(r)
    <3>1. \A f \in PartPaths(target[r]) : Owner(f) = target[r]
      BY <2>1, PathsAreOwn DEF ReadParts
    <3> QED
      BY <2>1, <3>1 DEF ReadParts, GoTo
  <2>2. CASE FindThread(r)
    BY <2>2 DEF FindThread, GoTo, Return
  <2>3. CASE DeleteRow(r)
    BY <2>3 DEF DeleteRow, GoTo
  <2>4. CASE CountRemaining(r)
    BY <2>4 DEF CountRemaining, GoTo
  <2>5. CASE DropThread(r)
    BY <2>5 DEF DropThread, GoTo, Thread
  <2>6. CASE Answer(r)
    BY <2>6 DEF Answer, Return, GoTo
  <2>7. CASE DropThreads(r)
    BY <2>7 DEF DropThreads, GoTo
  <2>8. CASE SweepMessages(r)
    BY <2>8 DEF SweepMessages, GoTo
  <2>9. CASE WipeRaw(r)
    BY <2>9 DEF WipeRaw, Wipe, GoTo
  <2>10. CASE WipeParts(r)
    BY <2>10 DEF WipeParts, Wipe, Return, GoTo
  <2>11. ASSUME NEW m \in Msgs, ReadRaw(r, m) PROVE Bookkeeping'
    <3>1. \A f \in RawPath(m) : Owner(f) = m
      BY PathsAreOwn
    <3> QED
      BY <2>11, <3>1 DEF ReadRaw, GoTo
  <2>12. ASSUME NEW f \in Files, Unlink(r, f) PROVE Bookkeeping'
    BY <2>12 DEF Unlink
  <2> QED
    BY <1>2, <2>1, <2>2, <2>3, <2>4, <2>5, <2>6, <2>7, <2>8, <2>9, <2>10, <2>11, <2>12
    DEF Working
<1>3. ASSUME NEW r \in Requests, Calls(r) PROVE Bookkeeping'
  <2>1. ASSUME NEW m \in Msgs, DeleteMessage(r, m) PROVE Bookkeeping'
    <3>1. \A f \in RawPath(m) : Owner(f) = m
      BY PathsAreOwn
    <3>2. m \in Nat
      BY DEF Msgs
    <3> QED
      BY <2>1, <3>1, <3>2 DEF DeleteMessage, Arrives
  <2>2. ASSUME NEW c \in 1..lastConv, DeleteConversation(r, c) PROVE Bookkeeping'
    <3>1. \A m \in Thread(c) : m \in Msgs /\ at[m] \in Committed /\ row[m] = c
      BY DEF Thread
    <3> QED
      BY <2>2, <3>1 DEF DeleteConversation, Arrives
  <2>3. CASE Clear(r)
    BY <2>3 DEF Clear, Arrives
  <2> QED
    BY <1>3, <2>1, <2>2, <2>3 DEF Calls
<1>4. ASSUME NEW r \in Requests, Breaking(r) PROVE Bookkeeping'
  <2>1. CASE Fail(r)
    BY <2>1 DEF Fail, Return, GoTo
  <2>2. ASSUME NEW gone \in SUBSET disk, WipeFails(r, gone) PROVE Bookkeeping'
    BY <2>2 DEF WipeFails, Return, GoTo
  <2> QED
    BY <1>4, <2>1, <2>2 DEF Breaking
<1>5. CASE CrashAndRestart
  BY <1>5 DEF CrashAndRestart, Running
<1>6. CASE UNCHANGED vars
  BY <1>6 DEF vars
<1> QED
  BY <1>1, <1>2, <1>3, <1>4, <1>5, <1>6 DEF Next

-----------------------------------------------------------------------------
(* A stored message keeps its files *)

(* Ingest has written what it is about to commit, unless a Clear wiped it.   *)
InFlightHasFiles ==
  \A m \in Msgs \ swept :
    /\ at[m] = "written" => Raw(m) \in disk
    /\ at[m] = "staged" => FilesOf(m) \subseteq disk

FilesInv == InFlightHasFiles /\ StoredHasFiles

(* The empty store and the empty directory agree. *)
LEMMA FilesInit == Init => FilesInv
BY DEF Init, FilesInv, InFlightHasFiles, StoredHasFiles, Stored, NoRow

(* No step takes a file that a row, or an Ingest about to commit, still needs. *)
LEMMA FilesNext == Basic /\ Bookkeeping /\ FilesInv /\ [Next]_vars => FilesInv'
<1> SUFFICES ASSUME Basic, Bookkeeping, FilesInv, [Next]_vars PROVE FilesInv'
  OBVIOUS
<1> USE DEF Basic, TypeOK, FilesInv, InFlightHasFiles, StoredHasFiles, Stored, NoRow, FilesOf,
            db, ingest, request, locals, world, history, Serving
<1>o. \A m \in Msgs : Owner(Raw(m)) = m /\ Owner(Parts(m)) = m
  BY DEF Owner, Raw, Parts
<1>r. \A m \in Msgs : at[m] \notin Committed => row[m] = NoRow
  BY DEF Bookkeeping, RowsCommitted
<1>1. ASSUME NEW m \in Msgs, Arrival(m) PROVE FilesInv'
  <2>1. CASE Receive(m)
    BY <2>1 DEF Receive
  <2>2. CASE ReceiveFails(m)
    BY <2>2 DEF ReceiveFails
  <2>3. CASE Persist(m)
    BY <2>3 DEF Persist, Stamp
  <2>4. CASE PersistFails(m)
    BY <2>4 DEF PersistFails, Stamp
  <2>5. CASE Commit(m)
    <3>1. \E c : row' = [row EXCEPT ![m] = c]
      BY <2>5 DEF Commit, Open, Join
    <3> QED
      BY <2>5, <3>1 DEF Commit
  <2>6. CASE CommitFails(m)
    BY <2>6 DEF CommitFails
  <2>7. CASE UndoRaw(m)
    BY <2>7, <1>r, <1>o DEF UndoRaw, TakeBack, Committed
  <2>8. CASE UndoParts(m)
    BY <2>8, <1>r, <1>o DEF UndoParts, TakeBack, Committed
  <2>9. CASE Acknowledge(m)
    BY <2>9 DEF Acknowledge
  <2> QED
    BY <1>1, <2>1, <2>2, <2>3, <2>4, <2>5, <2>6, <2>7, <2>8, <2>9 DEF Arrival
<1>2. ASSUME NEW r \in Requests, Working(r) PROVE FilesInv'
  <2>1. CASE ReadParts(r)
    BY <2>1 DEF ReadParts
  <2>2. CASE FindThread(r)
    BY <2>2 DEF FindThread
  <2>3. CASE DeleteRow(r)
    BY <2>3 DEF DeleteRow
  <2>4. CASE CountRemaining(r)
    BY <2>4 DEF CountRemaining
  <2>5. CASE DropThread(r)
    BY <2>5 DEF DropThread
  <2>6. CASE Answer(r)
    BY <2>6 DEF Answer
  <2>7. CASE DropThreads(r)
    BY <2>7 DEF DropThreads
  <2>8. CASE SweepMessages(r)
    BY <2>8 DEF SweepMessages
  <2>9. CASE WipeRaw(r)
    BY <2>9, <1>o DEF WipeRaw, Wipe
  <2>10. CASE WipeParts(r)
    BY <2>10, <1>o DEF WipeParts, Wipe
  <2>11. ASSUME NEW m \in Msgs, ReadRaw(r, m) PROVE FilesInv'
    BY <2>11 DEF ReadRaw
  <2>12. ASSUME NEW f \in Files, Unlink(r, f) PROVE FilesInv'
    (* The file's row is gone for good, and Ingest is over for it. *)
    <3>1. op[r] \in {"message", "thread"}
      BY <2>12 DEF Unlink, Bookkeeping, KindOfStep
    <3> DEFINE n == Owner(f)
    <3>3. n \in Msgs /\ at[n] \in Committed /\ row[n] = NoRow
      <4>1. CASE op[r] = "message"
        BY <2>12, <4>1 DEF Unlink, Bookkeeping, OneMessage
      <4>2. CASE op[r] = "thread"
        BY <2>12, <4>2 DEF Unlink, Bookkeeping, OneThread, Listed
      <4> QED
        BY <3>1, <4>1, <4>2
    <3>4. \A m \in Msgs : f \in FilesOf(m) => m = n
      BY <1>o
    <3> QED
      BY <2>12, <3>3, <3>4 DEF Unlink, Committed
  <2> QED
    BY <1>2, <2>1, <2>2, <2>3, <2>4, <2>5, <2>6, <2>7, <2>8, <2>9, <2>10, <2>11, <2>12
    DEF Working
<1>3. ASSUME NEW r \in Requests, Calls(r) PROVE FilesInv'
  BY <1>3 DEF Calls, DeleteMessage, DeleteConversation, Clear
<1>4. ASSUME NEW r \in Requests, Breaking(r) PROVE FilesInv'
  <2>1. CASE Fail(r)
    BY <2>1 DEF Fail
  <2>2. ASSUME NEW gone \in SUBSET disk, WipeFails(r, gone) PROVE FilesInv'
    BY <2>2, <1>o DEF WipeFails
  <2> QED
    BY <1>4, <2>1, <2>2 DEF Breaking
<1>5. CASE CrashAndRestart
  BY <1>5 DEF CrashAndRestart
<1>6. CASE UNCHANGED vars
  BY <1>6 DEF vars
<1> QED
  BY <1>1, <1>2, <1>3, <1>4, <1>5, <1>6 DEF Next

(* Only a Clear separates a stored message from its files.  The argument:    *)
(* Ingest writes them before the transaction, and every removal of a file    *)
(* comes after its row is gone (Bookkeeping) or before there is one.         *)
THEOREM StoredHasFilesAlways == Spec => []StoredHasFiles
<1>1. FilesInv => StoredHasFiles
  BY DEF FilesInv
<1> QED
  BY <1>1, BasicInit, BasicNext, BookkeepingInit, BookkeepingNext, FilesInit, FilesNext, PTL
  DEF Spec

-----------------------------------------------------------------------------
(* An empty conversation is somebody's to drop *)

(* What excuses a conversation from holding messages. *)
Dropping(c) ==
  \E r \in Requests : op[r] = "message" /\ step[r] \in {"count", "drop"} /\ victim[r] = c

Excused(c) == Thread(c) # {} \/ c \in torn \/ Dropping(c)

(* The property in the terms of Excused. *)
LEMMA NoEmptyThreadIsExcused == NoEmptyThread <=> \A c \in DOMAIN convs : Excused(c)
BY DEF NoEmptyThread, Excused, Dropping

(* There is no conversation at first. *)
LEMMA NoEmptyThreadInit == Init => NoEmptyThread
BY DEF Init, NoEmptyThread

(* A step that empties a conversation makes somebody responsible for it. *)
LEMMA NoEmptyThreadNext == Basic /\ Bookkeeping /\ NoEmptyThread /\ [Next]_vars => NoEmptyThread'
<1> SUFFICES ASSUME Basic, Bookkeeping, [Next]_vars, \A c \in DOMAIN convs : Excused(c),
                    NEW c \in DOMAIN convs'
             PROVE  Excused(c)'
  BY NoEmptyThreadIsExcused DEF NoEmptyThread, Excused, Dropping
<1> USE DEF Basic, TypeOK, TargetKnown, Excused, Dropping, Thread, NoRow,
            db, ingest, request, locals, world, history, Serving
<1>1. ASSUME NEW m \in Msgs, Arrival(m) PROVE Excused(c)'
  <2>1. CASE Receive(m)
    BY <2>1 DEF Receive
  <2>2. CASE ReceiveFails(m)
    BY <2>2 DEF ReceiveFails
  <2>3. CASE Persist(m)
    BY <2>3 DEF Persist, Stamp
  <2>4. CASE PersistFails(m)
    BY <2>4 DEF PersistFails, Stamp
  <2>5. CASE Commit(m)
    (* The message joins a conversation or opens one; it leaves none. *)
    <3>1. row[m] = NoRow
      BY <2>5 DEF Commit, Bookkeeping, RowsCommitted, Committed, Stored
    <3>2. CASE Open(m)
      <4>1. row' = [row EXCEPT ![m] = lastConv + 1] /\ DOMAIN convs' = DOMAIN convs \cup {lastConv + 1}
        BY <3>2 DEF Open, Created, Touched
      <4>2. CASE c = lastConv + 1
        BY <4>1, <4>2
      <4>3. CASE c \in DOMAIN convs
        BY <2>5, <3>1, <4>1, <4>3 DEF Commit, ThreadOfRow
      <4> QED
        BY <4>1, <4>2, <4>3
    <3>3. ASSUME NEW d \in Match(m), Join(m, d) PROVE Excused(c)'
      <4>1. d \in DOMAIN convs
        BY MatchIsOpen
      <4>2. row' = [row EXCEPT ![m] = d] /\ c \in DOMAIN convs
        BY <3>3, <4>1 DEF Join, Touched
      <4>3. c # NoRow
        BY <4>2
      <4>4. Thread(c) # {} => Thread(c)' # {}
        BY <3>1, <4>2, <4>3
      <4>5. (Dropping(c) => Dropping(c)') /\ torn' = torn
        BY <2>5 DEF Commit
      <4> QED
        BY <4>2, <4>4, <4>5
    <3> QED
      BY <2>5, <3>2, <3>3 DEF Commit
  <2>6. CASE CommitFails(m)
    BY <2>6 DEF CommitFails
  <2>7. CASE UndoRaw(m)
    BY <2>7 DEF UndoRaw
  <2>8. CASE UndoParts(m)
    BY <2>8 DEF UndoParts
  <2>9. CASE Acknowledge(m)
    BY <2>9 DEF Acknowledge
  <2> QED
    BY <1>1, <2>1, <2>2, <2>3, <2>4, <2>5, <2>6, <2>7, <2>8, <2>9 DEF Arrival
<1>2. ASSUME NEW r \in Requests, Working(r) PROVE Excused(c)'
  <2>1. CASE ReadParts(r)
    BY <2>1 DEF ReadParts, GoTo
  <2>2. CASE FindThread(r)
    BY <2>2 DEF FindThread, GoTo, Return
  <2>3. CASE DeleteRow(r)
    (* The conversation it takes the last row from is its own to drop. *)
    <3>1. op[r] = "message" /\ row[target[r]] \in {NoRow, victim[r]}
      BY <2>3 DEF DeleteRow, Bookkeeping, KindOfStep, OneMessage
    <3>2. CASE c = victim[r]
      BY <2>3, <3>1, <3>2 DEF DeleteRow, GoTo
    <3>3. CASE c # victim[r]
      BY <2>3, <3>1, <3>3 DEF DeleteRow, GoTo
    <3> QED
      BY <3>2, <3>3
  <2>4. CASE CountRemaining(r)
    BY <2>4 DEF CountRemaining, GoTo
  <2>5. CASE DropThread(r)
    <3>1. c # victim[r] /\ c \in DOMAIN convs
      BY <2>5 DEF DropThread, Restrict
    <3>2. Thread(c) # {} => Thread(c)' # {}
      BY <2>5, <3>1 DEF DropThread
    <3>3. Dropping(c) => Dropping(c)'
      BY <2>5, <3>1 DEF DropThread, GoTo
    <3> QED
      BY <2>5, <3>1, <3>2, <3>3 DEF DropThread
  <2>6. CASE Answer(r)
    BY <2>6 DEF Answer, Return, GoTo
  <2>7. CASE DropThreads(r)
    BY <2>7 DEF DropThreads
  <2>8. CASE SweepMessages(r)
    (* What the sweep empties is recorded as torn. *)
    <3>1. op[r] = "clear" /\ step[r] = "sweep"
      BY <2>8 DEF SweepMessages, Bookkeeping, KindOfStep
    <3>2. c \in torn' \/ Dropping(c)
      BY <2>8 DEF SweepMessages
    <3>3. Dropping(c) => Dropping(c)'
      BY <2>8, <3>1 DEF SweepMessages, GoTo
    <3> QED
      BY <3>2, <3>3
  <2>9. CASE WipeRaw(r)
    BY <2>9 DEF WipeRaw, Wipe, GoTo
  <2>10. CASE WipeParts(r)
    BY <2>10 DEF WipeParts, Wipe, Return, GoTo
  <2>11. ASSUME NEW m \in Msgs, ReadRaw(r, m) PROVE Excused(c)'
    BY <2>11 DEF ReadRaw, GoTo
  <2>12. ASSUME NEW f \in Files, Unlink(r, f) PROVE Excused(c)'
    BY <2>12 DEF Unlink
  <2> QED
    BY <1>2, <2>1, <2>2, <2>3, <2>4, <2>5, <2>6, <2>7, <2>8, <2>9, <2>10, <2>11, <2>12
    DEF Working
<1>3. ASSUME NEW r \in Requests, Calls(r) PROVE Excused(c)'
  <2>1. ASSUME NEW m \in Msgs, DeleteMessage(r, m) PROVE Excused(c)'
    BY <2>1 DEF DeleteMessage, Arrives
  <2>2. ASSUME NEW d \in 1..lastConv, DeleteConversation(r, d) PROVE Excused(c)'
    BY <2>2 DEF DeleteConversation, Arrives
  <2>3. CASE Clear(r)
    BY <2>3 DEF Clear, Arrives
  <2> QED
    BY <1>3, <2>1, <2>2, <2>3 DEF Calls
<1>4. ASSUME NEW r \in Requests, Breaking(r) PROVE Excused(c)'
  <2>1. CASE Fail(r)
    <3>1. CASE op[r] = "message" /\ step[r] \in {"count", "drop"} /\ victim[r] = c
      BY <2>1, <3>1 DEF Fail, Emptied
    <3>2. CASE ~(op[r] = "message" /\ step[r] \in {"count", "drop"} /\ victim[r] = c)
      BY <2>1, <3>2 DEF Fail, Return, GoTo
    <3> QED
      BY <3>1, <3>2
  <2>2. ASSUME NEW gone \in SUBSET disk, WipeFails(r, gone) PROVE Excused(c)'
    BY <2>2 DEF WipeFails, Return, GoTo
  <2> QED
    BY <1>4, <2>1, <2>2 DEF Breaking
<1>5. CASE CrashAndRestart
  BY <1>5 DEF CrashAndRestart, Emptied
<1>6. CASE UNCHANGED vars
  BY <1>6 DEF vars
<1> QED
  BY <1>1, <1>2, <1>3, <1>4, <1>5, <1>6 DEF Next

(* A conversation without messages is about to be dropped, or the deletion   *)
(* that emptied it was cut short or was a Clear that met a new conversation. *)
THEOREM NoEmptyThreadAlways == Spec => []NoEmptyThread
BY BasicInit, BasicNext, BookkeepingInit, BookkeepingNext, NoEmptyThreadInit, NoEmptyThreadNext, PTL
DEF Spec

-----------------------------------------------------------------------------
(* Nothing of a refused message is kept: the whole of Ingest is one          *)
(* transaction, and it is refused only when that did not commit.             *)
THEOREM RefusedNotKeptAlways == Spec => []RefusedNotKept
<1>1. Bookkeeping => RefusedNotKept
  BY DEF Bookkeeping, RowsCommitted, RefusedNotKept, Committed
<1> QED
  BY <1>1, BasicInit, BasicNext, BookkeepingInit, BookkeepingNext, PTL DEF Spec

-----------------------------------------------------------------------------
(* Unrelated messages stay apart *)

(* Nothing matches a message that answers nothing. *)
LEMMA OpenerMatchesNothing ==
  ASSUME NEW m \in Msgs, Opener(m)
  PROVE  Match(m) = {}
<1> DEFINE anc == Ancestors(mail[m].inReplyTo, mail[m].references)
<1>1. DOMAIN anc = {}
  BY DEF Opener
<1>2. ByAncestors(Rows, anc) = {}
  BY <1>1 DEF ByAncestors
<1> QED
  BY <1>2 DEF Match, Matching, Opener

(* With no row there is nothing to share. *)
LEMMA ReceiptsInit == Init => ReceiptsStayApart
BY DEF Init, ReceiptsStayApart, Stored, NoRow

(* Only Commit gives a message a row, and an opener's row names a new id. *)
LEMMA ReceiptsNext == Basic /\ ReceiptsStayApart /\ [Next]_vars => ReceiptsStayApart'
<1> SUFFICES ASSUME Basic, ReceiptsStayApart, [Next]_vars PROVE ReceiptsStayApart'
  OBVIOUS
<1> USE DEF Stored, NoRow
<1>1. mail' = mail /\ \A m \in Msgs : Opener(m)' <=> Opener(m)
  <2>1. mail' = mail
    BY DEF Next, vars, Arrival, Receive, ReceiveFails, Persist, Stamp, PersistFails, Commit, CommitFails,
           UndoRaw, UndoParts, Acknowledge, Working, ReadParts, FindThread, DeleteRow,
           CountRemaining, DropThread, Answer, DropThreads, SweepMessages, WipeRaw, WipeParts, Wipe,
           ReadRaw, Unlink, Calls, DeleteMessage, DeleteConversation, Clear, Breaking, Fail,
           WipeFails, CrashAndRestart, ingest
  <2> QED
    BY <2>1 DEF Opener
<1>2. ASSUME NEW m \in Msgs, Commit(m) PROVE ReceiptsStayApart'
  <2>1. CASE Opener(m)
    <3>1. row' = [row EXCEPT ![m] = lastConv + 1]
      BY <1>2, <2>1, OpenerMatchesNothing DEF Commit, Open
    <3>2. \A n \in Stored : row[n] # lastConv + 1
      BY DEF Basic, TypeOK, ThreadOfRow
    <3> QED
      BY <1>1, <3>1, <3>2 DEF ReceiptsStayApart, Basic, TypeOK
  <2>2. CASE ~Opener(m)
    <3>1. \E c : row' = [row EXCEPT ![m] = c]
      BY <1>2 DEF Commit, Open, Join
    <3> QED
      BY <1>1, <2>2, <3>1 DEF ReceiptsStayApart, Basic, TypeOK
  <2> QED
    BY <2>1, <2>2
<1>3. CASE \A m \in Msgs : row'[m] \in {row[m], NoRow}
  BY <1>1, <1>3 DEF ReceiptsStayApart
<1>4. ASSUME NEW m \in Msgs, Arrival(m), ~Commit(m) PROVE row' = row
  BY <1>4 DEF Arrival, Receive, ReceiveFails, Persist, Stamp, PersistFails, CommitFails, UndoRaw,
              UndoParts, Acknowledge, Serving, db
<1>5. ASSUME NEW r \in Requests, Working(r) PROVE \A m \in Msgs : row'[m] \in {row[m], NoRow}
  BY <1>5 DEF Working, ReadParts, FindThread, DeleteRow, CountRemaining, DropThread, Answer,
              DropThreads, SweepMessages, WipeRaw, WipeParts, Wipe, ReadRaw, Unlink, db, Basic, TypeOK
<1>6. ASSUME NEW r \in Requests, Calls(r) \/ Breaking(r) PROVE row' = row
  BY <1>6 DEF Calls, Breaking, DeleteMessage, DeleteConversation, Clear, Fail, WipeFails, db
<1>7. CASE CrashAndRestart \/ UNCHANGED vars
  BY <1>3, <1>7 DEF CrashAndRestart, vars, db
<1> QED
  BY <1>2, <1>3, <1>4, <1>5, <1>6, <1>7 DEF Next

(* Two messages that answer nothing never share a conversation: each opens   *)
(* one, and ids are never handed out twice.                                  *)
THEOREM ReceiptsStayApartAlways == Spec => []ReceiptsStayApart
BY BasicInit, BasicNext, ReceiptsInit, ReceiptsNext, PTL DEF Spec

-----------------------------------------------------------------------------
(* The store implements the mailbox *)

(* An empty store is an empty mailbox. *)
LEMMA MailboxInit == Init => Box!Init
<1> SUFFICES ASSUME Init PROVE Box!Init
  OBVIOUS
<1>1. DOMAIN convs = {} /\ (1..lastConv) = {}
  BY DEF Init
<1> QED
  BY <1>1 DEF Init, Box!Init, Committed, NoRow

(* Each step that changes rows is a step of the mailbox, and no other is. *)
LEMMA MailboxNext == Basic /\ Bookkeeping /\ [Next]_vars => [Box!Next]_(Box!mailbox)
<1> SUFFICES ASSUME Basic, Bookkeeping, [Next]_vars PROVE [Box!Next]_(Box!mailbox)
  OBVIOUS
<1> DEFINE away == {m \in Msgs : at[m] \in Committed /\ row[m] = NoRow}
           shut == (1..lastConv) \ DOMAIN convs
<1> USE DEF NoRow
<1>t. row \in [Msgs -> Nat] /\ lastConv \in Nat /\ DOMAIN convs \subseteq Nat \ {0}
  BY DEF Basic, TypeOK
<1>c. \A m \in Msgs : row[m] # 0 => at[m] \in Committed /\ row[m] \in DOMAIN convs
  BY DEF Bookkeeping, RowsCommitted, Basic, ThreadOfRow, Stored
<1>l. \A c \in DOMAIN convs : c <= lastConv
  BY DEF Basic, ThreadOfRow
<1>s. ASSUME UNCHANGED db, \A m \in Msgs : at'[m] \in Committed <=> at[m] \in Committed
      PROVE  UNCHANGED Box!mailbox
  BY <1>s DEF Box!mailbox, db
<1>1. ASSUME NEW m \in Msgs, Commit(m) PROVE Box!Enter(m)
  <2>1. row[m] = 0 /\ m \notin away
    BY <1>1, <1>c DEF Commit, Committed
  <2>2. PICK c \in Nat \ {0} : /\ row' = [row EXCEPT ![m] = c]
                               /\ DOMAIN convs' = DOMAIN convs \cup {c}
                               /\ c \notin shut /\ shut' = shut
    <3>1. CASE Open(m)
      <4>1. /\ row' = [row EXCEPT ![m] = lastConv + 1]
            /\ DOMAIN convs' = DOMAIN convs \cup {lastConv + 1}
            /\ lastConv' = lastConv + 1
        BY <3>1 DEF Open, Created, Touched
      <4>2. lastConv + 1 \in Nat \ {0} /\ lastConv + 1 \notin shut
        BY <1>t
      <4>3. shut' = shut
        BY <1>t, <4>1
      <4> QED
        BY <4>1, <4>2, <4>3
    <3>2. ASSUME NEW c \in Match(m), Join(m, c)
          PROVE  /\ row' = [row EXCEPT ![m] = c]
                 /\ DOMAIN convs' = DOMAIN convs \cup {c}
                 /\ c \in DOMAIN convs /\ lastConv' = lastConv
      <4>1. c \in DOMAIN convs
        BY MatchIsOpen DEF Basic
      <4> QED
        BY <3>2, <4>1 DEF Join, Touched
    <3> QED
      BY <1>1, <1>t, <3>1, <3>2 DEF Commit
  <2>3. away' = away
    BY <1>1, <1>t, <2>1, <2>2 DEF Commit, Committed, Basic, TypeOK
  <2> QED
    BY <1>t, <2>1, <2>2, <2>3 DEF Box!Enter
<1>2. ASSUME NEW m \in Msgs, Arrival(m), ~Commit(m) PROVE UNCHANGED Box!mailbox
  <2>1. UNCHANGED db
    BY <1>2 DEF Arrival, Receive, ReceiveFails, Persist, Stamp, PersistFails, CommitFails, UndoRaw,
                UndoParts, Acknowledge, Serving
  <2>2. \A n \in Msgs : at'[n] \in Committed <=> at[n] \in Committed
    BY <1>2 DEF Arrival, Receive, ReceiveFails, Persist, Stamp, PersistFails, CommitFails, UndoRaw,
                UndoParts, Acknowledge, Committed, Basic, TypeOK
  <2> QED
    BY <1>s, <2>1, <2>2
<1>3. ASSUME NEW r \in Requests, DeleteRow(r) PROVE [Box!Next]_(Box!mailbox)
  <2>1. target[r] \in Msgs /\ UNCHANGED <<convs, lastConv, at>>
    BY <1>3 DEF DeleteRow, Basic, TargetKnown, ingest
  <2>2. CASE row[target[r]] = 0
    BY <1>3, <1>t, <2>1, <2>2 DEF DeleteRow, Box!mailbox
  <2>3. CASE row[target[r]] # 0
    <3>1. PICK m \in Msgs : m = target[r]
      BY <2>1
    <3>2. Box!TakeOne(m)
      BY <1>3, <1>t, <1>c, <2>1, <2>3, <3>1 DEF DeleteRow, Box!TakeOne, Box!Kept, Box!Leave, Box!Without
    <3> QED
      BY <3>2 DEF Box!Next
  <2> QED
    BY <2>2, <2>3
<1>4. ASSUME NEW r \in Requests, DropThread(r) PROVE [Box!Next]_(Box!mailbox)
  <2>1. /\ DOMAIN convs' = DOMAIN convs \ {victim[r]} /\ UNCHANGED <<lastConv, at>>
        /\ row' = [m \in Msgs |-> IF row[m] = victim[r] THEN 0 ELSE row[m]]
    BY <1>4 DEF DropThread, Restrict, ingest
  <2>2. CASE victim[r] \in DOMAIN convs
    <3>1. PICK c \in DOMAIN convs : c = victim[r]
      BY <2>2
    <3>2. shut' = shut \cup {c}
      BY <1>t, <1>l, <2>1, <3>1
    <3>3. Box!CloseOne(c)
      BY <1>t, <1>c, <2>1, <3>1, <3>2 DEF Box!CloseOne, Box!Leave, Box!Without
    <3> QED
      BY <3>3 DEF Box!Next
  <2>3. CASE victim[r] \notin DOMAIN convs
    <3>1. row' = row
      BY <1>t, <1>c, <2>1, <2>3
    <3> QED
      BY <2>1, <2>3, <3>1 DEF Box!mailbox
  <2> QED
    BY <2>2, <2>3
<1>5. ASSUME NEW r \in Requests, DropThreads(r) PROVE Box!CloseAll
  <2>1. /\ DOMAIN convs' = {} /\ UNCHANGED <<lastConv, at>>
        /\ row' = [m \in Msgs |-> 0]
    BY <1>5, <1>t, <1>c DEF DropThreads, ingest
  <2>2. shut' = shut \cup DOMAIN convs
    BY <1>t, <1>l, <2>1
  <2> QED
    BY <1>t, <1>c, <2>1, <2>2 DEF Box!CloseAll, Box!Leave, Box!Without, Box!Kept
<1>6. ASSUME NEW r \in Requests, SweepMessages(r) PROVE Box!TakeAll
  <2>1. UNCHANGED <<convs, lastConv, at>> /\ row' = [m \in Msgs |-> 0]
    BY <1>6 DEF SweepMessages, ingest
  <2> QED
    BY <1>t, <1>c, <2>1 DEF Box!TakeAll, Box!Leave, Box!Without, Box!Kept
<1>7. ASSUME NEW r \in Requests, Working(r),
             ~DeleteRow(r), ~DropThread(r), ~DropThreads(r), ~SweepMessages(r)
      PROVE  UNCHANGED <<db, at>>
  BY <1>7 DEF Working, ReadParts, FindThread, CountRemaining, Answer, WipeRaw, WipeParts, Wipe,
              ReadRaw, Unlink, ingest
<1>8. ASSUME NEW r \in Requests, Calls(r) \/ Breaking(r) PROVE UNCHANGED <<db, at>>
  BY <1>8 DEF Calls, Breaking, DeleteMessage, DeleteConversation, Clear, Fail, WipeFails, ingest
<1>9. CASE CrashAndRestart
  <2>1. UNCHANGED db /\ \A n \in Msgs : at'[n] \in Committed <=> at[n] \in Committed
    BY <1>9 DEF CrashAndRestart, Committed, Basic, TypeOK
  <2> QED
    BY <1>s, <2>1
<1>10. CASE UNCHANGED vars
  BY <1>s, <1>10 DEF vars, ingest
<1> QED
  BY <1>s, <1>1, <1>2, <1>3, <1>4, <1>5, <1>6, <1>7, <1>8, <1>9, <1>10 DEF Next, Box!Next

(* However the statements of concurrent requests interleave, the rows behave *)
(* like a mailbox with atomic operations.                                    *)
THEOREM StoreKeepsMailbox == Spec => KeepsMailbox
BY BasicInit, BasicNext, BookkeepingInit, BookkeepingNext, MailboxInit, MailboxNext, PTL
DEF Spec, KeepsMailbox, Box!Spec

-----------------------------------------------------------------------------
(* A file without a row is not forgotten *)

(* Only files that their message really has are ever written. *)
OwnFiles == \A f \in disk : f \in FilesOf(Owner(f))

(* By the time a DeleteMessage deletes a row it has all the files of it. *)
Collected ==
  \A r \in Requests : op[r] = "message" /\ row[target[r]] # NoRow =>
    /\ step[r] = "parts" => Raw(target[r]) \in paths[r]
    /\ step[r] \in {"thread", "row"} => FilesOf(target[r]) \subseteq paths[r]

Gathering == OwnFiles /\ Collected

(* Before the first message there is no file and no request has collected any. *)
LEMMA GatheringInit == Init => Gathering
BY DEF Init, Gathering, OwnFiles, Collected

(* Files appear in Ingest only; a row that is gone does not come back while   *)
(* a request looks at it.                                                    *)
LEMMA GatheringNext == Basic /\ Bookkeeping /\ Gathering /\ [Next]_vars => Gathering'
<1> SUFFICES ASSUME Basic, Bookkeeping, Gathering, [Next]_vars PROVE Gathering'
  OBVIOUS
<1> USE DEF Gathering, OwnFiles, Collected, FilesOf, Basic, TypeOK, NoRow,
            db, ingest, request, locals, world, history, Serving
<1>o. \A m \in Msgs : Owner(Raw(m)) = m /\ Owner(Parts(m)) = m
  BY DEF Owner, Raw, Parts
<1>t. \A r \in Requests : op[r] = "message" /\ step[r] \in {"parts", "thread", "row"} =>
         target[r] \in Msgs /\ at[target[r]] \in Committed
  BY DEF Bookkeeping, OneMessage
<1>1. ASSUME NEW m \in Msgs, Arrival(m) PROVE Gathering'
  <2>1. CASE Receive(m)
    BY <2>1, <1>o DEF Receive
  <2>2. CASE ReceiveFails(m)
    BY <2>2, <1>o DEF ReceiveFails
  <2>3. CASE Persist(m)
    BY <2>3, <1>o DEF Persist, Stamp
  <2>4. CASE PersistFails(m)
    BY <2>4, <1>o DEF PersistFails, Stamp
  <2>5. CASE Commit(m)
    (* No request looks at a message before its Ingest is over. *)
    <3>1. \E c : row' = [row EXCEPT ![m] = c]
      BY <2>5 DEF Commit, Open, Join
    <3>2. \A r \in Requests : op[r] = "message" /\ step[r] \in {"parts", "thread", "row"} =>
            target[r] # m
      BY <2>5, <1>t DEF Commit, Committed
    <3>3. \A r \in Requests : op[r] = "message" /\ step[r] \in {"parts", "thread", "row"} =>
            row'[target[r]] = row[target[r]]
      BY <3>1, <3>2, <1>t
    <3> QED
      BY <2>5, <3>3 DEF Commit
  <2>6. CASE CommitFails(m)
    BY <2>6 DEF CommitFails
  <2>7. CASE UndoRaw(m)
    BY <2>7 DEF UndoRaw, TakeBack
  <2>8. CASE UndoParts(m)
    BY <2>8 DEF UndoParts, TakeBack
  <2>9. CASE Acknowledge(m)
    BY <2>9 DEF Acknowledge
  <2> QED
    BY <1>1, <2>1, <2>2, <2>3, <2>4, <2>5, <2>6, <2>7, <2>8, <2>9 DEF Arrival
<1>2. ASSUME NEW r \in Requests, Working(r) PROVE Gathering'
  <2>1. CASE ReadParts(r)
    BY <2>1 DEF ReadParts, GoTo, PartPaths
  <2>2. CASE FindThread(r)
    BY <2>2 DEF FindThread, GoTo, Return
  <2>3. CASE DeleteRow(r)
    BY <2>3, <1>t DEF DeleteRow, GoTo
  <2>4. CASE CountRemaining(r)
    BY <2>4 DEF CountRemaining, GoTo
  <2>5. CASE DropThread(r)
    BY <2>5, <1>t DEF DropThread, GoTo
  <2>6. CASE Answer(r)
    BY <2>6 DEF Answer, Return, GoTo
  <2>7. CASE DropThreads(r)
    BY <2>7, <1>t DEF DropThreads, GoTo
  <2>8. CASE SweepMessages(r)
    BY <2>8, <1>t DEF SweepMessages, GoTo
  <2>9. CASE WipeRaw(r)
    BY <2>9 DEF WipeRaw, Wipe, GoTo
  <2>10. CASE WipeParts(r)
    BY <2>10 DEF WipeParts, Wipe, Return, GoTo
  <2>11. ASSUME NEW m \in Msgs, ReadRaw(r, m) PROVE Gathering'
    BY <2>11 DEF ReadRaw, GoTo, Bookkeeping, KindOfStep
  <2>12. ASSUME NEW f \in Files, Unlink(r, f) PROVE Gathering'
    BY <2>12 DEF Unlink
  <2> QED
    BY <1>2, <2>1, <2>2, <2>3, <2>4, <2>5, <2>6, <2>7, <2>8, <2>9, <2>10, <2>11, <2>12
    DEF Working
<1>3. ASSUME NEW r \in Requests, Calls(r) PROVE Gathering'
  <2>1. ASSUME NEW m \in Msgs, DeleteMessage(r, m) PROVE Gathering'
    BY <2>1 DEF DeleteMessage, Arrives, RawPath, Msgs
  <2>2. ASSUME NEW c \in 1..lastConv, DeleteConversation(r, c) PROVE Gathering'
    BY <2>2 DEF DeleteConversation, Arrives
  <2>3. CASE Clear(r)
    BY <2>3 DEF Clear, Arrives
  <2> QED
    BY <1>3, <2>1, <2>2, <2>3 DEF Calls
<1>4. ASSUME NEW r \in Requests, Breaking(r) PROVE Gathering'
  <2>1. CASE Fail(r)
    BY <2>1 DEF Fail, Return, GoTo
  <2>2. ASSUME NEW gone \in SUBSET disk, WipeFails(r, gone) PROVE Gathering'
    BY <2>2 DEF WipeFails, Return, GoTo
  <2> QED
    BY <1>4, <2>1, <2>2 DEF Breaking
<1>5. CASE CrashAndRestart
  BY <1>5 DEF CrashAndRestart, Running, SqlSteps, DiskSteps
<1>6. CASE UNCHANGED vars
  BY <1>6 DEF vars
<1> QED
  BY <1>1, <1>2, <1>3, <1>4, <1>5, <1>6 DEF Next

(* Who answers for a file. *)
Answered(f) ==
  \/ Owner(f) \in Stored \cup stranded
  \/ at[Owner(f)] \in {"written", "staged", "undoraw"}
  \/ at[Owner(f)] = "undoparts" /\ f = Parts(Owner(f))
  \/ at[Owner(f)] \in Committed /\ \E r \in Requests : Claims(r, f)

(* The property in the terms of Answered. *)
LEMMA FilesHaveOwnerIsAnswered == FilesHaveOwner <=> \A f \in disk : Answered(f)
BY DEF FilesHaveOwner, Answered

(* With no file on disk there is nothing to answer for. *)
LEMMA FilesHaveOwnerInit == Init => FilesHaveOwner
BY DEF Init, FilesHaveOwner

(* A step that takes a row leaves its files to the request that takes it, and *)
(* one that gives up a claim has removed the file or strands it.              *)
LEMMA FilesHaveOwnerNext ==
  Basic /\ Bookkeeping /\ Gathering /\ FilesHaveOwner /\ [Next]_vars => FilesHaveOwner'
<1> SUFFICES ASSUME Basic, Bookkeeping, Gathering, [Next]_vars,
                    \A f \in disk : Answered(f), NEW f \in disk'
             PROVE  Answered(f)'
  BY FilesHaveOwnerIsAnswered DEF FilesHaveOwner, Answered
<1> DEFINE n == Owner(f)
<1> USE DEF Basic, TypeOK, Answered, Stored, NoRow, Claims,
            db, ingest, request, locals, world, history, Serving
<1>o. \A m \in Msgs : Owner(Raw(m)) = m /\ Owner(Parts(m)) = m
  BY DEF Owner, Raw, Parts
<1>f. \A g \in Files : Owner(g) \in Msgs /\ (g = Raw(Owner(g)) \/ g = Parts(Owner(g)))
  BY DEF Files, Owner, Raw, Parts
<1>c. \A m \in Msgs : row[m] # NoRow => at[m] \in Committed
  BY DEF Bookkeeping, RowsCommitted
<1>1. ASSUME NEW m \in Msgs, Arrival(m) PROVE Answered(f)'
  <2>1. CASE Receive(m)
    BY <2>1, <1>o DEF Receive, Committed
  <2>2. CASE ReceiveFails(m)
    BY <2>2, <1>o DEF ReceiveFails, Committed
  <2>3. CASE Persist(m)
    BY <2>3, <1>o DEF Persist, Stamp, FilesOf, Committed
  <2>4. CASE PersistFails(m)
    BY <2>4, <1>o DEF PersistFails, Stamp, Committed
  <2>5. CASE Commit(m)
    <3>1. \E c \in Nat \ {0} : row' = [row EXCEPT ![m] = c]
      BY <2>5, MatchIsOpen DEF Commit, Open, Join
    <3> QED
      BY <2>5, <3>1 DEF Commit
  <2>6. CASE CommitFails(m)
    BY <2>6 DEF CommitFails, Committed
  <2>7. CASE UndoRaw(m)
    BY <2>7, <1>f DEF UndoRaw, TakeBack, Committed
  <2>8. CASE UndoParts(m)
    BY <2>8, <1>f DEF UndoParts, TakeBack, Committed
  <2>9. CASE Acknowledge(m)
    BY <2>9 DEF Acknowledge, Committed
  <2> QED
    BY <1>1, <2>1, <2>2, <2>3, <2>4, <2>5, <2>6, <2>7, <2>8, <2>9 DEF Arrival
<1>2. ASSUME NEW r \in Requests, Working(r) PROVE Answered(f)'
  <2>1. CASE ReadParts(r)
    BY <2>1 DEF ReadParts, GoTo, Bookkeeping, KindOfStep
  <2>2. CASE FindThread(r)
    BY <2>2 DEF FindThread, GoTo, Return, Bookkeeping, KindOfStep
  <2>3. CASE DeleteRow(r)
    <3>1. op[r] = "message" /\ f \in disk /\ f \in FilesOf(n)
      BY <2>3 DEF DeleteRow, Bookkeeping, KindOfStep, Gathering, OwnFiles
    <3>2. CASE n = target[r] /\ row[n] # NoRow
      <4>1. f \in paths[r]
        BY <2>3, <3>1, <3>2 DEF DeleteRow, Gathering, Collected
      <4>2. Claims(r, f)'
        BY <2>3, <3>1, <4>1 DEF DeleteRow, GoTo
      <4> QED
        BY <2>3, <3>2, <4>2, <1>c DEF DeleteRow, TargetKnown
    <3>3. CASE ~(n = target[r] /\ row[n] # NoRow)
      BY <2>3, <3>1, <3>3 DEF DeleteRow, GoTo
    <3> QED
      BY <3>2, <3>3
  <2>4. CASE CountRemaining(r)
    BY <2>4 DEF CountRemaining, GoTo, Bookkeeping, KindOfStep
  <2>5. CASE DropThread(r)
    (* The cascade takes only rows whose files are all listed, or strands. *)
    <3>1. op[r] \in {"message", "thread"} /\ f \in disk /\ f \in FilesOf(n) /\ n \in Msgs
      BY <2>5, <1>f DEF DropThread, Bookkeeping, KindOfStep, Gathering, OwnFiles
    <3>2. CASE row[n] = victim[r] /\ row[n] # NoRow
      <4>1. n \in stranded' \/ f \in paths[r]
        BY <2>5, <3>1, <3>2 DEF DropThread, Thread
      <4>2. f \in paths[r] => Claims(r, f)'
        BY <2>5, <3>1 DEF DropThread, GoTo
      <4> QED
        BY <2>5, <3>1, <3>2, <4>1, <4>2, <1>c DEF DropThread
    <3>3. CASE ~(row[n] = victim[r] /\ row[n] # NoRow)
      BY <2>5, <3>1, <3>3 DEF DropThread, GoTo
    <3> QED
      BY <3>2, <3>3
  <2>6. CASE Answer(r)
    BY <2>6 DEF Answer, Return, GoTo, Bookkeeping, KindOfStep
  <2>7. CASE DropThreads(r)
    <3>1. op[r] = "clear" /\ f \in disk
      BY <2>7 DEF DropThreads, Bookkeeping, KindOfStep
    <3>2. Claims(r, f)'
      BY <2>7, <3>1 DEF DropThreads, GoTo
    <3> QED
      BY <2>7, <3>1, <3>2, <1>c, <1>f DEF DropThreads, GoTo
  <2>8. CASE SweepMessages(r)
    <3>1. op[r] = "clear" /\ f \in disk
      BY <2>8 DEF SweepMessages, Bookkeeping, KindOfStep
    <3>2. Claims(r, f)'
      BY <2>8, <3>1 DEF SweepMessages, GoTo
    <3> QED
      BY <2>8, <3>1, <3>2, <1>c, <1>f DEF SweepMessages, GoTo
  <2>9. CASE WipeRaw(r)
    BY <2>9 DEF WipeRaw, Wipe, GoTo, Files, Bookkeeping, KindOfStep
  <2>10. CASE WipeParts(r)
    BY <2>10 DEF WipeParts, Wipe, Return, GoTo, Files, Bookkeeping, KindOfStep
  <2>11. ASSUME NEW m \in Msgs, ReadRaw(r, m) PROVE Answered(f)'
    BY <2>11 DEF ReadRaw, GoTo, Bookkeeping, KindOfStep
  <2>12. ASSUME NEW g \in Files, Unlink(r, g) PROVE Answered(f)'
    BY <2>12 DEF Unlink
  <2> QED
    BY <1>2, <2>1, <2>2, <2>3, <2>4, <2>5, <2>6, <2>7, <2>8, <2>9, <2>10, <2>11, <2>12
    DEF Working
<1>3. ASSUME NEW r \in Requests, Calls(r) PROVE Answered(f)'
  <2>1. ASSUME NEW m \in Msgs, DeleteMessage(r, m) PROVE Answered(f)'
    BY <2>1 DEF DeleteMessage, Arrives
  <2>2. ASSUME NEW c \in 1..lastConv, DeleteConversation(r, c) PROVE Answered(f)'
    BY <2>2 DEF DeleteConversation, Arrives
  <2>3. CASE Clear(r)
    BY <2>3 DEF Clear, Arrives
  <2> QED
    BY <1>3, <2>1, <2>2, <2>3 DEF Calls
<1>a. ASSUME NEW r \in Requests, Claims(r, f), f \in disk, Answered(f)
      PROVE  n \in Stored \cup stranded \cup Abandoned(r) \/ at[n] \notin Committed
  BY <1>a, <1>f DEF Abandoned, Gathering, OwnFiles
<1>4. ASSUME NEW r \in Requests, Breaking(r) PROVE Answered(f)'
  <2>1. CASE Fail(r)
    <3>1. CASE Claims(r, f)
      BY <2>1, <3>1, <1>a DEF Fail
    <3>2. CASE ~Claims(r, f)
      BY <2>1, <3>2 DEF Fail, Return, GoTo
    <3> QED
      BY <3>1, <3>2
  <2>2. ASSUME NEW gone \in SUBSET disk, WipeFails(r, gone) PROVE Answered(f)'
    <3>1. CASE Claims(r, f)
      BY <2>2, <3>1, <1>a DEF WipeFails
    <3>2. CASE ~Claims(r, f)
      BY <2>2, <3>2 DEF WipeFails, Return, GoTo
    <3> QED
      BY <3>1, <3>2
  <2> QED
    BY <1>4, <2>1, <2>2 DEF Breaking
<1>5. CASE CrashAndRestart
  BY <1>5, <1>f DEF CrashAndRestart, Gathering, OwnFiles
<1>6. CASE UNCHANGED vars
  BY <1>6 DEF vars
<1> QED
  BY <1>1, <1>2, <1>3, <1>4, <1>5, <1>6 DEF Next

(* Whatever fails and whenever the process dies, a file on disk belongs to a  *)
(* stored message, to somebody who is about to deal with it, or is recorded   *)
(* as stranded by one of the named failures.                                 *)
THEOREM FilesHaveOwnerAlways == Spec => []FilesHaveOwner
BY BasicInit, BasicNext, BookkeepingInit, BookkeepingNext, GatheringInit, GatheringNext,
   FilesHaveOwnerInit, FilesHaveOwnerNext, PTL
DEF Spec
=============================================================================
