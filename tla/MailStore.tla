------------------------------- MODULE MailStore -------------------------------
(***************************************************************************)
(* The mail store: the SQLite database and the mail directory, with every  *)
(* operation that adds mail to them or takes mail away running             *)
(* concurrently (internal/mailstore, and mailmime.Ingestor, which is the   *)
(* only writer of messages).                                               *)
(*                                                                         *)
(* One step is one SQL statement, one transaction or one file operation.   *)
(* The store has a single connection (SetMaxOpenConns(1)), so a statement  *)
(* or a transaction runs alone; between two statements of one request any  *)
(* other request may run.  That is where everything difficult happens:     *)
(* nothing but Ingest uses a transaction.                                  *)
(*                                                                         *)
(* A message is its ULID, a number: ULIDs are handed out in arrival order. *)
(* A message owns one raw file and, when it carries parts, one attachment  *)
(* payload; its attachment rows come and go with its message row.          *)
(***************************************************************************)
EXTENDS Naturals, FiniteSets, Sequences, Functions, Threading

CONSTANTS
  MaxMsgs,     \* how many messages arrive at most (bound)
  Mails,       \* what a message may say: [id, inReplyTo, references, subject, parts]
  Requests,    \* the deletion requests that may run at once
  Ops,         \* which of them clients send: "message", "thread", "clear"
  Faults,      \* which operations may fail: "sql", "disk"
  MaxCrashes,  \* how often the process dies at most (bound)
  MaxTime      \* the last second the clock shows (bound)

Msgs == 1..MaxMsgs

ASSUME MailStoreAssumption ==
  /\ MaxMsgs \in Nat /\ MaxCrashes \in Nat /\ MaxTime \in Nat
  /\ Ops \subseteq {"message", "thread", "clear"}
  /\ Faults \subseteq {"sql", "disk"}
  /\ \A x \in Mails : x.parts \in BOOLEAN

VARIABLES
  mail,      \* what each arriving message says (fixed at the start)
  at,        \* how far Ingest has come with each message
  stamp,     \* the time Ingest took for each message, before it stored it
  row,       \* the conversation_id of each row of messages, 0 for no row
  convs,     \* the rows of conversations: id |-> [key, activity]
  lastConv,  \* sqlite_sequence: AUTOINCREMENT never hands an id out twice
  disk,      \* the files under the mail directory
  op,        \* what each request does
  step,      \* its next statement or file operation
  target,    \* the message it is looking at
  victim,    \* the conversation it may delete
  todo,      \* the listed messages whose paths it has not read yet
  paths,     \* the files it will remove
  tally,     \* the count Clear reports
  now,       \* the clock, in whole seconds
  crashes,   \* how often the process died
  swept,     \* history: messages whose files a Clear wiped
  torn,      \* history: conversations left empty with nobody to delete them
  stranded   \* history: messages whose files nothing will remove

db == <<row, convs, lastConv>>
ingest == <<mail, at, stamp>>
request == <<op, step, target, victim, todo, paths, tally>>
world == <<now, crashes>>
history == <<swept, torn, stranded>>
vars == <<db, ingest, request, world, history, disk>>

-----------------------------------------------------------------------------
(* Files and rows *)

Raw(m)   == <<"raw", m>>
Parts(m) == <<"parts", m>>
Files    == {"raw", "parts"} \X Msgs
Owner(f) == f[2]

FilesOf(m) == {Raw(m)} \cup (IF mail[m].parts THEN {Parts(m)} ELSE {})

NoRow == 0
Stored == {m \in Msgs : row[m] # NoRow}
Thread(c) == {m \in Msgs : row[m] = c}
Emptied(c) == c \in DOMAIN convs /\ Thread(c) = {}

Rows  == {[ulid |-> m, id |-> mail[m].id, thread |-> row[m]] : m \in Stored}
Table == {[thread |-> c, key |-> convs[c].key, activity |-> convs[c].activity] :
            c \in DOMAIN convs}

Keys == {Key(x.subject) : x \in Mails} \cup {<<>>}

(* Ingest is over for a message: it has or had a row. *)
Committed == {"stored", "accepted", "unanswered"}

(* The statements of a request, each of which may return an error. *)
SqlSteps == {"raw", "parts", "thread", "row", "count", "drop", "dropall", "sweep"}
DiskSteps == {"unlink", "wiperaw", "wipeparts"}
Running(r) == step[r] \in SqlSteps \cup DiskSteps

-----------------------------------------------------------------------------
(* Every state the store can be in has these types; a conversation's key is   *)
(* always a normalised one (write.go:113, 135).                              *)
TypeOK ==
  /\ mail \in [Msgs -> Mails]
  /\ at \in [Msgs -> {"unsent", "written", "staged", "undoraw", "undoparts",
                      "refused", "lost"} \cup Committed]
  /\ stamp \in [Msgs -> Nat]
  /\ row \in [Msgs -> Nat]
  /\ DOMAIN convs \subseteq Nat \ {0}
  /\ \A c \in DOMAIN convs : convs[c].key \in Keys /\ convs[c].activity \in Nat
  /\ lastConv \in Nat
  /\ disk \subseteq Files
  /\ op \in [Requests -> {"none"} \cup Ops]
  /\ step \in [Requests -> {"idle", "done", "failed"} \cup SqlSteps \cup DiskSteps]
  /\ target \in [Requests -> Nat]
  /\ victim \in [Requests -> Nat]
  /\ todo \in [Requests -> SUBSET Msgs]
  /\ paths \in [Requests -> SUBSET Files]
  /\ tally \in [Requests -> Nat]
  /\ now \in Nat /\ crashes \in Nat
  /\ swept \subseteq Msgs /\ torn \subseteq Nat /\ stranded \subseteq Msgs

Init ==
  /\ mail \in [Msgs -> Mails]
  /\ at = [m \in Msgs |-> "unsent"]
  /\ stamp = [m \in Msgs |-> 0]
  /\ row = [m \in Msgs |-> NoRow]
  /\ convs = <<>>
  /\ lastConv = 0
  /\ disk = {}
  /\ op = [r \in Requests |-> "none"]
  /\ step = [r \in Requests |-> "idle"]
  /\ target = [r \in Requests |-> 0]
  /\ victim = [r \in Requests |-> 0]
  /\ todo = [r \in Requests |-> {}]
  /\ paths = [r \in Requests |-> {}]
  /\ tally = [r \in Requests |-> 0]
  /\ now = 0 /\ crashes = 0
  /\ swept = {} /\ torn = {} /\ stranded = {}

-----------------------------------------------------------------------------
(* Ingest: SMTP capture, the injection endpoint and replies *)

Serving == <<db, request, world>>

(* Writing may fail on a bad disk, or because Clear is rebuilding the        *)
(* directories at that moment.                                              *)
WriteMayFail == "disk" \in Faults \/ \E r \in Requests : step[r] \in DiskSteps \ {"unlink"}

(* The ULID is taken and the raw bytes land on disk. *)
Receive(m) ==
  /\ at[m] = "unsent"
  /\ \A n \in Msgs : n < m => at[n] # "unsent"
  /\ at' = [at EXCEPT ![m] = "written"]
  /\ disk' = disk \cup {Raw(m)}
  /\ UNCHANGED <<mail, stamp, Serving, history>>

(* writeFile fails: the sender is refused at once, and a partly written file *)
(* stays where it is.                                                       *)
ReceiveFails(m) ==
  /\ at[m] = "unsent"
  /\ \A n \in Msgs : n < m => at[n] # "unsent"
  /\ WriteMayFail
  /\ at' = [at EXCEPT ![m] = "refused"]
  /\ \/ UNCHANGED <<disk, stranded>>
     \/ /\ "disk" \in Faults
        /\ disk' = disk \cup {Raw(m)}
        /\ stranded' = stranded \cup {m}
  /\ UNCHANGED <<mail, stamp, Serving, swept, torn>>

(* persist, up to the transaction: the time is taken and the parts written.   *)
(* The clock is read nowhere else, so it moves here.                         *)
Stamp(m) ==
  /\ now' \in now..MaxTime
  /\ stamp' = [stamp EXCEPT ![m] = now']

Persist(m) ==
  /\ at[m] = "written"
  /\ Stamp(m)
  /\ at' = [at EXCEPT ![m] = "staged"]
  /\ disk' = disk \cup (FilesOf(m) \ {Raw(m)})
  /\ UNCHANGED <<mail, db, request, crashes, history>>

PersistFails(m) ==
  /\ at[m] = "written" /\ mail[m].parts /\ WriteMayFail
  /\ Stamp(m)
  /\ at' = [at EXCEPT ![m] = "undoraw"]
  /\ disk' \in {disk, disk \cup {Parts(m)}}
  /\ UNCHANGED <<mail, db, request, crashes, history>>

(* The one transaction: resolve or create the conversation, insert the       *)
(* message and its attachments, touch the conversation.                     *)

(* Faulty variant: the reply marker is not asked for.  (The variants are not  *)
(* part of the specification; each is the slip a property is there to catch.) *)
MatchAnySubject(m) ==
  LET near == ByAncestors(Rows, Ancestors(mail[m].inReplyTo, mail[m].references))
  IN  IF near # {} THEN near ELSE BySubject(Table, Key(mail[m].subject))

Match(m) ==
  Matching(Rows, Table, Ancestors(mail[m].inReplyTo, mail[m].references), mail[m].subject)

Created(m) ==
  [c \in DOMAIN convs \cup {lastConv + 1} |->
     IF c = lastConv + 1
     THEN [key |-> Key(mail[m].subject), activity |-> stamp[m]]
     ELSE convs[c]]

(* Faulty variant: the subject is kept as it came. *)
TouchedUnstripped(table, c, m) ==
  [table EXCEPT ![c] = [key |-> mail[m].subject, activity |-> stamp[m]]]

Touched(table, c, m) ==
  [table EXCEPT ![c] =
     [key      |-> IF @.key = <<>> THEN Key(mail[m].subject) ELSE @.key,
      activity |-> stamp[m]]]

Join(m, c) ==
  /\ convs' = Touched(convs, c, m)
  /\ row' = [row EXCEPT ![m] = c]
  /\ UNCHANGED lastConv

(* Faulty variant: INTEGER PRIMARY KEY without AUTOINCREMENT. *)
OpenReusingIds(m) ==
  LET c == Max(DOMAIN convs \cup {0}) + 1
  IN  /\ Match(m) = {}
      /\ convs' = [d \in DOMAIN convs \cup {c} |->
                     IF d = c THEN [key |-> Key(mail[m].subject), activity |-> stamp[m]]
                              ELSE convs[d]]
      /\ row' = [row EXCEPT ![m] = c]
      /\ lastConv' = Max({lastConv, c})

Open(m) ==
  /\ Match(m) = {}
  /\ convs' = Touched(Created(m), lastConv + 1, m)
  /\ row' = [row EXCEPT ![m] = lastConv + 1]
  /\ lastConv' = lastConv + 1

(* Faulty variant: the transaction does not wait for writeParts. *)
CommitBeforeParts(m) ==
  /\ at[m] \in {"written", "staged"}
  /\ at' = [at EXCEPT ![m] = "stored"]
  /\ Open(m) \/ \E c \in Match(m) : Join(m, c)
  /\ UNCHANGED <<mail, stamp, disk, request, world, history>>

Commit(m) ==
  /\ at[m] = "staged"
  /\ at' = [at EXCEPT ![m] = "stored"]
  /\ Open(m) \/ \E c \in Match(m) : Join(m, c)
  /\ UNCHANGED <<mail, stamp, disk, request, world, history>>

(* Faulty variant: the rows written before the error stay. *)
CommitFailsHalfWay(m) ==
  /\ at[m] = "staged" /\ "sql" \in Faults
  /\ at' = [at EXCEPT ![m] = "undoraw"]
  /\ Open(m) \/ \E c \in Match(m) : Join(m, c)
  /\ UNCHANGED <<mail, stamp, disk, request, world, history>>

(* The transaction rolls back. *)
CommitFails(m) ==
  /\ at[m] = "staged" /\ "sql" \in Faults
  /\ at' = [at EXCEPT ![m] = "undoraw"]
  /\ UNCHANGED <<mail, stamp, disk, Serving, history>>

(* Ingest takes its files back before it reports the error.  The result of  *)
(* the removal is ignored.                                                  *)
TakeBack(files, m) ==
  \/ disk' = disk \ files /\ UNCHANGED stranded
  \/ /\ "disk" \in Faults
     /\ stranded' = stranded \cup {m}
     /\ UNCHANGED disk

(* Faulty variant: the attachments are left behind. *)
UndoRawOnly(m) ==
  /\ at[m] = "undoraw"
  /\ at' = [at EXCEPT ![m] = "refused"]
  /\ TakeBack({Raw(m)}, m)
  /\ UNCHANGED <<mail, stamp, Serving, swept, torn>>

UndoRaw(m) ==
  /\ at[m] = "undoraw"
  /\ at' = [at EXCEPT ![m] = "undoparts"]
  /\ TakeBack({Raw(m)}, m)
  /\ UNCHANGED <<mail, stamp, Serving, swept, torn>>

UndoParts(m) ==
  /\ at[m] = "undoparts"
  /\ at' = [at EXCEPT ![m] = "refused"]
  /\ TakeBack({Parts(m)}, m)
  /\ UNCHANGED <<mail, stamp, Serving, swept, torn>>

(* announce and the positive answer to the sender. *)
Acknowledge(m) ==
  /\ at[m] = "stored"
  /\ at' = [at EXCEPT ![m] = "accepted"]
  /\ UNCHANGED <<mail, stamp, disk, Serving, history>>

Arrival(m) ==
  \/ Receive(m) \/ ReceiveFails(m) \/ Persist(m) \/ PersistFails(m)
  \/ Commit(m) \/ CommitFails(m) \/ UndoRaw(m) \/ UndoParts(m) \/ Acknowledge(m)

-----------------------------------------------------------------------------
(* Deletion requests: what they share *)

Arrives(r, kind, first) ==
  /\ kind \in Ops /\ step[r] = "idle"
  /\ op' = [op EXCEPT ![r] = kind]
  /\ step' = [step EXCEPT ![r] = first]

GoTo(r, next) == step' = [step EXCEPT ![r] = next]

(* The handler returns: the request is over and its locals are gone. *)
locals == <<target, victim, todo, paths, tally>>

Return(r, outcome) ==
  /\ GoTo(r, outcome)
  /\ target' = [target EXCEPT ![r] = 0]
  /\ victim' = [victim EXCEPT ![r] = 0]
  /\ todo'   = [todo EXCEPT ![r] = {}]
  /\ paths'  = [paths EXCEPT ![r] = {}]
  /\ tally'  = [tally EXCEPT ![r] = 0]
  /\ UNCHANGED op

(* messagePaths, its first query: the raw file, if the row is still there.   *)
RawPath(m) == IF row[m] = NoRow THEN {} ELSE {Raw(m)}

(* Faulty variant: only the raw file is listed. *)
PartPathsForgotten(m) == {}

(* messagePaths, its second query: the attachment files. *)
PartPaths(m) == IF row[m] = NoRow THEN {} ELSE FilesOf(m) \ {Raw(m)}

ReadParts(r) ==
  /\ step[r] = "parts"
  /\ paths' = [paths EXCEPT ![r] = @ \cup PartPaths(target[r])]
  /\ GoTo(r, IF op[r] = "message" THEN "thread"
             ELSE IF todo[r] # {} THEN "raw" ELSE "drop")
  /\ UNCHANGED <<db, ingest, world, history, disk, op, target, victim, todo, tally>>

(* DELETE FROM conversations WHERE id = ?; the messages of the conversation, *)
(* all those there at this moment, go by cascade.                           *)
DropThread(r) ==
  /\ step[r] = "drop"
  /\ convs' = Restrict(convs, DOMAIN convs \ {victim[r]})
  /\ row' = [m \in Msgs |-> IF row[m] = victim[r] THEN NoRow ELSE row[m]]
  /\ stranded' = stranded \cup {m \in Thread(victim[r]) : ~(FilesOf(m) \subseteq paths[r])}
  /\ GoTo(r, "unlink")
  /\ UNCHANGED <<lastConv, ingest, world, swept, torn, disk, op, locals>>

(* removeFiles, one path; errors are ignored. *)
Unlink(r, f) ==
  /\ step[r] = "unlink" /\ f \in paths[r]
  /\ paths' = [paths EXCEPT ![r] = @ \ {f}]
  /\ \/ disk' = disk \ {f} /\ UNCHANGED stranded
     \/ /\ "disk" \in Faults
        /\ stranded' = stranded \cup {Owner(f)}
        /\ UNCHANGED disk
  /\ UNCHANGED <<db, ingest, world, swept, torn, op, step, target, victim, todo, tally>>

(* All files gone: the request answers. *)
Answer(r) ==
  /\ step[r] = "unlink" /\ paths[r] = {}
  /\ Return(r, "done")
  /\ UNCHANGED <<db, ingest, world, history, disk>>

(* The files a request will still remove whatever happens to the rows.  A    *)
(* DeleteMessage that finds no row gives up, so it claims nothing before.   *)
Claims(r, f) ==
  \/ op[r] = "message" /\ f \in paths[r] /\ step[r] \in {"row", "count", "drop", "unlink"}
  \/ op[r] = "thread"  /\ f \in paths[r] /\ step[r] \in {"raw", "parts", "drop", "unlink"}
  \/ op[r] = "clear"   /\ step[r] \in {"sweep", "wiperaw"}
  \/ op[r] = "clear"   /\ step[r] = "wipeparts" /\ f[1] = "parts"

(* What it leaves on disk when it stops half way. *)
Abandoned(r) ==
  {m \in Msgs : /\ row[m] = NoRow /\ at[m] \in Committed
                /\ \E f \in FilesOf(m) : Claims(r, f)}

(* A statement fails, or the client hangs up and its context is cancelled.   *)
Fail(r) ==
  /\ "sql" \in Faults /\ step[r] \in SqlSteps
  /\ Return(r, "failed")
  /\ torn' = torn \cup {c \in {victim[r]} : op[r] = "message" /\ step[r] \in {"count", "drop"} /\ Emptied(c)}
  /\ stranded' = stranded \cup Abandoned(r)
  /\ UNCHANGED <<db, ingest, world, swept, disk>>

-----------------------------------------------------------------------------
(* DeleteMessage *)

(* A message without a row is ErrNotFound from the start, and changes nothing. *)
DeleteMessage(r, m) ==
  /\ m \in Stored
  /\ Arrives(r, "message", "parts")
  /\ target' = [target EXCEPT ![r] = m]
  /\ paths' = [paths EXCEPT ![r] = RawPath(m)]
  /\ UNCHANGED <<db, ingest, world, history, disk, victim, todo, tally>>

(* SELECT conversation_id; no row is ErrNotFound. *)
FindThread(r) ==
  /\ step[r] = "thread"
  /\ \/ row[target[r]] = NoRow /\ Return(r, "done")
     \/ /\ row[target[r]] # NoRow
        /\ victim' = [victim EXCEPT ![r] = row[target[r]]]
        /\ GoTo(r, "row")
        /\ UNCHANGED <<op, target, todo, paths, tally>>
  /\ UNCHANGED <<db, ingest, world, history, disk>>

(* Faulty variant: the conversation is never counted. *)
DeleteRowOnly(r) ==
  /\ step[r] = "row"
  /\ row' = [row EXCEPT ![target[r]] = NoRow]
  /\ GoTo(r, "unlink")
  /\ UNCHANGED <<convs, lastConv, ingest, world, history, disk, op, locals>>

DeleteRow(r) ==
  /\ step[r] = "row"
  /\ row' = [row EXCEPT ![target[r]] = NoRow]
  /\ GoTo(r, "count")
  /\ UNCHANGED <<convs, lastConv, ingest, world, history, disk, op, locals>>

CountRemaining(r) ==
  /\ step[r] = "count"
  /\ GoTo(r, IF Thread(victim[r]) = {} THEN "drop" ELSE "unlink")
  /\ UNCHANGED <<db, ingest, world, history, disk, op, locals>>

-----------------------------------------------------------------------------
(* DeleteConversation *)

(* messageIDs; no rows is ErrNotFound, and changes nothing. *)
DeleteConversation(r, c) ==
  /\ Thread(c) # {}
  /\ Arrives(r, "thread", "raw")
  /\ victim' = [victim EXCEPT ![r] = c]
  /\ todo' = [todo EXCEPT ![r] = Thread(c)]
  /\ UNCHANGED <<db, ingest, world, history, disk, target, paths, tally>>

ReadRaw(r, m) ==
  /\ step[r] = "raw" /\ m \in todo[r]
  /\ target' = [target EXCEPT ![r] = m]
  /\ todo' = [todo EXCEPT ![r] = @ \ {m}]
  /\ paths' = [paths EXCEPT ![r] = @ \cup RawPath(m)]
  /\ GoTo(r, "parts")
  /\ UNCHANGED <<db, ingest, world, history, disk, op, victim, tally>>

-----------------------------------------------------------------------------
(* Clear *)

Clear(r) ==
  /\ Arrives(r, "clear", "dropall")
  /\ tally' = [tally EXCEPT ![r] = Cardinality(Stored)]
  /\ UNCHANGED <<db, ingest, world, history, disk, target, victim, todo, paths>>

(* DELETE FROM conversations, cascading to every message. *)
DropThreads(r) ==
  /\ step[r] = "dropall"
  /\ convs' = <<>>
  /\ row' = [m \in Msgs |-> IF row[m] \in DOMAIN convs THEN NoRow ELSE row[m]]
  /\ GoTo(r, "sweep")
  /\ UNCHANGED <<lastConv, ingest, world, history, disk, op, locals>>

(* DELETE FROM messages. *)
SweepMessages(r) ==
  /\ step[r] = "sweep"
  /\ row' = [m \in Msgs |-> NoRow]
  /\ torn' = torn \cup {c \in DOMAIN convs : Thread(c) # {}}
  /\ GoTo(r, "wiperaw")
  /\ UNCHANGED <<convs, lastConv, ingest, world, swept, stranded, disk, op, locals>>

(* RemoveAll and MkdirAll of one of the two directories. *)
Wipe(r, from, kind) ==
  /\ step[r] = from
  /\ disk' = {f \in disk : f[1] # kind}
  /\ swept' = swept \cup {Owner(f) : f \in disk \ disk'}
  /\ UNCHANGED <<db, ingest, world, torn, stranded>>

WipeRaw(r) ==
  /\ Wipe(r, "wiperaw", "raw")
  /\ GoTo(r, "wipeparts")
  /\ UNCHANGED <<op, locals>>

WipeParts(r) ==
  /\ Wipe(r, "wipeparts", "parts")
  /\ Return(r, "done")

(* RemoveAll reports an error after removing what it could. *)
WipeFails(r, gone) ==
  /\ "disk" \in Faults /\ step[r] \in {"wiperaw", "wipeparts"}
  /\ gone \subseteq {f \in disk : f[1] = IF step[r] = "wiperaw" THEN "raw" ELSE "parts"}
  /\ disk' = disk \ gone
  /\ swept' = swept \cup {Owner(f) : f \in gone}
  /\ stranded' = stranded \cup Abandoned(r)
  /\ Return(r, "failed")
  /\ UNCHANGED <<db, ingest, world, torn>>

-----------------------------------------------------------------------------
Working(r) ==
  \/ ReadParts(r) \/ FindThread(r) \/ DeleteRow(r) \/ CountRemaining(r)
  \/ DropThread(r) \/ Answer(r) \/ DropThreads(r) \/ SweepMessages(r)
  \/ WipeRaw(r) \/ WipeParts(r)
  \/ \E m \in Msgs : ReadRaw(r, m)
  \/ \E f \in Files : Unlink(r, f)

Calls(r) ==
  \/ \E m \in Msgs : DeleteMessage(r, m)
  \/ \E c \in 1..lastConv : DeleteConversation(r, c)
  \/ Clear(r)

Breaking(r) == Fail(r) \/ \E gone \in SUBSET disk : WipeFails(r, gone)

(* The process dies and the supervisor starts it again: Open finds the       *)
(* database and the directories as they are and looks for no leftovers.     *)
CrashAndRestart ==
  /\ crashes < MaxCrashes
  /\ crashes' = crashes + 1
  /\ at' = [m \in Msgs |->
              CASE at[m] \in {"written", "staged", "undoraw", "undoparts"} -> "lost"
                [] at[m] = "stored" -> "unanswered"
                [] OTHER -> at[m]]
  /\ step' = [r \in Requests |-> IF Running(r) THEN "failed" ELSE step[r]]
  /\ target' = [r \in Requests |-> 0] /\ victim' = [r \in Requests |-> 0]
  /\ todo' = [r \in Requests |-> {}] /\ paths' = [r \in Requests |-> {}]
  /\ tally' = [r \in Requests |-> 0]
  /\ torn' = torn \cup {c \in DOMAIN convs : Emptied(c)}
  /\ stranded' = stranded \cup {m \in Msgs : row[m] = NoRow /\ FilesOf(m) \cap disk # {}}
  /\ UNCHANGED <<db, mail, stamp, disk, op, now, swept>>

Next ==
  \/ \E m \in Msgs : Arrival(m)
  \/ \E r \in Requests : Working(r) \/ Calls(r) \/ Breaking(r)
  \/ CrashAndRestart

Spec == Init /\ [][Next]_vars

(* Every goroutine that has work to do gets to do it: a message that has     *)
(* begun to arrive and a request that has been taken run to their end.      *)
Fairness ==
  /\ \A m \in Msgs : WF_vars(at[m] # "unsent" /\ Arrival(m))
  /\ \A r \in Requests : WF_vars(Working(r))

FairSpec == Spec /\ Fairness

-----------------------------------------------------------------------------
(* Properties *)

(* Every message row names a conversation that exists (the foreign key the   *)
(* cascades of schema.go:28-50 are there for), and the two tables agree on   *)
(* which ids were ever handed out.                                          *)
ThreadOfRow ==
  /\ \A m \in Stored : row[m] \in DOMAIN convs
  /\ \A c \in DOMAIN convs : c <= lastConv

(* A stored message can be served: its raw file and its attachments are on   *)
(* disk (GetMessageRaw, getAttachment and a retried delivery read them).     *)
(* No deletion, no undo of a failed Ingest and no crash takes the files of a *)
(* row that is still there; only a Clear running at the same time does.      *)
StoredHasFiles ==
  \A m \in Stored \ swept : FilesOf(m) \subseteq disk

(* A conversation without messages does not stay: some DeleteMessage is      *)
(* about to count and drop it.  The exceptions are a DeleteMessage that was  *)
(* cut short and a Clear that a new conversation slipped into.              *)
NoEmptyThread ==
  \A c \in DOMAIN convs :
    \/ Thread(c) # {}
    \/ c \in torn
    \/ \E r \in Requests : op[r] = "message" /\ step[r] \in {"count", "drop"} /\ victim[r] = c

(* A file without a row is not forgotten: Ingest is still going to store or  *)
(* remove it, or a deletion is going to remove it.  It is stranded only by a *)
(* failed or interrupted operation, and by a conversation deleted under a    *)
(* message that joined it after its files were listed.                      *)
FilesHaveOwner ==
  \A f \in disk :
    LET m == Owner(f)
    IN  \/ m \in Stored \cup stranded
        \/ at[m] \in {"written", "staged", "undoraw"}
        \/ at[m] = "undoparts" /\ f = Parts(m)
        \/ at[m] \in Committed /\ \E r \in Requests : Claims(r, f)

(* Two messages that answer nothing never share a conversation, however      *)
(* alike their subjects: "every 'Your receipt' from an application would     *)
(* collapse into a single thread" otherwise (write.go:47-51).               *)
Opener(m) ==
  /\ Ancestors(mail[m].inReplyTo, mail[m].references) = <<>>
  /\ ~HasReplyPrefix(mail[m].subject)

ReceiptsStayApart ==
  \A m, n \in Stored : Opener(m) /\ Opener(n) /\ m # n => row[m] # row[n]

(* When all work is done the directory holds the files of the stored         *)
(* messages and nothing else, but for what was stranded.                    *)
EventuallyClean ==
  <>[](\A f \in disk : Owner(f) \in Stored \cup stranded)

(* A sender that is refused may try again: nothing of the refused message    *)
(* was kept ("the whole thing commits together", write.go:15-17), so the     *)
(* mailbox never shows the same mail twice.                                 *)
RefusedNotKept ==
  \A m \in Msgs : at[m] \in {"refused", "lost"} => m \notin Stored

(* "A conversation left with no messages goes too" (write.go:286-289): the   *)
(* conversation a DeleteMessage drops has no messages, so only the message  *)
(* that was asked for leaves the mailbox.                                   *)
OnlyEmptyThreadsGo ==
  [][\A r \in Requests :
       op[r] = "message" /\ step[r] = "drop" /\ step'[r] = "unlink"
         => Thread(victim[r]) = {}]_vars

(* "The mail directories are rebuilt rather than walked: ... nothing else     *)
(* writes there" (write.go:375-376): so no stored message loses its files.   *)
NothingElseWritesThere ==
  \A m \in Stored : FilesOf(m) \subseteq disk

(* The store keeps the promises of a mailbox: the refinement mapping reads   *)
(* the rows only.                                                           *)
Box == INSTANCE Mailbox WITH
  Messages <- Msgs,
  thread   <- row,
  gone     <- {m \in Msgs : at[m] \in Committed /\ row[m] = NoRow},
  open     <- DOMAIN convs,
  closed   <- (1..lastConv) \ DOMAIN convs

(* The concurrent operations of the store, cut into statements, look from the *)
(* rows like the atomic ones of a mailbox (write.go:44-130, 286-387).         *)
KeepsMailbox == Box!Spec

=============================================================================
