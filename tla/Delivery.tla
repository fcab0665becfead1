------------------------------- MODULE Delivery -------------------------------
(***************************************************************************)
(* Reply delivery: POST /replies and POST /messages/{id}/retry store a     *)
(* reply, resolve its route, post it to the application under test and     *)
(* record the attempt (httpapi/reply.go, webhook/webhook.go).              *)
(*                                                                         *)
(* Handlers run concurrently; a step is one statement, one file read or    *)
(* one end of the HTTP exchange, and anything may happen between two steps:*)
(* another request on the same message, a save of the settings, a deletion,*)
(* the browser hanging up, the end of the process.                         *)
(*                                                                         *)
(* The application is external.  It may answer, answer too late, break the *)
(* connection before or after it processed the mail, or not listen.        *)
(***************************************************************************)
EXTENDS Naturals, FiniteSets, FiniteSetsExt

CONSTANTS
  Handlers,    \* the HTTP requests; each is served once
  Msgs,        \* the replies they are about
  Routes,      \* the targets a configuration may name for the recipient
  Accepts,     \* status codes of an application that took the mail
  Refuses,     \* status codes of one that did not
  Faults,      \* "sql": a statement may fail; "format": Build may refuse the route's
  MaxCrashes,  \* how often the process dies at most (bound)
  MaxChanges   \* how often the settings are saved at most (bound)

NoRoute == "no route"
NoMsg == "no message"
NoStatus == 0   \* delivery.StatusCode of an exchange that brought no answer

ASSUME DeliveryAssumption ==
  /\ IsFiniteSet(Handlers)
  /\ NoRoute \notin Routes /\ NoMsg \notin Msgs
  /\ Accepts \subseteq 200..299
  /\ Refuses \subseteq (100..599) \ (200..299)
  /\ Faults \subseteq {"sql", "format"}
  /\ MaxCrashes \in Nat /\ MaxChanges \in Nat

VARIABLES
  route,     \* where RouteFor sends the recipient under the running settings
  stored,    \* the outbound messages that have a row
  deleted,   \* the ones somebody deleted
  log,       \* the rows of deliveries
  lastId,    \* AUTOINCREMENT of deliveries
  op,        \* which handler serves a request: "reply", "retry"
  about,     \* its message
  at,        \* its next step
  my,        \* what it holds: the route it resolved, the attempt number it read
             \* (knew: the newest delivery id by then) and what post returned
  sent,      \* the handlers whose request reached the application
  call,      \* the status it gave each of them, or will have given
  trusted,   \* history: retries asked for by somebody who read the log first
  crashes, changes

request == <<op, about, at, my>>
table == <<log, lastId>>
world == <<route, crashes, changes>>
mail == <<stored, deleted>>
app == <<sent, call>>
vars == <<request, table, world, trusted, mail, app>>

Fresh == [url |-> NoRoute, number |-> 0, knew |-> 0,
          status |-> NoStatus, error |-> "none"]
RowsOf(m) == {d \in log : d.about = m}

(* Faulty variant: any answer below 300 that is not 200 is a failure. *)
OnlyPlain200(d) == d.error = "none" /\ d.status = 200

(* Delivery.OK: whether the application accepted this attempt. *)
OK(d) == d.error = "none" /\ d.status >= 200 /\ d.status < 300

Errors == {"none", "timeout", "refused", "status", "broken"}

Busy == {"ingest", "find", "read", "resolve", "number", "post", "wait", "record"}
Over == {"unrouted", "routed", "orphaned", "unrecorded", "failed", "killed"}
Serving(h) == at[h] \in Busy

Newest(m) == {d \in RowsOf(m) : \A e \in RowsOf(m) : e.id <= d.id}

TypeOK ==
  /\ route \in Routes \cup {NoRoute}
  /\ stored \subseteq Msgs /\ deleted \subseteq Msgs
  /\ log \subseteq [id : Nat \ {0}, by : Handlers, about : Msgs, url : Routes, attempt : Nat,
                    status : {NoStatus} \cup Accepts \cup Refuses, error : Errors, knew : Nat]
  /\ lastId \in Nat
  /\ op \in [Handlers -> {"none", "reply", "retry"}]
  /\ about \in [Handlers -> Msgs \cup {NoMsg}]
  /\ at \in [Handlers -> {"idle"} \cup Busy \cup Over]
  /\ my \in [Handlers -> [url : Routes \cup {NoRoute}, number : Nat, knew : Nat,
                          status : {NoStatus} \cup Accepts \cup Refuses, error : Errors]]
  /\ sent \subseteq Handlers
  /\ call \in [Handlers -> {NoStatus} \cup Accepts \cup Refuses]
  /\ trusted \subseteq Handlers
  /\ crashes \in Nat /\ changes \in Nat

Init ==
  /\ route \in Routes \cup {NoRoute}
  /\ stored = {} /\ deleted = {} /\ log = {} /\ lastId = 0
  /\ op = [h \in Handlers |-> "none"]
  /\ about = [h \in Handlers |-> NoMsg]
  /\ at = [h \in Handlers |-> "idle"]
  /\ my = [h \in Handlers |-> Fresh]
  /\ sent = {}
  /\ call = [h \in Handlers |-> NoStatus]
  /\ trusted = {}
  /\ crashes = 0 /\ changes = 0

-----------------------------------------------------------------------------
(* The handlers up to deliver.  They run under r.Context(), which ends when   *)
(* the browser navigates away: each statement may fail for that reason alone. *)

Goto(h, s) == at' = [at EXCEPT ![h] = s]
Stay == <<op, about, world, trusted, mail, app>>

(* The handler answers and its locals are gone. *)
Finish(h, s) == Goto(h, s) /\ my' = [my EXCEPT ![h] = Fresh]

Begin(h, o, m, first) ==
  /\ at[h] = "idle"
  /\ op' = [op EXCEPT ![h] = o]
  /\ about' = [about EXCEPT ![h] = m]
  /\ Goto(h, first)
  /\ UNCHANGED <<my, table, world, mail, app>>

(* createReply: the request has passed every check and is about to be stored. *)
Reply(h, m) ==
  /\ \A g \in Handlers : about[g] # m
  /\ Begin(h, "reply", m, "ingest")
  /\ UNCHANGED trusted

(* retryDelivery, for any message that was ever stored.  Somebody who reads   *)
(* the log first sees nothing under way and no success on top of it.         *)
Retry(h, m) ==
  /\ m \in stored \cup deleted
  /\ Begin(h, "retry", m, "find")
  /\ trusted' = IF \/ \E g \in Handlers \ {h} : about[g] = m /\ Serving(g)
                   \/ \E d \in Newest(m) : OK(d)
                THEN trusted ELSE trusted \cup {h}

Ingest(h) ==
  /\ at[h] = "ingest"
  /\ \/ Goto(h, "resolve") /\ stored' = stored \cup {about[h]} /\ UNCHANGED my
     \/ Finish(h, "failed") /\ UNCHANGED stored
  /\ UNCHANGED <<op, about, table, world, trusted, deleted, app>>

(* GetMessage; then the raw file, which outlives its row for a moment. *)
Find(h) ==
  /\ at[h] = "find"
  /\ \/ about[h] \in stored /\ Goto(h, "read") /\ UNCHANGED my
     \/ Finish(h, "failed")
  /\ UNCHANGED <<table, Stay>>

ReadRaw(h) ==
  /\ at[h] = "read"
  /\ \/ Goto(h, "resolve") /\ UNCHANGED my
     \/ about[h] \notin stored /\ Finish(h, "failed")
  /\ UNCHANGED <<table, Stay>>

-----------------------------------------------------------------------------
(* deliver and Sender.Send, under a context that outlives the request *)

(* Faulty variant: whether a route matched is not asked for. *)
ResolveUnchecked(h) ==
  /\ at[h] = "resolve"
  /\ Goto(h, "number") /\ my' = [my EXCEPT ![h].url = route]
  /\ UNCHANGED <<table, Stay>>

(* RouteFor, asked of the settings this request reads once.  A reply without  *)
(* a route was stored and is not forwarded.                                  *)
Resolve(h) ==
  /\ at[h] = "resolve"
  /\ IF route = NoRoute
     THEN Finish(h, "unrouted")
     ELSE Goto(h, "number") /\ my' = [my EXCEPT ![h].url = route]
  /\ UNCHANGED <<table, Stay>>

(* Faulty variant: the attempts are counted instead of read. *)
CountedAttempt(m) == Cardinality(RowsOf(m)) + 1

(* Faulty variant: failed attempts are not counted. *)
AttemptAfterSuccess(m) == Max({0} \cup {d.attempt : d \in {e \in RowsOf(m) : OK(e)}}) + 1

NextAttempt(m) == Max({0} \cup {d.attempt : d \in RowsOf(m)}) + 1

ReadNumber(h) ==
  /\ at[h] = "number"
  /\ \/ /\ Goto(h, "post")
        /\ my' = [my EXCEPT ![h].number = NextAttempt(about[h]), ![h].knew = lastId]
     \/ "sql" \in Faults /\ Finish(h, "failed")
  /\ UNCHANGED <<table, Stay>>

(* Build refuses a format it does not know, before anything is sent. *)
Unbuildable(h) ==
  /\ at[h] = "post" /\ "format" \in Faults
  /\ Finish(h, "failed")
  /\ UNCHANGED <<table, Stay>>

(* The bytes leave for the application. *)
Post(h) ==
  /\ at[h] = "post"
  /\ Goto(h, "wait")
  /\ sent' = sent \cup {h}
  /\ UNCHANGED <<op, about, my, table, world, trusted, mail, call>>

Conclude(h, status, error) ==
  /\ Goto(h, "record")
  /\ my' = [my EXCEPT ![h].status = status, ![h].error = error]
  /\ UNCHANGED <<table, Stay>>

(* Nothing is listening. *)
Refused(h) == at[h] = "post" /\ Conclude(h, NoStatus, "refused")

(* The answer's status arrives in time; what its body does is not looked at.  *)
Answered(h) ==
  /\ at[h] = "wait" /\ call[h] # NoStatus
  /\ Conclude(h, call[h], IF call[h] \in Accepts THEN "none" ELSE "status")

(* Faulty variant: there is no deadline. *)
WaitsForever(h) == at[h] = "wait" /\ call[h] # NoStatus /\ Conclude(h, call[h], "timeout")

(* route.Timeout passes, whatever the application did in the meantime. *)
TimesOut(h) == at[h] = "wait" /\ Conclude(h, NoStatus, "timeout")

(* The connection breaks, before or after the application took the mail. *)
Breaks(h) == at[h] = "wait" /\ Conclude(h, NoStatus, "broken")

(* Faulty variant: the exchange runs under r.Context(). *)
CancelledExchange(h) ==
  \/ Refused(h) \/ Answered(h) \/ TimesOut(h) \/ Breaks(h)
  \/ at[h] = "wait" /\ Conclude(h, NoStatus, "refused")

Exchange(h) == Refused(h) \/ Answered(h) \/ TimesOut(h) \/ Breaks(h)

Row(h) ==
  [id |-> lastId + 1, by |-> h, about |-> about[h], url |-> my[h].url,
   attempt |-> my[h].number, knew |-> my[h].knew,
   status |-> my[h].status, error |-> my[h].error]

Insert(h) ==
  /\ about[h] \in stored
  /\ Finish(h, "routed")
  /\ log' = log \cup {Row(h)} /\ lastId' = lastId + 1

(* Faulty variant: the row is written under r.Context(). *)
RecordCancelled(h) ==
  /\ at[h] = "record"
  /\ \/ Insert(h)
     \/ Finish(h, "failed") /\ UNCHANGED table
  /\ UNCHANGED Stay

(* RecordDelivery: the foreign key refuses a row without a message.  After it *)
(* the outcome is announced (see module LiveView) and the request answered.  *)
Record(h) ==
  /\ at[h] = "record"
  /\ \/ Insert(h)
     \/ about[h] \notin stored /\ Finish(h, "orphaned") /\ UNCHANGED table
     \/ "sql" \in Faults /\ Finish(h, "unrecorded") /\ UNCHANGED table
  /\ UNCHANGED Stay

-----------------------------------------------------------------------------
(* The world around them *)

(* The application finishes with a request it received, in time or not, and   *)
(* whether or not anybody waits for it any longer.                          *)
AppAnswers(h) ==
  /\ h \in sent /\ call[h] = NoStatus
  /\ \E s \in Accepts \cup Refuses : call' = [call EXCEPT ![h] = s]
  /\ UNCHANGED <<request, table, world, trusted, mail, sent>>

(* DeleteMessage: the cascade takes the attempts with the message. *)
Delete(m) ==
  /\ m \in stored
  /\ stored' = stored \ {m}
  /\ deleted' = deleted \cup {m}
  /\ log' = log \ RowsOf(m)
  /\ UNCHANGED <<request, lastId, world, trusted, app>>

(* saveConfig stores another configuration; see module Settings. *)
ChangeRoute(u) ==
  /\ u # route /\ changes < MaxChanges
  /\ route' = u
  /\ changes' = changes + 1
  /\ UNCHANGED <<request, table, crashes, trusted, mail, app>>

(* The process ends with requests under way and starts again. *)
Crash ==
  /\ crashes < MaxCrashes
  /\ \E h \in Handlers : Serving(h)
  /\ crashes' = crashes + 1
  /\ at' = [h \in Handlers |-> IF Serving(h) THEN "killed" ELSE at[h]]
  /\ my' = [h \in Handlers |-> Fresh]
  /\ UNCHANGED <<op, about, table, route, changes, trusted, mail, app>>

Handle(h) ==
  \/ Ingest(h) \/ Find(h) \/ ReadRaw(h) \/ Resolve(h) \/ ReadNumber(h)
  \/ Unbuildable(h) \/ Post(h) \/ Exchange(h) \/ Record(h)

Next ==
  \/ \E h \in Handlers, m \in Msgs : Reply(h, m) \/ Retry(h, m)
  \/ \E h \in Handlers : Handle(h) \/ AppAnswers(h)
  \/ \E m \in Msgs : Delete(m)
  \/ \E u \in Routes \cup {NoRoute} : ChangeRoute(u)
  \/ Crash

Spec == Init /\ [][Next]_vars

(* What a handler does without waiting for the application's answer. *)
OwnStep(h) ==
  \/ Ingest(h) \/ Find(h) \/ ReadRaw(h) \/ Resolve(h) \/ ReadNumber(h)
  \/ Post(h) \/ TimesOut(h) \/ Record(h)

-----------------------------------------------------------------------------
(* Properties *)

Posted(h) == h \in sent
Took(h) == call[h] \in Accepts
Logged(h) == {d \in log : d.by = h}

(* The log is to be believed (reply.go:233-237, webhook.go:175): a success is  *)
(* a mail the application took, and an attempt it took is logged as a failure *)
(* only when no answer came back.                                           *)
LogTellsTruth ==
  \A d \in log :
    /\ OK(d) => Took(d.by)
    /\ Took(d.by) /\ ~OK(d) => d.error \in {"timeout", "broken"}

(* Every attempt is a row (store.go:119), and the composer's result agrees    *)
(* with what happened (reply.go:174-178): "routed" has its row until somebody *)
(* deletes the message, any other result says nothing was sent, but for the  *)
(* two in which the row itself could not be written.                        *)
EveryAttemptIsARow ==
  \A h \in Handlers :
    /\ at[h] = "routed" => Logged(h) # {} \/ about[h] \in deleted
    /\ at[h] = "orphaned" => about[h] \in deleted
    /\ at[h] \in {"unrouted", "failed"} => ~Posted(h)

(* Attempts are numbered 1, 2, 3...: a number may repeat when requests        *)
(* overlap, but none is left out.                                           *)
NumbersWithoutGaps ==
  \A m \in Msgs :
    LET used == {d.attempt : d \in RowsOf(m)}
    IN  used = 1..Max({0} \cup used)

(* Two attempts share a number only when the second had read the log before   *)
(* the first was in it (webhook.go:84, 107).                                 *)
RepeatsOverlap ==
  \A d, e \in log :
    d.about = e.about /\ d.attempt = e.attempt /\ d.id < e.id => e.knew < d.id

(* When every retry was asked for by somebody who saw nothing under way and   *)
(* no success on top of the log, the application takes a reply twice only if *)
(* an answer was lost: to the deadline, a broken connection, a crash or the  *)
(* row that could not be written.                                           *)
LostAnswer(h) ==
  \/ Logged(h) = {}
  \/ \E d \in Logged(h) : d.error \in {"timeout", "broken"}

TwiceOnlyIfAnswerLost ==
  \A m \in Msgs :
    LET asked == {h \in Handlers : about[h] = m /\ op[h] = "retry"}
        took  == {h \in Handlers : about[h] = m /\ Took(h)}
    IN  asked \subseteq trusted /\ Cardinality(took) > 1 => \E h \in took : LostAnswer(h)

(* No request depends on the application: one that is under way can always go *)
(* on by itself, because its exchange has a deadline (webhook.go:179).       *)
NeverStuck == \A h \in Handlers : Serving(h) => ENABLED OwnStep(h)
=============================================================================
