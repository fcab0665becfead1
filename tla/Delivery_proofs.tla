---------------------------- MODULE Delivery_proofs ----------------------------
(***************************************************************************)
(* Theorems about reply delivery, for any number of requests, messages,    *)
(* routes and crashes, and any application.                                *)
(***************************************************************************)
EXTENDS Delivery, FiniteSetTheorems, TLAPS

-----------------------------------------------------------------------------
(* The inductive invariant *)

(* Where a request stands says what became of its message and of its bytes:   *)
(* an idle one is about nothing, one about to store its reply is the only one *)
(* about it, any other is about a message that was stored, and nothing is     *)
(* posted before "post" is over.                                             *)
Phases ==
  /\ \A m \in stored \cup deleted : \E g \in Handlers : about[g] = m
  /\ \A h \in Handlers :
       /\ at[h] = "idle" => about[h] = NoMsg /\ h \notin trusted
       /\ at[h] # "idle" => about[h] \in Msgs
       /\ at[h] = "ingest" => /\ about[h] \notin stored \cup deleted
                              /\ \A g \in Handlers \ {h} : about[g] # about[h]
       /\ at[h] \notin {"idle", "ingest", "failed", "killed"} => about[h] \in stored \cup deleted
       /\ at[h] \in {"idle", "ingest", "find", "read", "resolve", "number", "post", "unrouted", "failed"}
            => h \notin sent
       /\ at[h] = "orphaned" => about[h] \in deleted
       /\ at[h] \in {"number", "post", "wait", "record"} => my[h].url \in Routes
       /\ h \notin sent => call[h] = NoStatus

(* The row of an attempt is its handler's own, of a message that is stored.  *)
RowsKnown ==
  /\ \A d \in log :
       /\ at[d.by] = "routed" /\ d.about = about[d.by] /\ d.about \in stored
       /\ d.id <= lastId
  /\ \A d, e \in log : d.id = e.id => d = e
  /\ \A h \in Handlers : at[h] = "routed" => Logged(h) # {} \/ about[h] \in deleted

(* What an outcome says of the application. *)
Tells(h, status, error) ==
  /\ error = "none" => status \in Accepts /\ call[h] = status
  /\ error = "status" => status \in Refuses /\ call[h] = status
  /\ error = "refused" => h \notin sent

OutcomesTrue ==
  /\ \A h \in Handlers : at[h] = "record" => Tells(h, my[h].status, my[h].error)
  /\ \A d \in log : Tells(d.by, d.status, d.error)

(* The numbers used for a message are 1 to some k. *)
Used(m) == {d.attempt : d \in RowsOf(m)}
Gapless == \A m \in Msgs : \E k \in Nat : Used(m) = 1..k

(* A number that was read follows every attempt that was in the log then. *)
NumberRead ==
  \A h \in Handlers : at[h] \in {"post", "wait", "record"} =>
    /\ my[h].number # 0 /\ my[h].knew <= lastId
    /\ about[h] \in stored => 1..(my[h].number - 1) \subseteq Used(about[h])
    /\ \A d \in RowsOf(about[h]) : d.id <= my[h].knew => d.attempt < my[h].number

Basic == TypeOK /\ Phases /\ RowsKnown
Numbered == Gapless /\ NumberRead /\ RepeatsOverlap

(* The requests about a message whose retries were all asked for by somebody *)
(* who read the log come one after another, and none after a success.        *)
Careful(m) == {h \in Handlers : about[h] = m /\ op[h] = "retry"} \subseteq trusted

OneAfterAnother ==
  \A m \in Msgs : Careful(m) =>
    /\ \A g, h \in Handlers :
         about[g] = m /\ about[h] = m /\ Serving(g) /\ Serving(h) => g = h
    /\ \A d \in RowsOf(m) : OK(d) =>
         /\ d \in Newest(m)
         /\ \A h \in Handlers : about[h] = m => ~Serving(h)

IInv == Basic /\ OutcomesTrue /\ Numbered /\ OneAfterAnother

-----------------------------------------------------------------------------
(* The types, the phases and the rows *)

(* They hold at first. *)
LEMMA BasicInit == Init => Basic
BY DeliveryAssumption DEF Init, Basic, TypeOK, Phases, RowsKnown, Fresh, Busy, Over, Logged, Errors, NoStatus

(* The largest of 0 to k is k. *)
LEMMA LargestOfRange ==
  ASSUME NEW k \in Nat, NEW S, S = 0..k
  PROVE  Max(S) = k
<1>1. k \in S /\ \A y \in S : k >= y
  OBVIOUS
<1>2. Max(S) \in S /\ \A y \in S : Max(S) >= y
  BY <1>1, Zenon DEF Max
<1>3. Max(S) \in Int /\ Max(S) >= k /\ k >= Max(S)
  BY <1>1, <1>2
<1>4. \A x \in Int : x >= k /\ k >= x => x = k
  OBVIOUS
<1> QED
  BY <1>3, <1>4, Zenon

(* The next number of a message whose numbers are 1 to k is k + 1. *)
LEMMA NextIsOneMore ==
  ASSUME NEW m \in Msgs, NEW k \in Nat, Used(m) = 1..k
  PROVE  NextAttempt(m) = k + 1
<1>1. {0} \cup Used(m) = 0..k
  OBVIOUS
<1>2. Max({0} \cup Used(m)) = k
  BY <1>1, LargestOfRange
<1> QED
  BY <1>2 DEF NextAttempt, Used

(* What a request holds. *)
Locals == [url : Routes \cup {NoRoute}, number : Nat, knew : Nat,
           status : {NoStatus} \cup Accepts \cup Refuses, error : Errors]

(* What a request learns leaves its locals what they are. *)
LEMMA LocalsKept ==
  ASSUME NEW l \in Locals
  PROVE  /\ \A u \in Routes : [l EXCEPT !.url = u] \in Locals
         /\ \A n, k \in Nat : [l EXCEPT !.number = n, !.knew = k] \in Locals
         /\ \A s \in {NoStatus} \cup Accepts \cup Refuses, e \in Errors :
              [l EXCEPT !.status = s, !.error = e] \in Locals
BY DEF Locals

(* Every step keeps the types: the number a request reads is one more than a    *)
(* number, because the numbers of a message are 1 to some k.                 *)
LEMMA TypeNext == TypeOK /\ Phases /\ Gapless /\ [Next]_vars => TypeOK'
<1> SUFFICES ASSUME TypeOK, Phases, Gapless, [Next]_vars PROVE TypeOK'
  OBVIOUS
<1> USE DEF TypeOK, Busy, Over, Errors, NoStatus, request, table, world, mail, app
<1>f. Fresh \in Locals
  BY DEF Fresh, Locals
<1>t. my \in [Handlers -> Locals]
  BY DEF Locals
<1>1. ASSUME NEW h \in Handlers, NEW m \in Msgs, Reply(h, m) PROVE TypeOK'
  BY <1>1 DEF Reply, Begin, Goto
<1>2. ASSUME NEW h \in Handlers, NEW m \in Msgs, Retry(h, m) PROVE TypeOK'
  BY <1>2 DEF Retry, Begin, Goto
<1>3. ASSUME NEW h \in Handlers, Ingest(h) PROVE TypeOK'
  <2>1. my' \in [Handlers -> Locals]
    BY <1>3, <1>f, <1>t DEF Ingest, Finish, Stay
  <2>2. about[h] \in Msgs
    BY <1>3 DEF Ingest, Phases
  <2> QED
    BY <1>3, <2>1, <2>2 DEF Ingest, Finish, Goto, Stay, Locals
<1>4. ASSUME NEW h \in Handlers, Find(h) \/ ReadRaw(h) PROVE TypeOK'
  <2>1. my' \in [Handlers -> Locals]
    BY <1>4, <1>f, <1>t DEF Find, ReadRaw, Finish, Stay
  <2> QED
    BY <1>4, <2>1 DEF Find, ReadRaw, Finish, Goto, Stay, Locals
<1>5. ASSUME NEW h \in Handlers, Resolve(h) \/ Unbuildable(h) PROVE TypeOK'
  <2>1. my' \in [Handlers -> Locals]
    <3>1. CASE Finish(h, "unrouted") \/ Finish(h, "failed")
      BY <3>1, <1>f, <1>t DEF Finish
    <3>2. CASE route # NoRoute /\ my' = [my EXCEPT ![h].url = route]
      <4>1. [my[h] EXCEPT !.url = route] \in Locals
        BY <3>2, <1>t, LocalsKept
      <4>2. my' = [my EXCEPT ![h] = [my[h] EXCEPT !.url = route]]
        BY <3>2, <1>t
      <4> QED
        BY <4>1, <4>2, <1>t
    <3> QED
      BY <1>5, <3>1, <3>2 DEF Resolve, Unbuildable
  <2> QED
    BY <1>5, <2>1 DEF Resolve, Unbuildable, Finish, Goto, Stay, Locals
<1>6. ASSUME NEW h \in Handlers, ReadNumber(h) PROVE TypeOK'
  <2>1. NextAttempt(about[h]) \in Nat
    <3>1. about[h] \in Msgs
      BY <1>6 DEF ReadNumber, Phases
    <3>2. PICK k \in Nat : Used(about[h]) = 1..k
      BY <3>1 DEF Gapless
    <3> QED
      BY <3>1, <3>2, NextIsOneMore
  <2>2. my' \in [Handlers -> Locals]
    <3>1. CASE Finish(h, "failed")
      BY <3>1, <1>f, <1>t DEF Finish
    <3>2. CASE my' = [my EXCEPT ![h].number = NextAttempt(about[h]), ![h].knew = lastId]
      <4>1. [my[h] EXCEPT !.number = NextAttempt(about[h]), !.knew = lastId] \in Locals
        BY <2>1, <1>t, LocalsKept
      <4>2. my' = [my EXCEPT ![h] = [my[h] EXCEPT !.number = NextAttempt(about[h]), !.knew = lastId]]
        BY <3>2, <1>t
      <4> QED
        BY <4>1, <4>2, <1>t
    <3> QED
      BY <1>6, <3>1, <3>2 DEF ReadNumber
  <2> QED
    BY <1>6, <2>2 DEF ReadNumber, Finish, Goto, Stay, Locals
<1>7. ASSUME NEW h \in Handlers, Post(h) PROVE TypeOK'
  BY <1>7 DEF Post, Goto
<1>8. ASSUME NEW h \in Handlers, Exchange(h) PROVE TypeOK'
  <2>1. PICK s \in {NoStatus} \cup Accepts \cup Refuses, e \in Errors : Conclude(h, s, e)
    BY <1>8 DEF Exchange, Refused, Answered, TimesOut, Breaks
  <2>2. my' \in [Handlers -> Locals]
    <3>1. [my[h] EXCEPT !.status = s, !.error = e] \in Locals
      BY <1>t, LocalsKept
    <3>2. my' = [my EXCEPT ![h] = [my[h] EXCEPT !.status = s, !.error = e]]
      BY <2>1, <1>t DEF Conclude
    <3> QED
      BY <3>1, <3>2, <1>t
  <2> QED
    BY <2>1, <2>2 DEF Conclude, Goto, Stay, Locals
<1>9. ASSUME NEW h \in Handlers, Record(h) PROVE TypeOK'
  <2>1. my' \in [Handlers -> Locals]
    BY <1>9, <1>t, <1>f DEF Record, Insert, Finish
  <2>2. CASE Insert(h)
    <3>1. Row(h) \in [id : Nat \ {0}, by : Handlers, about : Msgs, url : Routes, attempt : Nat,
                     status : {NoStatus} \cup Accepts \cup Refuses, error : Errors, knew : Nat]
      BY <1>9, <2>2, <1>t DEF Record, Insert, Row, Locals, Phases
    <3> QED
      BY <1>9, <2>1, <2>2, <3>1 DEF Record, Insert, Finish, Goto, Stay, Locals
  <2>3. CASE UNCHANGED table
    BY <1>9, <2>1, <2>3 DEF Record, Insert, Finish, Goto, Stay, Locals
  <2> QED
    BY <1>9, <2>2, <2>3 DEF Record
<1>10. ASSUME NEW h \in Handlers, AppAnswers(h) PROVE TypeOK'
  BY <1>10 DEF AppAnswers
<1>11. ASSUME NEW m \in Msgs, Delete(m) PROVE TypeOK'
  BY <1>11 DEF Delete
<1>12. ASSUME NEW u \in Routes \cup {NoRoute}, ChangeRoute(u) PROVE TypeOK'
  BY <1>12 DEF ChangeRoute
<1>13. CASE Crash
  BY <1>13 DEF Crash, Fresh
<1>14. CASE UNCHANGED vars
  BY <1>14 DEF vars
<1> QED
  BY <1>1, <1>2, <1>3, <1>4, <1>5, <1>6, <1>7, <1>8, <1>9, <1>10, <1>11, <1>12, <1>13, <1>14 DEF Next, Handle

(* Every step leaves each request where its message, its bytes and the answer   *)
(* to them say it stands.                                                   *)
LEMMA PhasesNext == TypeOK /\ Phases /\ [Next]_vars => Phases'
<1> SUFFICES ASSUME TypeOK, Phases, [Next]_vars PROVE Phases'
  OBVIOUS
<1> USE DEF TypeOK, Phases, Busy, Over, Serving, request, table, world, mail, app
<1> USE DeliveryAssumption
<1>1. ASSUME NEW h \in Handlers, NEW m \in Msgs, Reply(h, m) PROVE Phases'
  BY <1>1 DEF Reply, Begin, Goto
<1>2. ASSUME NEW h \in Handlers, NEW m \in Msgs, Retry(h, m) PROVE Phases'
  BY <1>2 DEF Retry, Begin, Goto
<1>3. ASSUME NEW h \in Handlers, Ingest(h) PROVE Phases'
  BY <1>3 DEF Ingest, Finish, Goto, Fresh
<1>4. ASSUME NEW h \in Handlers, Find(h) \/ ReadRaw(h) PROVE Phases'
  BY <1>4, SMTT(30) DEF Find, ReadRaw, Finish, Goto, Fresh, Stay
<1>5. ASSUME NEW h \in Handlers, Resolve(h) \/ Unbuildable(h) PROVE Phases'
  BY <1>5 DEF Resolve, Unbuildable, Finish, Goto, Fresh, Stay
<1>6. ASSUME NEW h \in Handlers, ReadNumber(h) PROVE Phases'
  BY <1>6 DEF ReadNumber, Finish, Goto, Fresh, Stay
<1>7. ASSUME NEW h \in Handlers, Post(h) PROVE Phases'
  BY <1>7 DEF Post, Goto
<1>8. ASSUME NEW h \in Handlers, Exchange(h) PROVE Phases'
  BY <1>8, SMTT(30) DEF Exchange, Refused, Answered, TimesOut, Breaks, Conclude, Goto, Stay
<1>9. ASSUME NEW h \in Handlers, Record(h) PROVE Phases'
  BY <1>9, SMTT(30) DEF Record, Insert, Row, Finish, Goto, Fresh, Stay
<1>10. ASSUME NEW h \in Handlers, AppAnswers(h) PROVE Phases'
  BY <1>10 DEF AppAnswers
<1>11. ASSUME NEW m \in Msgs, Delete(m) PROVE Phases'
  BY <1>11 DEF Delete
<1>12. ASSUME NEW u \in Routes \cup {NoRoute}, ChangeRoute(u) PROVE Phases'
  BY <1>12 DEF ChangeRoute
<1>13. CASE Crash
  BY <1>13 DEF Crash, Fresh
<1>14. CASE UNCHANGED vars
  BY <1>14 DEF vars
<1> QED
  BY <1>1, <1>2, <1>3, <1>4, <1>5, <1>6, <1>7, <1>8, <1>9, <1>10, <1>11, <1>12, <1>13, <1>14 DEF Next, Handle

(* Rows stay their handlers' own: a new one has a new id, and a message that    *)
(* goes takes its rows along.                                               *)
LEMMA RowsNext == Basic /\ [Next]_vars => RowsKnown'
<1> SUFFICES ASSUME Basic, [Next]_vars PROVE RowsKnown'
  OBVIOUS
<1> USE DEF Basic, TypeOK, Phases, RowsKnown, RowsOf, Logged, Busy, Over, Serving, request, table, world, mail, app
<1>1. ASSUME NEW h \in Handlers, NEW m \in Msgs, Reply(h, m) PROVE RowsKnown'
  BY <1>1 DEF Reply, Begin, Goto
<1>2. ASSUME NEW h \in Handlers, NEW m \in Msgs, Retry(h, m) PROVE RowsKnown'
  BY <1>2 DEF Retry, Begin, Goto
<1>3. ASSUME NEW h \in Handlers, Ingest(h) PROVE RowsKnown'
  <2>1. /\ \A g \in Handlers : at'[g] = "routed" => at[g] = "routed"
        /\ \A g \in Handlers : at[g] = "routed" => at'[g] = "routed"
        /\ stored \subseteq stored' /\ UNCHANGED <<log, lastId, about, deleted>>
    BY <1>3 DEF Ingest, Finish, Goto
  <2> QED
    BY <2>1
<1>4. ASSUME NEW h \in Handlers, Find(h) \/ ReadRaw(h) PROVE RowsKnown'
  BY <1>4, SMTT(30) DEF Find, ReadRaw, Finish, Goto, Fresh, Stay
<1>5. ASSUME NEW h \in Handlers, Resolve(h) \/ Unbuildable(h) PROVE RowsKnown'
  BY <1>5 DEF Resolve, Unbuildable, Finish, Goto, Fresh, Stay
<1>6. ASSUME NEW h \in Handlers, ReadNumber(h) PROVE RowsKnown'
  BY <1>6 DEF ReadNumber, Finish, Goto, Fresh, Stay
<1>7. ASSUME NEW h \in Handlers, Post(h) PROVE RowsKnown'
  BY <1>7 DEF Post, Goto
<1>8. ASSUME NEW h \in Handlers, Exchange(h) PROVE RowsKnown'
  BY <1>8, SMTT(30) DEF Exchange, Refused, Answered, TimesOut, Breaks, Conclude, Goto, Stay
<1>9. ASSUME NEW h \in Handlers, Record(h) PROVE RowsKnown'
  <2>1. CASE Insert(h)
    <3>1. /\ log' = log \cup {Row(h)} /\ lastId' = lastId + 1 /\ at' = [at EXCEPT ![h] = "routed"]
          /\ UNCHANGED <<about, stored, deleted>>
      BY <1>9, <2>1 DEF Record, Insert, Finish, Goto, Stay
    <3>2. Row(h).by = h /\ Row(h).about = about[h] /\ Row(h).id = lastId + 1 /\ about[h] \in stored
      BY <2>1 DEF Insert, Row
    <3>3. at[h] = "record"
      BY <1>9 DEF Record
    <3>4. \A d \in log' : /\ at'[d.by] = "routed" /\ d.about = about'[d.by] /\ d.about \in stored'
                        /\ d.id <= lastId'
      BY <3>1, <3>2, <3>3
    <3>5. \A d, e \in log' : d.id = e.id => d = e
      BY <3>1, <3>2
    <3>6. \A g \in Handlers : at'[g] = "routed" => {d \in log' : d.by = g} # {} \/ about'[g] \in deleted'
      <4> TAKE g \in Handlers
      <4>1. CASE g = h
        BY <3>1, <3>2, <4>1
      <4>2. CASE g # h
        BY <3>1, <4>2
      <4> QED
        BY <4>1, <4>2
    <3> QED
      BY <3>4, <3>5, <3>6
  <2>2. CASE UNCHANGED table
    BY <1>9, <2>2, SMTT(30) DEF Record, Insert, Row, Finish, Goto, Stay
  <2> QED
    BY <1>9, <2>1, <2>2 DEF Record
<1>10. ASSUME NEW h \in Handlers, AppAnswers(h) PROVE RowsKnown'
  BY <1>10 DEF AppAnswers
<1>11. ASSUME NEW m \in Msgs, Delete(m) PROVE RowsKnown'
  BY <1>11 DEF Delete
<1>12. ASSUME NEW u \in Routes \cup {NoRoute}, ChangeRoute(u) PROVE RowsKnown'
  BY <1>12 DEF ChangeRoute
<1>13. CASE Crash
  BY <1>13 DEF Crash, Fresh
<1>14. CASE UNCHANGED vars
  BY <1>14 DEF vars
<1> QED
  BY <1>1, <1>2, <1>3, <1>4, <1>5, <1>6, <1>7, <1>8, <1>9, <1>10, <1>11, <1>12, <1>13, <1>14 DEF Next, Handle

(* What the log says of the application stays true: a step changes neither a *)
(* row nor the answer it rests on, and a new row says what came back.         *)
LEMMA OutcomesNext == Basic /\ OutcomesTrue /\ [Next]_vars => OutcomesTrue'
<1> SUFFICES ASSUME Basic, OutcomesTrue, [Next]_vars PROVE OutcomesTrue'
  OBVIOUS
<1> USE DEF request, table, world, mail, app
<1> USE DEF NoStatus, Errors
<1>1. ASSUME NEW h \in Handlers, NEW m \in Msgs, Reply(h, m) PROVE OutcomesTrue'
  BY <1>1 DEF Reply, Begin, Goto, Basic, TypeOK, Phases, RowsKnown, OutcomesTrue, Tells
<1>2. ASSUME NEW h \in Handlers, NEW m \in Msgs, Retry(h, m) PROVE OutcomesTrue'
  BY <1>2 DEF Retry, Begin, Goto, Basic, TypeOK, Phases, RowsKnown, OutcomesTrue, Tells
<1>3. ASSUME NEW h \in Handlers, Ingest(h) PROVE OutcomesTrue'
  BY <1>3 DEF Ingest, Finish, Goto, Fresh, Basic, TypeOK, Phases, RowsKnown, OutcomesTrue, Tells
<1>4. ASSUME NEW h \in Handlers, Find(h) \/ ReadRaw(h) PROVE OutcomesTrue'
  BY <1>4 DEF Find, ReadRaw, Finish, Goto, Fresh, Stay, Basic, TypeOK, Phases, RowsKnown, OutcomesTrue, Tells
<1>5. ASSUME NEW h \in Handlers, Resolve(h) \/ Unbuildable(h) PROVE OutcomesTrue'
  BY <1>5 DEF Resolve, Unbuildable, Finish, Goto, Fresh, Stay, Basic, TypeOK, Phases, RowsKnown, OutcomesTrue, Tells
<1>6. ASSUME NEW h \in Handlers, ReadNumber(h) PROVE OutcomesTrue'
  BY <1>6 DEF ReadNumber, Finish, Goto, Fresh, Stay, Basic, TypeOK, Phases, RowsKnown, OutcomesTrue, Tells
<1>7. ASSUME NEW h \in Handlers, Post(h) PROVE OutcomesTrue'
  BY <1>7 DEF Post, Goto, Basic, TypeOK, Phases, RowsKnown, OutcomesTrue, Tells
<1>8. ASSUME NEW h \in Handlers, Exchange(h) PROVE OutcomesTrue'
  <2>1. at[h] \in {"post", "wait"} /\ UNCHANGED <<log, call, sent>>
    BY <1>8 DEF Exchange, Refused, Answered, TimesOut, Breaks, Conclude, Stay
  <2>2. \A g \in Handlers, s \in Nat, e \in Errors : Tells(g, s, e)' <=> Tells(g, s, e)
    BY <2>1 DEF Tells
  <2>3. PICK s \in {NoStatus} \cup Accepts \cup Refuses, e \in Errors : Conclude(h, s, e) /\ Tells(h, s, e)
    <3>1. CASE Refused(h)
      BY <3>1 DEF Refused, Tells, Basic, Phases
    <3>2. CASE Answered(h)
      <4>1. PICK s \in Accepts \cup Refuses : call[h] = s
        <5>1. call[h] \in Accepts \cup Refuses
          BY <3>2 DEF Answered, Basic, TypeOK
        <5> QED
          BY <5>1
      <4>2. Conclude(h, s, IF s \in Accepts THEN "none" ELSE "status")
        BY <3>2, <4>1 DEF Answered, Conclude
      <4>3. CASE s \in Accepts
        <5>1. Conclude(h, s, "none") /\ Tells(h, s, "none")
          BY <4>1, <4>2, <4>3 DEF Conclude, Tells
        <5> QED
          BY <5>1
      <4>4. CASE s \notin Accepts
        <5>1. Conclude(h, s, "status") /\ Tells(h, s, "status")
          BY <4>1, <4>2, <4>4 DEF Conclude, Tells
        <5> QED
          BY <5>1
      <4> QED
        BY <4>3, <4>4
    <3>3. CASE TimesOut(h)
      BY <3>3 DEF TimesOut, Tells
    <3>4. CASE Breaks(h)
      BY <3>4 DEF Breaks, Tells
    <3> QED
      BY <1>8, <3>1, <3>2, <3>3, <3>4 DEF Exchange
  <2>4. my'[h].status = s /\ my'[h].error = e
    BY <2>3 DEF Conclude, Basic, TypeOK
  <2>5. \A g \in Handlers : g # h => at'[g] = at[g] /\ my'[g] = my[g]
    BY <2>3 DEF Conclude, Goto, Basic, TypeOK
  <2> QED
    BY <2>1, <2>3, <2>4, <2>5 DEF OutcomesTrue, Tells
<1>9. ASSUME NEW h \in Handlers, Record(h) PROVE OutcomesTrue'
  BY <1>9 DEF Record, Insert, Row, Finish, Goto, Fresh, Stay, Basic, TypeOK, Phases, RowsKnown, OutcomesTrue, Tells
<1>10. ASSUME NEW h \in Handlers, AppAnswers(h) PROVE OutcomesTrue'
  BY <1>10, DeliveryAssumption DEF AppAnswers, Basic, TypeOK, Phases, RowsKnown, OutcomesTrue, Tells
<1>11. ASSUME NEW m \in Msgs, Delete(m) PROVE OutcomesTrue'
  BY <1>11 DEF Delete, Basic, TypeOK, Phases, RowsKnown, OutcomesTrue, Tells
<1>12. ASSUME NEW u \in Routes \cup {NoRoute}, ChangeRoute(u) PROVE OutcomesTrue'
  BY <1>12 DEF ChangeRoute, Basic, TypeOK, Phases, RowsKnown, OutcomesTrue, Tells
<1>13. CASE Crash
  BY <1>13 DEF Crash, Fresh, Serving, Busy, Basic, TypeOK, Phases, RowsKnown, OutcomesTrue, Tells
<1>14. CASE UNCHANGED vars
  BY <1>14 DEF vars, Basic, TypeOK, Phases, RowsKnown, OutcomesTrue, Tells
<1> QED
  BY <1>1, <1>2, <1>3, <1>4, <1>5, <1>6, <1>7, <1>8, <1>9, <1>10, <1>11, <1>12, <1>13, <1>14 DEF Next, Handle

(* A step that adds no row, deletes no message, reads no number and moves no    *)
(* request into the stretch between reading a number and recording it leaves  *)
(* the numbers as they are.                                                 *)
NumbersUntouched ==
  /\ UNCHANGED <<log, lastId>>
  /\ \A h \in Handlers : at'[h] \in {"post", "wait", "record"} =>
       /\ at[h] \in {"post", "wait", "record"}
       /\ about'[h] = about[h]
       /\ my'[h].number = my[h].number /\ my'[h].knew = my[h].knew
       /\ about[h] \in stored' => about[h] \in stored

(* Such a step keeps the invariant on numbers. *)
LEMMA UntouchedNumbers == Numbered /\ NumbersUntouched => Numbered'
BY DEF Numbered, NumbersUntouched, Gapless, NumberRead, RepeatsOverlap, Used, RowsOf

(* The numbers stay 1 to some k for every message, and a number once read stays    *)
(* above the attempts its reader knew of.                                     *)
LEMMA NumberedNext == Basic /\ Numbered /\ [Next]_vars => Numbered'
<1> SUFFICES ASSUME Basic, Numbered, [Next]_vars PROVE Numbered'
  OBVIOUS
<1> USE DEF request, table, world, mail, app
<1>1. ASSUME NEW h \in Handlers, NEW m \in Msgs, Reply(h, m) PROVE Numbered'
  <2>1. NumbersUntouched
    BY <1>1 DEF Reply, Begin, Goto, NumbersUntouched, Basic, TypeOK, Phases
  <2> QED
    BY <2>1, UntouchedNumbers
<1>2. ASSUME NEW h \in Handlers, NEW m \in Msgs, Retry(h, m) PROVE Numbered'
  <2>1. NumbersUntouched
    BY <1>2 DEF Retry, Begin, Goto, NumbersUntouched, Basic, TypeOK, Phases
  <2> QED
    BY <2>1, UntouchedNumbers
<1>3. ASSUME NEW h \in Handlers, Ingest(h) PROVE Numbered'
  <2>1. NumbersUntouched
    BY <1>3 DEF Ingest, Finish, Goto, Fresh, NumbersUntouched, Basic, TypeOK, Phases
  <2> QED
    BY <2>1, UntouchedNumbers
<1>4. ASSUME NEW h \in Handlers, Find(h) \/ ReadRaw(h) PROVE Numbered'
  <2>1. NumbersUntouched
    BY <1>4 DEF Find, ReadRaw, Finish, Goto, Fresh, Stay, NumbersUntouched, Basic, TypeOK, Phases
  <2> QED
    BY <2>1, UntouchedNumbers
<1>5. ASSUME NEW h \in Handlers, Resolve(h) \/ Unbuildable(h) PROVE Numbered'
  <2>1. NumbersUntouched
    BY <1>5 DEF Resolve, Unbuildable, Finish, Goto, Fresh, Stay, NumbersUntouched, Basic, TypeOK, Phases
  <2> QED
    BY <2>1, UntouchedNumbers
<1>6. ASSUME NEW h \in Handlers, ReadNumber(h) PROVE Numbered'
  <2>1. CASE Finish(h, "failed")
    <3>1. NumbersUntouched
      BY <1>6, <2>1 DEF ReadNumber, Finish, Goto, Stay, NumbersUntouched, Basic, TypeOK
    <3> QED
      BY <3>1, UntouchedNumbers
  <2>2. CASE ~Finish(h, "failed")
    <3>1. /\ at[h] = "number" /\ Goto(h, "post") /\ UNCHANGED <<log, lastId, about, stored>>
          /\ my' = [my EXCEPT ![h].number = NextAttempt(about[h]), ![h].knew = lastId]
      BY <1>6, <2>2 DEF ReadNumber, Stay
    <3>2. about[h] \in Msgs
      BY <3>1 DEF Basic, Phases
    <3>3. PICK k \in Nat : Used(about[h]) = 1..k
      BY <3>2 DEF Numbered, Gapless
    <3>4. NextAttempt(about[h]) = k + 1
      BY <3>2, <3>3, NextIsOneMore
    <3>5. my'[h].number = k + 1 /\ my'[h].knew = lastId
      BY <3>1, <3>4 DEF Basic, TypeOK
    <3>6. \A g \in Handlers : g # h => my'[g] = my[g] /\ at'[g] = at[g]
      BY <3>1 DEF Goto, Basic, TypeOK
    <3>7. \A d \in RowsOf(about[h]) : d.attempt < k + 1
      <4> SUFFICES ASSUME NEW d \in RowsOf(about[h]) PROVE d.attempt < k + 1
        OBVIOUS
      <4>1. d.attempt \in 1..k
        BY <3>3 DEF Used
      <4> QED
        BY <4>1
    <3>8. Gapless' /\ RepeatsOverlap'
      BY <3>1 DEF Numbered, Gapless, RepeatsOverlap, Used, RowsOf
    <3>9. NumberRead'
      <4> SUFFICES ASSUME NEW g \in Handlers, at'[g] \in {"post", "wait", "record"}
                   PROVE  /\ my'[g].number # 0 /\ my'[g].knew <= lastId
                          /\ about[g] \in stored => 1..(my'[g].number - 1) \subseteq Used(about[g])
                          /\ \A d \in RowsOf(about[g]) : d.id <= my'[g].knew => d.attempt < my'[g].number
        BY <3>1 DEF NumberRead, Used, RowsOf
      <4>1. CASE g = h
        BY <4>1, <3>3, <3>5, <3>7 DEF Basic, TypeOK
      <4>2. CASE g # h
        BY <4>2, <3>6 DEF Numbered, NumberRead
      <4> QED
        BY <4>1, <4>2
    <3> QED
      BY <3>8, <3>9 DEF Numbered
  <2> QED
    BY <2>1, <2>2
<1>7. ASSUME NEW h \in Handlers, Post(h) PROVE Numbered'
  <2>1. NumbersUntouched
    BY <1>7 DEF Post, Goto, NumbersUntouched, Basic, TypeOK, Phases
  <2> QED
    BY <2>1, UntouchedNumbers
<1>8. ASSUME NEW h \in Handlers, Exchange(h) PROVE Numbered'
  <2>1. PICK s, e : Conclude(h, s, e)
    BY <1>8 DEF Exchange, Refused, Answered, TimesOut, Breaks
  <2>2. \A g \in Handlers : my'[g].number = my[g].number /\ my'[g].knew = my[g].knew
    BY <2>1 DEF Conclude, Basic, TypeOK
  <2>3. at[h] \in {"post", "wait"}
    BY <1>8 DEF Exchange, Refused, Answered, TimesOut, Breaks
  <2>4. \A g \in Handlers : at'[g] \in {"post", "wait", "record"} => at[g] \in {"post", "wait", "record"}
    BY <2>1, <2>3 DEF Conclude, Goto, Basic, TypeOK
  <2>5. NumbersUntouched
    BY <2>1, <2>2, <2>4 DEF Conclude, Stay, NumbersUntouched
  <2> QED
    BY <2>5, UntouchedNumbers
<1>9. ASSUME NEW h \in Handlers, Record(h) PROVE Numbered'
  <2>1. CASE UNCHANGED table
    <3>1. NumbersUntouched
      BY <1>9, <2>1 DEF Record, Insert, Finish, Goto, Stay, NumbersUntouched, Basic, TypeOK
    <3> QED
      BY <3>1, UntouchedNumbers
  <2>2. CASE Insert(h)
    <3> DEFINE r == Row(h)
               m == about[h]
    <3>1. /\ at[h] = "record" /\ at' = [at EXCEPT ![h] = "routed"]
          /\ UNCHANGED <<about, stored>> /\ m \in stored
          /\ log' = log \cup {r} /\ lastId' = lastId + 1
          /\ \A g \in Handlers : g # h => my'[g] = my[g]
      BY <1>9, <2>2 DEF Record, Insert, Finish, Goto, Stay, Basic, TypeOK
    <3>2. /\ r.about = m /\ r.id = lastId + 1 /\ r.attempt = my[h].number /\ r.knew = my[h].knew
      BY DEF Row
    <3>3. /\ my[h].number \in Nat /\ my[h].number # 0 /\ lastId \in Nat /\ m \in Msgs
          /\ 1..(my[h].number - 1) \subseteq Used(m)
          /\ \A d \in RowsOf(m) : d.id <= my[h].knew => d.attempt < my[h].number
      BY <3>1 DEF Basic, TypeOK, Numbered, NumberRead
    <3>4. \A n \in Msgs : RowsOf(n)' = IF n = m THEN RowsOf(n) \cup {r} ELSE RowsOf(n)
      BY <3>1, <3>2 DEF RowsOf
    <3>5. \A n \in Msgs : Used(n)' = IF n = m THEN Used(n) \cup {r.attempt} ELSE Used(n)
      BY <3>4 DEF Used
    <3> HIDE DEF r, m
    <3>6. Gapless'
      <4> SUFFICES ASSUME NEW n \in Msgs PROVE \E k \in Nat : Used(n)' = 1..k
        BY DEF Gapless
      <4>1. PICK k \in Nat : Used(n) = 1..k
        BY DEF Numbered, Gapless
      <4>2. CASE n # m
        BY <4>1, <4>2, <3>5
      <4>3. CASE n = m
        <5>1. Used(n)' = 1..k \cup {my[h].number} /\ 1..(my[h].number - 1) \subseteq 1..k
          BY <3>2, <3>3, <3>5, <4>1, <4>3
        <5>2. my[h].number <= k + 1
          <6>1. CASE my[h].number = 1
            BY <6>1
          <6>2. CASE my[h].number # 1
            <7>1. my[h].number - 1 \in 1..(my[h].number - 1)
              BY <3>3, <6>2
            <7>2. my[h].number - 1 \in 1..k
              BY <5>1, <7>1
            <7> QED
              BY <3>3, <7>2
          <6> QED
            BY <6>1, <6>2
        <5>3. CASE my[h].number <= k
          BY <3>3, <5>1, <5>3
        <5>4. CASE my[h].number = k + 1
          <6>1. Used(n)' = 1..(k + 1)
            BY <3>3, <5>1, <5>4
          <6> QED
            BY <6>1
        <5> QED
          BY <3>3, <5>2, <5>3, <5>4
      <4> QED
        BY <4>2, <4>3
    <3>7. NumberRead'
      <4> SUFFICES ASSUME NEW g \in Handlers, at'[g] \in {"post", "wait", "record"}
                   PROVE  /\ my'[g].number # 0 /\ my'[g].knew <= lastId'
                          /\ about[g] \in stored => 1..(my'[g].number - 1) \subseteq Used(about[g])'
                          /\ \A d \in RowsOf(about[g])' : d.id <= my'[g].knew => d.attempt < my'[g].number
        BY <3>1 DEF NumberRead, Used, RowsOf
      <4>1. g # h /\ at[g] \in {"post", "wait", "record"} /\ my'[g] = my[g] /\ about[g] \in Msgs
        BY <3>1 DEF Basic, TypeOK, Phases
      <4>2. /\ my[g].number # 0 /\ my[g].knew <= lastId /\ my[g].knew \in Nat
            /\ about[g] \in stored => 1..(my[g].number - 1) \subseteq Used(about[g])
            /\ \A d \in RowsOf(about[g]) : d.id <= my[g].knew => d.attempt < my[g].number
        BY <4>1 DEF Numbered, NumberRead, Basic, TypeOK
      <4>3. Used(about[g]) \subseteq Used(about[g])'
        BY <3>1, <3>5, <4>1
      <4>4. \A d \in RowsOf(about[g])' : d \in RowsOf(about[g]) \/ d.id = lastId + 1
        BY <3>1, <3>2, <3>4, <4>1
      <4>5. ~(lastId + 1 <= my[g].knew)
        BY <3>3, <4>2
      <4>6. my'[g].number # 0 /\ my'[g].knew <= lastId'
        BY <3>1, <3>3, <4>1, <4>2
      <4>7. about[g] \in stored => 1..(my'[g].number - 1) \subseteq Used(about[g])'
        BY <4>1, <4>2, <4>3
      <4>8. \A d \in RowsOf(about[g])' : d.id <= my'[g].knew => d.attempt < my'[g].number
        BY <4>1, <4>2, <4>4, <4>5
      <4> QED
        BY <4>6, <4>7, <4>8
    <3>8. RepeatsOverlap'
      <4> SUFFICES ASSUME NEW d \in log', NEW e \in log', d.about = e.about, d.attempt = e.attempt,
                          d.id < e.id
                   PROVE  e.knew < d.id
        BY DEF RepeatsOverlap
      <4>1. \A c \in log : c.id \in Nat /\ c.id <= lastId
        BY DEF Basic, TypeOK, RowsKnown
      <4>2. d \in log
        BY <3>1, <3>2, <3>3, <4>1
      <4>3. CASE e \in log
        BY <4>2, <4>3 DEF Numbered, RepeatsOverlap
      <4>4. CASE e = r
        <5>1. d \in RowsOf(m) /\ d.attempt = my[h].number /\ my[h].knew \in Nat
          BY <3>2, <4>2, <4>4 DEF RowsOf, Basic, TypeOK
        <5>2. ~(d.id <= my[h].knew)
          BY <3>3, <5>1
        <5> QED
          BY <3>2, <4>1, <4>2, <4>4, <5>1, <5>2
      <4> QED
        BY <3>1, <4>3, <4>4
    <3> QED
      BY <3>6, <3>7, <3>8 DEF Numbered
  <2> QED
    BY <1>9, <2>1, <2>2 DEF Record
<1>10. ASSUME NEW h \in Handlers, AppAnswers(h) PROVE Numbered'
  <2>1. NumbersUntouched
    BY <1>10 DEF AppAnswers, NumbersUntouched, Basic, TypeOK, Phases
  <2> QED
    BY <2>1, UntouchedNumbers
<1>11. ASSUME NEW m \in Msgs, Delete(m) PROVE Numbered'
  <2>1. /\ log' = log \ RowsOf(m) /\ stored' = stored \ {m} /\ UNCHANGED <<about, at, my, lastId>>
    BY <1>11 DEF Delete
  <2>2. \A n \in Msgs : RowsOf(n)' = IF n = m THEN {} ELSE RowsOf(n)
    BY <2>1 DEF RowsOf
  <2>3. \A n \in Msgs : Used(n)' = IF n = m THEN {} ELSE Used(n)
    BY <2>2 DEF Used
  <2>4. Gapless'
    <3>1. 1..0 = {}
      OBVIOUS
    <3> QED
      BY <2>3, <3>1 DEF Gapless, Numbered
  <2>5. NumberRead'
    <3> SUFFICES ASSUME NEW g \in Handlers, at[g] \in {"post", "wait", "record"}
                 PROVE  /\ my[g].number # 0 /\ my[g].knew <= lastId
                        /\ about[g] \in stored' => 1..(my[g].number - 1) \subseteq Used(about[g])'
                        /\ \A d \in RowsOf(about[g])' : d.id <= my[g].knew => d.attempt < my[g].number
      BY <2>1 DEF NumberRead, Used, RowsOf
    <3>1. about[g] \in Msgs
      BY DEF Basic, Phases
    <3> QED
      BY <2>1, <2>2, <2>3, <3>1 DEF Numbered, NumberRead
  <2>6. RepeatsOverlap'
    BY <2>1 DEF Numbered, RepeatsOverlap
  <2> QED
    BY <2>4, <2>5, <2>6 DEF Numbered
<1>12. ASSUME NEW u \in Routes \cup {NoRoute}, ChangeRoute(u) PROVE Numbered'
  <2>1. NumbersUntouched
    BY <1>12 DEF ChangeRoute, NumbersUntouched, Basic, TypeOK, Phases
  <2> QED
    BY <2>1, UntouchedNumbers
<1>13. CASE Crash
  <2>1. NumbersUntouched
    BY <1>13 DEF Crash, Fresh, NumbersUntouched, Basic, TypeOK, Phases, Serving, Busy
  <2> QED
    BY <2>1, UntouchedNumbers
<1>14. CASE UNCHANGED vars
  <2>1. NumbersUntouched
    BY <1>14 DEF vars, NumbersUntouched, Basic, TypeOK, Phases
  <2> QED
    BY <2>1, UntouchedNumbers
<1> QED
  BY <1>1, <1>2, <1>3, <1>4, <1>5, <1>6, <1>7, <1>8, <1>9, <1>10, <1>11, <1>12, <1>13, <1>14 DEF Next, Handle

(* Steps in which no request begins and no row comes or goes keep the order. *)
OrderUntouched ==
  /\ UNCHANGED <<log, about, op, trusted>>
  /\ \A h \in Handlers : Serving(h)' => Serving(h)

(* Such a step keeps the requests one after another. *)
LEMMA UntouchedOrder == OneAfterAnother /\ OrderUntouched => OneAfterAnother'
BY DEF OneAfterAnother, OrderUntouched, Careful, RowsOf, Newest, OK

(* Requests about one message still come one after another when each retry was   *)
(* asked for by somebody who had read the log.                               *)
LEMMA OneAfterAnotherNext == Basic /\ OneAfterAnother /\ [Next]_vars => OneAfterAnother'
<1> SUFFICES ASSUME Basic, OneAfterAnother, [Next]_vars PROVE OneAfterAnother'
  OBVIOUS
<1> USE DEF request, table, world, mail, app
<1>1. ASSUME NEW h \in Handlers, NEW m \in Msgs, Reply(h, m) PROVE OneAfterAnother'
  <2>1. /\ at[h] = "idle" /\ at' = [at EXCEPT ![h] = "ingest"] /\ about' = [about EXCEPT ![h] = m]
        /\ op' = [op EXCEPT ![h] = "reply"] /\ UNCHANGED <<log, trusted>>
        /\ \A g \in Handlers : about[g] # m
    BY <1>1 DEF Reply, Begin, Goto
  <2>2. about[h] = NoMsg
    BY <2>1 DEF Basic, Phases
  <2>3. \A g \in Handlers : g # h => about'[g] = about[g] /\ op'[g] = op[g] /\ (Serving(g)' <=> Serving(g))
    BY <2>1 DEF Basic, TypeOK, Serving
  <2>4. about'[h] = m /\ op'[h] = "reply"
    BY <2>1 DEF Basic, TypeOK
  <2>5. RowsOf(m)' = {}
    BY <2>1 DEF RowsOf, Basic, RowsKnown, TypeOK
  <2>6. SUFFICES ASSUME NEW n \in Msgs, Careful(n)'
                 PROVE  /\ \A f, g \in Handlers : about'[f] = n /\ about'[g] = n /\ Serving(f)' /\ Serving(g)' => f = g
                        /\ \A d \in RowsOf(n)' : OK(d) =>
                             d \in Newest(n)' /\ \A g \in Handlers : about'[g] = n => ~Serving(g)'
    BY DEF OneAfterAnother, OK
  <2>7. CASE n = m
    BY <2>1, <2>3, <2>4, <2>5, <2>7
  <2>8. CASE n # m
    <3>1. Careful(n)
      BY <2>1, <2>2, <2>3, <2>6, DeliveryAssumption DEF Careful
    <3>2. RowsOf(n)' = RowsOf(n) /\ Newest(n)' = Newest(n)
      BY <2>1 DEF RowsOf, Newest
    <3> QED
      BY <2>3, <2>4, <2>8, <3>1, <3>2 DEF OneAfterAnother
  <2> QED
    BY <2>7, <2>8
<1>2. ASSUME NEW h \in Handlers, NEW m \in Msgs, Retry(h, m) PROVE OneAfterAnother'
  <2>1. /\ at[h] = "idle" /\ at' = [at EXCEPT ![h] = "find"] /\ about' = [about EXCEPT ![h] = m]
        /\ op' = [op EXCEPT ![h] = "retry"] /\ UNCHANGED log
        /\ trusted' = trusted \/ trusted' = trusted \cup {h}
    BY <1>2 DEF Retry, Begin, Goto, table
  <2>2. about[h] = NoMsg /\ h \notin trusted
    BY <2>1 DEF Basic, Phases
  <2>3. \A g \in Handlers : g # h => about'[g] = about[g] /\ op'[g] = op[g] /\ (Serving(g)' <=> Serving(g))
    BY <2>1 DEF Basic, TypeOK, Serving
  <2>4. about'[h] = m /\ op'[h] = "retry"
    BY <2>1 DEF Basic, TypeOK
  <2>5. \A n \in Msgs : RowsOf(n)' = RowsOf(n) /\ Newest(n)' = Newest(n)
    BY <2>1 DEF RowsOf, Newest
  <2>6. SUFFICES ASSUME NEW n \in Msgs, Careful(n)'
                 PROVE  /\ \A f, g \in Handlers : about'[f] = n /\ about'[g] = n /\ Serving(f)' /\ Serving(g)' => f = g
                        /\ \A d \in RowsOf(n)' : OK(d) =>
                             d \in Newest(n)' /\ \A g \in Handlers : about'[g] = n => ~Serving(g)'
    BY DEF OneAfterAnother, OK
  <2>7. Careful(n)
    <3> SUFFICES ASSUME NEW g \in Handlers, about[g] = n, op[g] = "retry" PROVE g \in trusted
      BY DEF Careful
    <3>1. g # h
      BY <2>2, DeliveryAssumption
    <3> QED
      BY <2>1, <2>3, <2>6, <3>1 DEF Careful
  <2>8. CASE n = m
    <3>1. h \in trusted'
      BY <2>4, <2>6, <2>8 DEF Careful
    <3>2. /\ ~ \E g \in Handlers \ {h} : about[g] = m /\ Serving(g)
          /\ ~ \E d \in Newest(m) : OK(d)
      BY <1>2, <2>2, <3>1 DEF Retry
    <3>3. \A d \in RowsOf(m) : ~OK(d)
      BY <2>7, <2>8, <3>2 DEF OneAfterAnother
    <3> QED
      BY <2>3, <2>5, <2>8, <3>2, <3>3
  <2>9. CASE n # m
    BY <2>3, <2>4, <2>5, <2>7, <2>9 DEF OneAfterAnother
  <2> QED
    BY <2>8, <2>9
<1>3. ASSUME NEW h \in Handlers, Ingest(h) PROVE OneAfterAnother'
  <2>1. OrderUntouched
    BY <1>3 DEF Ingest, Finish, Goto, Fresh, OrderUntouched, Basic, TypeOK, Serving, Busy
  <2> QED
    BY <2>1, UntouchedOrder
<1>4. ASSUME NEW h \in Handlers, Find(h) \/ ReadRaw(h) PROVE OneAfterAnother'
  <2>1. OrderUntouched
    BY <1>4 DEF Find, ReadRaw, Finish, Goto, Fresh, Stay, OrderUntouched, Basic, TypeOK, Serving, Busy
  <2> QED
    BY <2>1, UntouchedOrder
<1>5. ASSUME NEW h \in Handlers, Resolve(h) \/ Unbuildable(h) PROVE OneAfterAnother'
  <2>1. OrderUntouched
    BY <1>5 DEF Resolve, Unbuildable, Finish, Goto, Fresh, Stay, OrderUntouched, Basic, TypeOK, Serving, Busy
  <2> QED
    BY <2>1, UntouchedOrder
<1>6. ASSUME NEW h \in Handlers, ReadNumber(h) PROVE OneAfterAnother'
  <2>1. OrderUntouched
    BY <1>6 DEF ReadNumber, Finish, Goto, Fresh, Stay, OrderUntouched, Basic, TypeOK, Serving, Busy
  <2> QED
    BY <2>1, UntouchedOrder
<1>7. ASSUME NEW h \in Handlers, Post(h) PROVE OneAfterAnother'
  <2>1. OrderUntouched
    BY <1>7 DEF Post, Goto, OrderUntouched, Basic, TypeOK, Serving, Busy
  <2> QED
    BY <2>1, UntouchedOrder
<1>8. ASSUME NEW h \in Handlers, Exchange(h) PROVE OneAfterAnother'
  <2>1. OrderUntouched
    BY <1>8 DEF Exchange, Refused, Answered, TimesOut, Breaks, Conclude, Goto, Stay, OrderUntouched, Basic, TypeOK, Serving, Busy
  <2> QED
    BY <2>1, UntouchedOrder
<1>9. ASSUME NEW h \in Handlers, Record(h) PROVE OneAfterAnother'
  <2>1. CASE UNCHANGED table
    <3>1. OrderUntouched
      BY <1>9, <2>1 DEF Record, Insert, Finish, Goto, Stay, OrderUntouched, Basic, TypeOK, Serving, Busy
    <3> QED
      BY <3>1, UntouchedOrder
  <2>2. CASE Insert(h)
    <3> DEFINE r == Row(h)
               m == about[h]
    <3>1. /\ at[h] = "record" /\ at' = [at EXCEPT ![h] = "routed"]
          /\ UNCHANGED <<about, op, trusted>> /\ log' = log \cup {r}
      BY <1>9, <2>2 DEF Record, Insert, Finish, Goto, Stay
    <3>2. r.about = m /\ r.id = lastId + 1
      BY DEF Row
    <3>3. \A d \in log : d.id \in Nat /\ d.id <= lastId
      BY DEF Basic, TypeOK, RowsKnown
    <3>4. lastId \in Nat
      BY DEF Basic, TypeOK
    <3>5. \A g \in Handlers : (g # h => (Serving(g)' <=> Serving(g))) /\ ~Serving(h)' /\ Serving(h)
      BY <3>1 DEF Basic, TypeOK, Serving, Busy
    <3> HIDE DEF r, m
    <3>6. SUFFICES ASSUME NEW n \in Msgs, Careful(n)'
                   PROVE  /\ \A f, g \in Handlers : about[f] = n /\ about[g] = n /\ Serving(f)' /\ Serving(g)' => f = g
                          /\ \A d \in RowsOf(n)' : OK(d) =>
                               d \in Newest(n)' /\ \A g \in Handlers : about[g] = n => ~Serving(g)'
      BY <3>1 DEF OneAfterAnother, OK
    <3>7. Careful(n)
      BY <3>1, <3>6 DEF Careful
    <3>8. \A f, g \in Handlers : about[f] = n /\ about[g] = n /\ Serving(f) /\ Serving(g) => f = g
      BY <3>7 DEF OneAfterAnother
    <3>9. CASE n # m
      <4>1. RowsOf(n)' = RowsOf(n) /\ Newest(n)' = Newest(n)
        BY <3>1, <3>2, <3>9 DEF RowsOf, Newest
      <4> QED
        BY <3>5, <3>7, <4>1 DEF OneAfterAnother
    <3>10. CASE n = m
      <4>1. \A g \in Handlers : about[g] = n => ~Serving(g)'
        BY <3>5, <3>8, <3>10 DEF m
      <4>2. \A d \in RowsOf(n) : ~OK(d)
        BY <3>5, <3>7, <3>10 DEF OneAfterAnother, m
      <4>3. RowsOf(n)' = RowsOf(n) \cup {r}
        BY <3>1, <3>2, <3>10 DEF RowsOf
      <4>4. r \in Newest(n)'
        BY <3>2, <3>3, <3>4, <4>3 DEF Newest, RowsOf
      <4> QED
        BY <4>1, <4>2, <4>3, <4>4
    <3> QED
      BY <3>9, <3>10
  <2> QED
    BY <1>9, <2>1, <2>2 DEF Record
<1>10. ASSUME NEW h \in Handlers, AppAnswers(h) PROVE OneAfterAnother'
  <2>1. OrderUntouched
    BY <1>10 DEF AppAnswers, OrderUntouched, Basic, TypeOK, Serving, Busy
  <2> QED
    BY <2>1, UntouchedOrder
<1>11. ASSUME NEW m \in Msgs, Delete(m) PROVE OneAfterAnother'
  <2>1. log' = log \ RowsOf(m) /\ UNCHANGED <<about, op, trusted, at>>
    BY <1>11 DEF Delete
  <2>2. \A n \in Msgs : RowsOf(n)' = IF n = m THEN {} ELSE RowsOf(n)
    BY <2>1 DEF RowsOf
  <2>3. \A n \in Msgs : n # m => Newest(n)' = Newest(n)
    BY <2>2 DEF Newest
  <2> QED
    BY <2>1, <2>2, <2>3 DEF OneAfterAnother, Careful, Serving, OK
<1>12. ASSUME NEW u \in Routes \cup {NoRoute}, ChangeRoute(u) PROVE OneAfterAnother'
  <2>1. OrderUntouched
    BY <1>12 DEF ChangeRoute, OrderUntouched, Basic, TypeOK, Serving, Busy
  <2> QED
    BY <2>1, UntouchedOrder
<1>13. CASE Crash
  <2>1. OrderUntouched
    BY <1>13 DEF Crash, Fresh, OrderUntouched, Basic, TypeOK, Serving, Busy
  <2> QED
    BY <2>1, UntouchedOrder
<1>14. CASE UNCHANGED vars
  <2>1. OrderUntouched
    BY <1>14 DEF vars, OrderUntouched, Basic, TypeOK, Serving, Busy
  <2> QED
    BY <2>1, UntouchedOrder
<1> QED
  BY <1>1, <1>2, <1>3, <1>4, <1>5, <1>6, <1>7, <1>8, <1>9, <1>10, <1>11, <1>12, <1>13, <1>14 DEF Next, Handle

-----------------------------------------------------------------------------
(* The theorems *)

(* The invariant holds at first, and every step keeps it. *)
LEMMA InvInit == Init => IInv
<1> SUFFICES ASSUME Init PROVE IInv
  OBVIOUS
<1>1. Basic
  BY BasicInit
<1>2. OutcomesTrue
  BY DEF Init, OutcomesTrue
<1>3. Numbered
  <2>1. \A m \in Msgs : Used(m) = {}
    BY DEF Init, Used, RowsOf
  <2>2. 1..0 = {}
    OBVIOUS
  <2>3. Gapless
    BY <2>1, <2>2 DEF Gapless
  <2> QED
    BY <2>3 DEF Init, Numbered, NumberRead, RepeatsOverlap
<1>4. OneAfterAnother
  BY DEF Init, OneAfterAnother, Serving, Busy, RowsOf
<1> QED
  BY <1>1, <1>2, <1>3, <1>4 DEF IInv

(* Every step keeps the whole invariant. *)
LEMMA InvNext == IInv /\ [Next]_vars => IInv'
BY TypeNext, PhasesNext, RowsNext, OutcomesNext, NumberedNext, OneAfterAnotherNext
DEF IInv, Basic, Numbered

(* The invariant holds in every state. *)
LEMMA Invariant == Spec => []IInv
<1>1. Init => IInv
  BY InvInit
<1>2. IInv /\ [Next]_vars => IInv'
  BY InvNext
<1> QED
  BY <1>1, <1>2, PTL DEF Spec

(* Every variable keeps its type: no number is read from nothing, no row names *)
(* a route, a status or a message the program does not know.                *)
THEOREM TypesCorrect == Spec => []TypeOK
<1>1. IInv => TypeOK
  BY DEF IInv, Basic
<1> QED
  BY <1>1, Invariant, PTL

(* The two kinds of status codes. *)
LEMMA StatusCodes ==
  /\ \A s \in Accepts : s \in 200..299
  /\ \A s \in Refuses : s \notin 200..299 /\ s # NoStatus
<1>1. Accepts \subseteq 200..299
  BY DeliveryAssumption
<1>2. Refuses \subseteq (100..599) \ (200..299)
  BY DeliveryAssumption
<1> QED
  BY <1>1, <1>2 DEF NoStatus

(* True outcomes make the log true: an accepting status is 2xx and a refusing    *)
(* one is not, and nothing was taken from a request that was not sent.       *)
LEMMA TrueOutcomes == TypeOK /\ OutcomesTrue /\ Phases => LogTellsTruth
<1> SUFFICES ASSUME TypeOK, OutcomesTrue, Phases, NEW d \in log
             PROVE  /\ OK(d) => Took(d.by)
                    /\ Took(d.by) /\ ~OK(d) => d.error \in {"timeout", "broken"}
  BY DEF LogTellsTruth
<1>1. d.by \in Handlers /\ d.error \in Errors /\ Tells(d.by, d.status, d.error)
  BY DEF TypeOK, OutcomesTrue
<1>2. OK(d) => Took(d.by)
  BY <1>1 DEF OK, Tells, Took
<1>3. ASSUME Took(d.by), ~OK(d), d.error \notin {"timeout", "broken"} PROVE FALSE
  <2>1. CASE d.error = "none"
    <3>1. d.status \in Accepts
      BY <1>1, <2>1 DEF Tells
    <3>2. d.status \in 200..299
      BY <3>1, StatusCodes
    <3> QED
      BY <1>3, <2>1, <3>2 DEF OK
  <2>2. CASE d.error = "status"
    <3>1. d.status \in Refuses /\ d.status \in Accepts
      BY <1>1, <1>3, <2>2 DEF Tells, Took
    <3>2. d.status \in 200..299 /\ d.status \notin 200..299
      BY <3>1, StatusCodes
    <3> QED
      BY <3>2
  <2>3. CASE d.error = "refused"
    BY <1>1, <1>3, <2>3, DeliveryAssumption DEF Tells, Took, Phases, NoStatus
  <2> QED
    BY <1>1, <1>3, <2>1, <2>2, <2>3 DEF Errors
<1> QED
  BY <1>2, <1>3

(* The log is to be believed: a row that reports success is a mail the          *)
(* application took, and one it took is logged as a failure only when its     *)
(* answer did not come back.                                                *)
THEOREM LogTellsTruthAlways == Spec => []LogTellsTruth
<1>1. IInv => LogTellsTruth
  BY TrueOutcomes DEF IInv, Basic
<1> QED
  BY <1>1, Invariant, PTL

(* The composer's answer agrees with what happened: "routed" has its row until *)
(* the message is deleted, "orphaned" lost it to a deletion, and any other    *)
(* result but "unrecorded" says nothing was sent.                           *)
THEOREM EveryAttemptIsARowAlways == Spec => []EveryAttemptIsARow
<1>1. IInv => EveryAttemptIsARow
  BY DEF IInv, Basic, Phases, RowsKnown, EveryAttemptIsARow, Posted
<1> QED
  BY <1>1, Invariant, PTL

(* The attempts of a message are numbered without a gap, however requests       *)
(* overlap.                                                                  *)
THEOREM NumbersWithoutGapsAlways == Spec => []NumbersWithoutGaps
<1>1. ASSUME Gapless PROVE NumbersWithoutGaps
  <2> SUFFICES ASSUME NEW m \in Msgs PROVE Used(m) = 1..Max({0} \cup Used(m))
    BY DEF NumbersWithoutGaps, Used
  <2>1. PICK k \in Nat : Used(m) = 1..k
    BY <1>1 DEF Gapless
  <2>2. Max({0} \cup Used(m)) = k
    <3>1. NextAttempt(m) = Max({0} \cup Used(m)) + 1
      BY DEF NextAttempt, Used
    <3>2. {0} \cup Used(m) = 0..k
      BY <2>1
    <3> QED
      BY <2>1, <3>2, LargestOfRange
  <2> QED
    BY <2>1, <2>2
<1>2. IInv => NumbersWithoutGaps
  BY <1>1 DEF IInv, Numbered
<1> QED
  BY <1>2, Invariant, PTL

(* Two attempts of a message share a number only when the second read the log   *)
(* before the first was in it.                                               *)
THEOREM RepeatsOverlapAlways == Spec => []RepeatsOverlap
<1>1. IInv => RepeatsOverlap
  BY DEF IInv, Numbered
<1> QED
  BY <1>1, Invariant, PTL

(* Of a set with more than one element two can be named. *)
LEMMA TwoOfThem ==
  ASSUME NEW S, IsFiniteSet(S), Cardinality(S) > 1
  PROVE  \E x, y \in S : x # y
<1> SUFFICES ASSUME \A x, y \in S : x = y PROVE FALSE
  OBVIOUS
<1>1. CASE S = {}
  BY <1>1, FS_EmptySet
<1>2. CASE S # {}
  <2>1. PICK x : S = {x}
    BY <1>2
  <2> QED
    BY <2>1, FS_Singleton
<1> QED
  BY <1>1, <1>2

(* When each retry was asked for by somebody who had read the log, two attempts *)
(* the application took mean an answer was lost: both rows would be successes *)
(* on top of the log, and there is one row on top.                           *)
LEMMA NoSecondSuccess == Basic /\ OutcomesTrue /\ OneAfterAnother => TwiceOnlyIfAnswerLost
<1> SUFFICES ASSUME Basic, OutcomesTrue, OneAfterAnother, NEW m \in Msgs, Careful(m),
                    Cardinality({h \in Handlers : about[h] = m /\ Took(h)}) > 1
             PROVE  \E h \in {h \in Handlers : about[h] = m /\ Took(h)} : LostAnswer(h)
  BY DEF TwiceOnlyIfAnswerLost, Careful
<1> DEFINE took == {h \in Handlers : about[h] = m /\ Took(h)}
<1>1. IsFiniteSet(took)
  BY DeliveryAssumption, FS_Subset, took \subseteq Handlers
<1>2. PICK f \in took, g \in took : f # g
  <2>1. Cardinality(took) > 1
    OBVIOUS
  <2> HIDE DEF took
  <2> QED
    BY <1>1, <2>1, TwoOfThem
<1>3. SUFFICES ASSUME ~LostAnswer(f), ~LostAnswer(g) PROVE FALSE
  BY <1>2
<1>4. ASSUME NEW h \in took, ~LostAnswer(h)
      PROVE  \E d \in log : d.by = h /\ d \in Newest(m)
  <2>1. PICK d \in Logged(h) : TRUE
    BY <1>4 DEF LostAnswer
  <2>2. d \in log /\ d.by = h /\ d.error \notin {"timeout", "broken"}
    BY <1>4, <2>1 DEF LostAnswer, Logged
  <2>3. OK(d)
    BY <1>4, <2>2, TrueOutcomes DEF LogTellsTruth, Basic
  <2>4. d \in RowsOf(m)
    BY <1>4, <2>2 DEF RowsOf, Basic, RowsKnown
  <2> QED
    BY <2>2, <2>3, <2>4 DEF OneAfterAnother
<1>5. PICK d \in log : d.by = f /\ d \in Newest(m)
  BY <1>3, <1>4
<1>6. PICK e \in log : e.by = g /\ e \in Newest(m)
  BY <1>3, <1>4
<1>7. d.id \in Nat /\ e.id \in Nat /\ d.id <= e.id /\ e.id <= d.id
  BY <1>5, <1>6 DEF Newest, RowsOf, Basic, TypeOK
<1>8. d = e
  BY <1>7 DEF Basic, RowsKnown
<1> QED
  BY <1>2, <1>5, <1>6, <1>8

(* Whatever the application, the network and the crashes do: if nobody retried    *)
(* without having read the log, a reply was taken twice only if an answer got *)
(* lost.                                                                     *)
THEOREM TwiceOnlyIfAnswerLostAlways == Spec => []TwiceOnlyIfAnswerLost
<1>1. IInv => TwiceOnlyIfAnswerLost
  BY NoSecondSuccess DEF IInv
<1> QED
  BY <1>1, Invariant, PTL

=============================================================================
