---------------------------- MODULE Service_proofs ----------------------------
(***************************************************************************)
(* Theorems about Mailman processes and the login service that runs one of *)
(* them, for any number of processes, any schema version and any limits.   *)
(***************************************************************************)
EXTENDS Service, FiniteSetTheorems, TLAPS

-----------------------------------------------------------------------------
(* What a step does to the processes *)

(* The steps of module Startup, which is all that commands, restarts, logins   *)
(* and the user's hand can make a process do.                               *)
ProcessStep ==
  \/ UNCHANGED <<procs, db, machine>>
  \/ \E i \in Slots : \/ (Begin(i) \/ Halted(i)) /\ UNCHANGED <<db, machine>>
                      \/ Progress(i) \/ Fail(i)
  \/ \E p \in Ports : ForeignComes(p) \/ ForeignGoes(p)

(* A step of a command starts or ends the job, or leaves every process alone. *)
LEMMA EffectOnJob ==
  ASSUME NEW s, Effect(s)
  PROVE  UNCHANGED procs \/ Begin(Job) \/ Halted(Job)
<1>1. StartJob => UNCHANGED procs \/ Begin(Job)
  BY DEF StartJob, Stay
<1>2. StopJob => UNCHANGED procs \/ Halted(Job)
  BY DEF StopJob, Stay
<1> QED
  BY <1>1, <1>2 DEF Effect, Stay

(* Whatever happens is a step of module Startup as far as processes go. *)
LEMMA OnlyProcessSteps == [Next]_vars => ProcessStep
<1> SUFFICES ASSUME [Next]_vars PROVE ProcessStep
  OBVIOUS
<1>j. Job \in Slots
  BY StartupAssumption, ServiceAssumption
<1>1. ASSUME NEW i \in Slots, Proceed(i) PROVE ProcessStep
  BY <1>1 DEF Proceed, ProcessStep
<1>2. ASSUME NEW i \in Slots, Run(i) PROVE ProcessStep
  BY <1>2 DEF Run, ProcessStep
<1>3. ASSUME NEW i \in Slots, Interrupt(i) PROVE ProcessStep
  BY <1>3 DEF Interrupt, ProcessStep
<1>4. ASSUME NEW i \in Slots, Crash(i) PROVE ProcessStep
  BY <1>4 DEF Crash, ProcessStep
<1>5. ASSUME NEW name \in Commands, Command(name) PROVE ProcessStep
  BY <1>5 DEF Command, ProcessStep
<1>6. CASE StepWorks
  <2>1. UNCHANGED <<db, machine>> /\ (UNCHANGED procs \/ Begin(Job) \/ Halted(Job))
    BY <1>6, EffectOnJob DEF StepWorks
  <2> QED
    BY <2>1, <1>j DEF ProcessStep
<1>7. CASE StepFails
  BY <1>7 DEF StepFails, ProcessStep
<1>8. CASE Restart
  BY <1>8, <1>j DEF Restart, StartJob, Stay, ProcessStep
<1>9. CASE Relogin
  BY <1>9, <1>j DEF Relogin, StopJob, Stay, ProcessStep
<1>10. CASE Disable
  BY <1>10 DEF Disable, ProcessStep
<1>11. CASE Foreign
  BY <1>11 DEF Foreign, ProcessStep
<1>12. CASE UNCHANGED vars
  BY <1>12 DEF vars, ProcessStep
<1> QED
  BY <1>1, <1>2, <1>3, <1>4, <1>5, <1>6, <1>7, <1>8, <1>9, <1>10, <1>11, <1>12 DEF Next

-----------------------------------------------------------------------------
(* The processes *)

(* A process asks for ports only when the schema is its build's, and is at a   *)
(* migration only below it; it holds a port only from "bind" on, smtp first.  *)
StageOf(i) ==
  /\ at[i] \in {"ask smtp", "ask http", "bind", "lost", "serve"} => db = SchemaVersion
  /\ at[i] = "apply" => seen[i] < SchemaVersion
  /\ at[i] \notin {"bind", "lost", "serve"} => bound[i] = {}
  /\ at[i] \in {"bind", "lost"} => bound[i] \in {{}, {"smtp"}}
  /\ at[i] = "serve" => bound[i] = Ports
  /\ Alive(i) => why[i] = "none"
  /\ why[i] = "broken" => broken

Stages == \A i \in Slots : StageOf(i)

(* What a process has asked for is not held by a program that was there when   *)
(* the process began.                                                        *)
FreeOf(i) ==
  /\ before[i] \subseteq came
  /\ at[i] \in {"ask http", "bind", "lost", "serve"} => "smtp" \notin foreign \cap before[i]
  /\ at[i] \in {"bind", "lost", "serve"} => "http" \notin foreign \cap before[i]

AskedFor == \A i \in Slots : FreeOf(i)

(* A process binds SMTP first. *)
LEMMA FirstSmtp ==
  ASSUME NEW i, bound[i] = {} PROVE BindOrder(i)[Cardinality(bound[i]) + 1] = "smtp"
BY FS_EmptySet DEF BindOrder

(* It binds HTTP after that. *)
LEMMA ThenHttp ==
  ASSUME NEW i, bound[i] = {"smtp"} PROVE BindOrder(i)[Cardinality(bound[i]) + 1] = "http"
<1>1. Cardinality(bound[i]) = 1
  BY FS_Singleton
<1> QED
  BY <1>1 DEF BindOrder

(* Binding, in terms of the two ports. *)
Loses(i) ==
  /\ at' = [at EXCEPT ![i] = "lost"] /\ UNCHANGED bound
  /\ \E p \in Ports : /\ p = IF bound[i] = {} THEN "smtp" ELSE "http"
                      /\ Listening(p) # {} \/ p \in foreign

TakesSmtp(i) ==
  /\ bound[i] = {} /\ bound' = [bound EXCEPT ![i] = {"smtp"}] /\ UNCHANGED at
  /\ Listening("smtp") = {}

TakesHttp(i) ==
  /\ bound[i] = {"smtp"} /\ bound' = [bound EXCEPT ![i] = Ports]
  /\ at' = [at EXCEPT ![i] = "serve"]
  /\ Listening("http") = {}

(* A bind that is tried loses the port, takes SMTP, or takes HTTP and serves. *)
LEMMA BindByPort ==
  ASSUME StartupType, Stages, NEW i \in Slots, Bind(i)
  PROVE  /\ at[i] = "bind" /\ UNCHANGED <<why, before, seen, db, machine>>
         /\ Loses(i) \/ TakesSmtp(i) \/ TakesHttp(i)
<1>1. at[i] = "bind" /\ UNCHANGED <<why, before, seen, db, machine>>
  BY DEF Bind, Goto
<1>2. CASE bound[i] = {}
  <2>1. BindOrder(i)[Cardinality(bound[i]) + 1] = "smtp"
    BY <1>2, FirstSmtp
  <2>2. CASE Listening("smtp") # {} \/ ("smtp" \in foreign /\ ~wild)
    BY <1>1, <1>2, <2>1, <2>2 DEF Bind, Goto, Ports, Loses
  <2>3. CASE ~(Listening("smtp") # {} \/ ("smtp" \in foreign /\ ~wild))
    <3>1. bound' = [bound EXCEPT ![i] = bound[i] \cup {"smtp"}]
          /\ at' = [at EXCEPT ![i] = IF bound'[i] = Ports THEN "serve" ELSE "bind"]
      BY <2>1, <2>3 DEF Bind, Goto
    <3>2. bound'[i] = {"smtp"} /\ "http" \in Ports
      BY <1>2, <3>1 DEF StartupType, Ports
    <3>3. bound'[i] # Ports
      BY <3>2
    <3>4. at' = [at EXCEPT ![i] = "bind"]
      BY <3>1, <3>3
    <3>5. at' = at
      BY <1>1, <3>4 DEF StartupType
    <3> QED
      BY <1>1, <1>2, <2>3, <3>1, <3>5 DEF TakesSmtp
  <2> QED
    BY <2>2, <2>3
<1>3. CASE bound[i] = {"smtp"}
  <2>1. BindOrder(i)[Cardinality(bound[i]) + 1] = "http"
    BY <1>3, ThenHttp
  <2>2. CASE Listening("http") # {} \/ ("http" \in foreign /\ ~wild)
    BY <1>1, <1>3, <2>1, <2>2 DEF Bind, Goto, Ports, Loses
  <2>3. CASE ~(Listening("http") # {} \/ ("http" \in foreign /\ ~wild))
    <3>1. bound' = [bound EXCEPT ![i] = bound[i] \cup {"http"}]
          /\ at' = [at EXCEPT ![i] = IF bound'[i] = Ports THEN "serve" ELSE "bind"]
      BY <2>1, <2>3 DEF Bind, Goto
    <3>2. bound[i] \cup {"http"} = Ports
      BY <1>3 DEF Ports
    <3>3. bound'[i] = Ports
      BY <3>1, <3>2 DEF StartupType
    <3> QED
      BY <1>1, <1>3, <2>3, <3>1, <3>2, <3>3 DEF TakesHttp
  <2> QED
    BY <2>2, <2>3
<1> QED
  BY <1>1, <1>2, <1>3 DEF Stages, StageOf

(* The version of this build is a number. *)
LEMMA VersionIsNat == SchemaVersion \in Nat
BY StartupAssumption

(* A step of one process leaves the others where they are. *)
LEMMA OthersStay ==
  ASSUME StartupType, Stages, NEW i \in Slots, NEW j \in Slots, i # j,
         Begin(i) \/ Halted(i) \/ Progress(i) \/ Fail(i)
  PROVE  /\ at'[j] = at[j] /\ seen'[j] = seen[j] /\ why'[j] = why[j]
         /\ bound'[j] = bound[j] /\ before'[j] = before[j]
<1>1. CASE Begin(i)
  BY <1>1 DEF Begin, StartupType
<1>2. ASSUME NEW r \in Reasons, End(i, r)
      PROVE  /\ at'[j] = at[j] /\ seen'[j] = seen[j] /\ why'[j] = why[j]
             /\ bound'[j] = bound[j] /\ before'[j] = before[j]
  BY <1>2 DEF End, StartupType
<1>3. CASE Bind(i)
  <2>1. Loses(i) \/ TakesSmtp(i) \/ TakesHttp(i)
    BY <1>3, BindByPort
  <2>2. UNCHANGED <<why, before, seen>>
    BY <1>3, BindByPort
  <2> QED
    BY <2>1, <2>2 DEF Loses, TakesSmtp, TakesHttp, StartupType
<1>4. CASE Halted(i) \/ Fail(i) \/ GiveUp(i)
  BY <1>2, <1>4 DEF Halted, Fail, GiveUp, Reasons, StartupType
<1>5. CASE Load(i) \/ ReadVersion(i) \/ (\E p \in Ports : Ask(i, p))
  BY <1>2, <1>5 DEF Load, ReadVersion, Ask, Goto, Reasons, StartupType
<1>6. CASE Apply(i)
  <2>1. CASE db # seen[i]
    BY <1>2, <1>6, <2>1 DEF Apply, Reasons, StartupType
  <2>2. CASE db = seen[i]
    BY <1>6, <2>2 DEF Apply, Goto, StartupType
  <2> QED
    BY <2>1, <2>2
<1>7. CASE Progress(i)
  BY <1>3, <1>4, <1>5, <1>6, <1>7 DEF Progress
<1> QED
  BY <1>1, <1>4, <1>7

(* The types of a process and of the machine. *)
LEMMA ProcessTypes == StartupType /\ Stages /\ ProcessStep => StartupType'
<1> SUFFICES ASSUME StartupType, Stages, ProcessStep PROVE StartupType'
  OBVIOUS
<1> USE DEF machine
<1>1. CASE UNCHANGED <<procs, db, machine>>
  BY <1>1 DEF procs, machine, StartupType, Starting, Alive, Reasons
<1>2. ASSUME NEW i \in Slots, Begin(i), UNCHANGED <<db, machine>> PROVE StartupType'
  BY <1>2 DEF Begin, machine, StartupType, Starting, Alive, Reasons
<1>3. ASSUME NEW i \in Slots, Halted(i), UNCHANGED <<db, machine>> PROVE StartupType'
  BY <1>3 DEF Halted, End, ExitStatus, machine, StartupType, Starting, Alive, Reasons
<1>4. ASSUME NEW i \in Slots, Load(i) PROVE StartupType'
  BY <1>4 DEF Load, End, ExitStatus, Goto, machine, StartupType, Starting, Alive, Reasons
<1>5. ASSUME NEW i \in Slots, ReadVersion(i) PROVE StartupType'
  BY <1>5 DEF ReadVersion, End, ExitStatus, Goto, machine, StartupType, Starting, Alive, Reasons
<1>6. ASSUME NEW i \in Slots, Apply(i) PROVE StartupType'
  <2>1. CASE db # seen[i]
    BY <1>6, <2>1 DEF Apply, End, ExitStatus, machine, StartupType, Starting, Reasons
  <2>2. CASE db = seen[i]
    <3>1. db' = db + 1 /\ UNCHANGED <<why, bound, before, machine>> /\ seen' = [seen EXCEPT ![i] = db + 1]
          /\ at' = [at EXCEPT ![i] = IF db + 1 = SchemaVersion THEN "ask smtp" ELSE "apply"]
      BY <1>6, <2>2 DEF Apply, Goto
    <3>2. db' \in Nat /\ seen' \in [Slots -> Nat]
      <4>1. db + 1 \in Nat
        <5>1. db \in Nat
          BY DEF StartupType
        <5> QED
          BY <5>1
      <4> QED
        BY <3>1, <4>1 DEF StartupType
    <3>3. at' \in [Slots -> {"off", "exit 0", "exit 1", "serve"} \cup Starting]
      BY <3>1 DEF StartupType, Starting
    <3> QED
      BY <3>1, <3>2, <3>3 DEF machine, StartupType
  <2> QED
    BY <2>1, <2>2
<1>7. ASSUME NEW i \in Slots, NEW p \in Ports, Ask(i, p) PROVE StartupType'
  BY <1>7 DEF Ask, Asking, Ports, End, ExitStatus, Goto, machine, StartupType, Starting, Alive, Reasons
<1>8. ASSUME NEW i \in Slots, Bind(i) PROVE StartupType'
  <2>1. Loses(i) \/ TakesSmtp(i) \/ TakesHttp(i)
    BY <1>8, BindByPort
  <2>2. UNCHANGED <<why, before, seen, db, machine>>
    BY <1>8, BindByPort
  <2>3. at' \in [Slots -> {"off", "exit 0", "exit 1", "serve"} \cup Starting]
    BY <2>1 DEF Loses, TakesSmtp, TakesHttp, StartupType, Starting
  <2>4. bound' \in [Slots -> SUBSET Ports]
    <3>1. {"smtp"} \in SUBSET Ports /\ Ports \in SUBSET Ports
      BY DEF Ports
    <3> QED
      BY <2>1, <3>1 DEF Loses, TakesSmtp, TakesHttp, StartupType
  <2> QED
    BY <2>2, <2>3, <2>4 DEF machine, StartupType
<1>9. ASSUME NEW i \in Slots, GiveUp(i) PROVE StartupType'
  BY <1>9 DEF GiveUp, End, ExitStatus, machine, StartupType, Starting, Alive, Reasons
<1>10. ASSUME NEW i \in Slots, Fail(i) PROVE StartupType'
  BY <1>10 DEF Fail, End, ExitStatus, machine, StartupType, Starting, Alive, Reasons
<1>11. ASSUME NEW p \in Ports, ForeignComes(p) PROVE StartupType'
  BY <1>11 DEF ForeignComes, procs, StartupType, Starting, Alive, Reasons
<1>12. ASSUME NEW p \in Ports, ForeignGoes(p) PROVE StartupType'
  BY <1>12 DEF ForeignGoes, procs, StartupType, Starting, Alive, Reasons
<1> QED
  BY <1>1, <1>2, <1>3, <1>4, <1>5, <1>6, <1>7, <1>8, <1>9, <1>10, <1>11, <1>12 DEF ProcessStep, Progress

(* A process that is over has let go of what it held. *)
LEMMA EndedStage ==
  ASSUME StartupType, NEW i \in Slots, NEW r \in Reasons, End(i, r), r = "broken" => broken', db' = db
  PROVE  StageOf(i)'
<1>1. at'[i] \in {"exit 0", "exit 1"} /\ why'[i] = r /\ bound'[i] = {}
  BY DEF End, ExitStatus, StartupType
<1>2. /\ at'[i] \notin {"ask smtp", "ask http", "bind", "lost", "serve", "apply"}
      /\ at'[i] \notin Starting \cup {"serve"}
  BY <1>1 DEF Starting
<1> QED
  BY <1>1, <1>2 DEF StageOf, Alive

(* A process that did nothing is where it was. *)
LEMMA OthersStages ==
  ASSUME StartupType, Stages, NEW i \in Slots, UNCHANGED <<db, machine>>,
         Begin(i) \/ Halted(i) \/ Progress(i) \/ Fail(i)
  PROVE  \A j \in Slots : j # i => StageOf(j)'
<1> SUFFICES ASSUME NEW j \in Slots, j # i PROVE StageOf(j)'
  OBVIOUS
<1>1. /\ at'[j] = at[j] /\ seen'[j] = seen[j] /\ why'[j] = why[j]
      /\ bound'[j] = bound[j] /\ before'[j] = before[j]
  BY OthersStay
<1>2. StageOf(j) /\ db' = db /\ broken' = broken
  BY DEF Stages, machine
<1> QED
  BY <1>1, <1>2 DEF StageOf, Alive

(* A process goes through its stages in order, and holds what it has bound. *)
LEMMA StagesNext == StartupType /\ Stages /\ ProcessStep => Stages'
<1> SUFFICES ASSUME StartupType, Stages, ProcessStep PROVE Stages'
  OBVIOUS
<1>1. CASE UNCHANGED <<procs, db, machine>>
  BY <1>1 DEF procs, machine, Stages, StageOf, Alive
<1>2. ASSUME NEW i \in Slots, Begin(i), UNCHANGED <<db, machine>> PROVE Stages'
  <2>1. StageOf(i)'
    BY <1>2 DEF Begin, StageOf, StartupType, Alive, Starting, machine
  <2>2. \A j \in Slots : j # i => StageOf(j)'
    BY <1>2, OthersStages
  <2> QED
    BY <2>1, <2>2 DEF Stages
<1>3. ASSUME NEW i \in Slots, Halted(i), UNCHANGED <<db, machine>> PROVE Stages'
  <2>1. StageOf(i)'
    BY <1>3, EndedStage DEF Halted, Reasons
  <2>2. \A j \in Slots : j # i => StageOf(j)'
    BY <1>3, OthersStages
  <2> QED
    BY <2>1, <2>2 DEF Stages
<1>4. ASSUME NEW i \in Slots, Load(i) PROVE Stages'
  <2>1. StageOf(i)'
    <3>1. CASE broken
      BY <1>4, <3>1, EndedStage DEF Load, Reasons, machine
    <3>2. CASE ~broken
      <4>1. /\ at[i] = "load" /\ at' = [at EXCEPT ![i] = "read"]
            /\ UNCHANGED <<why, seen, bound, db, machine>>
        BY <1>4, <3>2 DEF Load, Goto
      <4>2. bound[i] = {} /\ why[i] = "none"
        BY <4>1 DEF Stages, StageOf, Alive, Starting
      <4> QED
        BY <4>1, <4>2 DEF StageOf, StartupType
    <3> QED
      BY <3>1, <3>2
  <2>3. UNCHANGED <<db, machine>>
    BY <1>4 DEF Load
  <2>2. \A j \in Slots : j # i => StageOf(j)'
    BY <1>4, <2>3, OthersStages DEF Progress
  <2> QED
    BY <2>1, <2>2 DEF Stages
<1>5. ASSUME NEW i \in Slots, ReadVersion(i) PROVE Stages'
  <2>1. StageOf(i)'
    <3>0. db \in Nat /\ at[i] = "read" /\ bound[i] = {} /\ why[i] = "none"
      BY <1>5 DEF ReadVersion, StartupType, StageOf, Stages, Alive, Starting
    <3>1. CASE db > SchemaVersion
      BY <1>5, <3>1, EndedStage DEF ReadVersion, Reasons
    <3>2. CASE db = SchemaVersion
      <4>1. at' = [at EXCEPT ![i] = "ask smtp"] /\ UNCHANGED <<why, before, bound, db, machine>>
        <5>1. ~(db > SchemaVersion)
          BY <3>2, VersionIsNat
        <5> QED
          BY <1>5, <3>2, <5>1 DEF ReadVersion, Goto
      <4> QED
        BY <3>0, <3>2, <4>1 DEF StageOf, StartupType, Alive, Starting, machine
    <3>3. CASE db < SchemaVersion
      <4>1. at' = [at EXCEPT ![i] = "apply"] /\ UNCHANGED <<why, before, bound, db, machine>>
            /\ seen' = [seen EXCEPT ![i] = db]
        <5>1. ~(db > SchemaVersion) /\ db # SchemaVersion
          BY <3>0, <3>3, VersionIsNat
        <5> QED
          BY <1>5, <5>1 DEF ReadVersion, Goto
      <4> QED
        BY <3>0, <3>3, <4>1 DEF StageOf, StartupType, Alive, Starting, machine
    <3> QED
      BY <3>0, <3>1, <3>2, <3>3, VersionIsNat
  <2>3. UNCHANGED <<db, machine>>
    BY <1>5 DEF ReadVersion
  <2>2. \A j \in Slots : j # i => StageOf(j)'
    BY <1>5, <2>3, OthersStages DEF Progress
  <2> QED
    BY <2>1, <2>2 DEF Stages
<1>6. ASSUME NEW i \in Slots, Apply(i) PROVE Stages'
  <2>1. CASE db # seen[i]
    <3>1. StageOf(i)'
      BY <1>6, <2>1, EndedStage DEF Apply, Reasons
    <3>2. UNCHANGED <<db, machine>>
      BY <1>6, <2>1 DEF Apply
    <3>3. \A j \in Slots : j # i => StageOf(j)'
      BY <1>6, <3>2, OthersStages DEF Progress
    <3> QED
      BY <3>1, <3>3 DEF Stages
  <2>2. CASE db = seen[i]
    <3>1. seen[i] < SchemaVersion /\ seen[i] \in Nat /\ SchemaVersion \in Nat
      BY <1>6, StartupAssumption DEF Apply, StageOf, Stages, StartupType
    <3>2. db' = db + 1 /\ UNCHANGED <<why, bound, machine>> /\ seen' = [seen EXCEPT ![i] = db + 1]
          /\ at' = [at EXCEPT ![i] = IF db + 1 = SchemaVersion THEN "ask smtp" ELSE "apply"]
          /\ at[i] = "apply"
      BY <1>6, <2>2 DEF Apply, Goto
    <3>6. db # SchemaVersion
      BY <2>2, <3>1
    <3>0. bound[i] = {} /\ why[i] = "none" /\ db # SchemaVersion
      BY <3>2, <3>6 DEF StageOf, Stages, Alive, Starting
    <3>3. StageOf(i)'
      <4>1. CASE db + 1 = SchemaVersion
        BY <3>0, <3>2, <4>1 DEF StageOf, StartupType, Alive, Starting, machine
      <4>2. CASE db + 1 # SchemaVersion
        <5>1. db + 1 < SchemaVersion
          BY <2>2, <3>1, <4>2
        <5> QED
          BY <3>0, <3>2, <4>2, <5>1 DEF StageOf, StartupType, Alive, Starting, machine
      <4> QED
        BY <4>1, <4>2
    <3>4. \A j \in Slots : at[j] \notin {"ask smtp", "ask http", "bind", "lost", "serve"}
      BY <3>0 DEF StageOf, Stages
    <3>5. ASSUME NEW j \in Slots, j # i PROVE StageOf(j)'
      <4>1. /\ at'[j] = at[j] /\ seen'[j] = seen[j] /\ why'[j] = why[j] /\ bound'[j] = bound[j]
        BY <1>6, <3>5, OthersStay DEF Progress
      <4>2. StageOf(j) /\ at[j] \notin {"ask smtp", "ask http", "bind", "lost", "serve"} /\ broken' = broken
        BY <3>2, <3>4 DEF Stages, machine
      <4> QED
        BY <4>1, <4>2 DEF StageOf, Alive
    <3> QED
      BY <3>3, <3>5 DEF Stages
  <2> QED
    BY <2>1, <2>2
<1>7. ASSUME NEW i \in Slots, NEW p \in Ports, Ask(i, p) PROVE Stages'
  <2>1. StageOf(i)'
    <3>1. CASE Answers(p)
      BY <1>7, <3>1, EndedStage DEF Ask, Reasons
    <3>2. CASE ~Answers(p)
      <4>1. /\ at[i] \in {"ask smtp", "ask http"}
            /\ at' = [at EXCEPT ![i] = IF p = "smtp" THEN "ask http" ELSE "bind"]
            /\ UNCHANGED <<why, seen, bound, db, machine>>
        BY <1>7, <3>2 DEF Ask, Asking, Goto
      <4>2. bound[i] = {} /\ why[i] = "none" /\ db = SchemaVersion
        BY <4>1 DEF Stages, StageOf, Alive, Starting
      <4> QED
        BY <4>1, <4>2 DEF StageOf, StartupType
    <3> QED
      BY <3>1, <3>2
  <2>3. UNCHANGED <<db, machine>>
    BY <1>7 DEF Ask
  <2>2. \A j \in Slots : j # i => StageOf(j)'
    BY <1>7, <2>3, OthersStages DEF Progress
  <2> QED
    BY <2>1, <2>2 DEF Stages
<1>8. ASSUME NEW i \in Slots, Bind(i) PROVE Stages'
  <2>0. at[i] = "bind" /\ UNCHANGED <<why, before, seen, db, machine>> /\ (Loses(i) \/ TakesSmtp(i) \/ TakesHttp(i))
    BY <1>8, BindByPort
  <2>1. StageOf(i)'
    BY <2>0 DEF Loses, TakesSmtp, TakesHttp, StageOf, StartupType, Alive, Starting, Stages, machine
  <2>2. \A j \in Slots : j # i => StageOf(j)'
    BY <1>8, <2>0, OthersStages DEF Progress
  <2> QED
    BY <2>1, <2>2 DEF Stages
<1>9. ASSUME NEW i \in Slots, GiveUp(i) PROVE Stages'
  <2>1. StageOf(i)'
    BY <1>9, EndedStage DEF GiveUp, Reasons
  <2>3. UNCHANGED <<db, machine>>
    BY <1>9 DEF GiveUp
  <2>2. \A j \in Slots : j # i => StageOf(j)'
    BY <1>9, <2>3, OthersStages DEF Progress
  <2> QED
    BY <2>1, <2>2 DEF Stages
<1>10. ASSUME NEW i \in Slots, Fail(i) PROVE Stages'
  <2>1. StageOf(i)'
    BY <1>10, EndedStage DEF Fail, Reasons
  <2>3. UNCHANGED <<db, machine>>
    BY <1>10 DEF Fail
  <2>2. \A j \in Slots : j # i => StageOf(j)'
    BY <1>10, <2>3, OthersStages
  <2> QED
    BY <2>1, <2>2 DEF Stages
<1>11. ASSUME NEW p \in Ports, ForeignComes(p) PROVE Stages'
  BY <1>11 DEF ForeignComes, procs, Stages, StageOf, Alive, machine
<1>12. ASSUME NEW p \in Ports, ForeignGoes(p) PROVE Stages'
  BY <1>12 DEF ForeignGoes, procs, Stages, StageOf, Alive, machine
<1> QED
  BY <1>1, <1>2, <1>3, <1>4, <1>5, <1>6, <1>7, <1>8, <1>9, <1>10, <1>11, <1>12 DEF ProcessStep, Progress

(* A program that left a port does not come back to it, so what was found free *)
(* of the programs that were there stays free of them.                       *)
LEMMA AskedForNext == StartupType /\ Stages /\ AskedFor /\ ProcessStep => AskedFor'
<1> SUFFICES ASSUME StartupType, Stages, AskedFor, ProcessStep PROVE AskedFor'
  OBVIOUS
<1>1. CASE UNCHANGED <<procs, db, machine>>
  BY <1>1 DEF procs, machine, AskedFor, FreeOf, machine, StartupType
<1>2. ASSUME NEW i \in Slots, Begin(i), UNCHANGED <<db, machine>> PROVE AskedFor'
  <2>0. UNCHANGED machine
    BY <1>2
  <2>1. FreeOf(i)'
    BY <1>2 DEF Begin, machine, FreeOf, AskedFor, StartupType, Alive, Starting
  <2>2. \A j \in Slots : j # i => FreeOf(j)'
    BY <1>2, <2>0, OthersStay DEF FreeOf, AskedFor, machine, Progress
  <2> QED
    BY <2>1, <2>2 DEF AskedFor
<1>3. ASSUME NEW i \in Slots, Halted(i), UNCHANGED <<db, machine>> PROVE AskedFor'
  <2>0. UNCHANGED machine
    BY <1>3
  <2>1. FreeOf(i)'
    BY <1>3 DEF Halted, End, ExitStatus, machine, FreeOf, AskedFor, StartupType, Alive, Starting
  <2>2. \A j \in Slots : j # i => FreeOf(j)'
    BY <1>3, <2>0, OthersStay DEF FreeOf, AskedFor, machine, Progress
  <2> QED
    BY <2>1, <2>2 DEF AskedFor
<1>4. ASSUME NEW i \in Slots, Load(i) PROVE AskedFor'
  <2>0. UNCHANGED machine
    BY <1>4 DEF Load
  <2>1. FreeOf(i)'
    BY <1>4 DEF Load, End, ExitStatus, Goto, machine, FreeOf, AskedFor, StartupType, Alive, Starting
  <2>2. \A j \in Slots : j # i => FreeOf(j)'
    BY <1>4, <2>0, OthersStay DEF FreeOf, AskedFor, machine, Progress
  <2> QED
    BY <2>1, <2>2 DEF AskedFor
<1>5. ASSUME NEW i \in Slots, ReadVersion(i) PROVE AskedFor'
  <2>0. UNCHANGED machine
    BY <1>5 DEF ReadVersion
  <2>1. FreeOf(i)'
    BY <1>5 DEF ReadVersion, End, ExitStatus, Goto, machine, FreeOf, AskedFor, StartupType, Alive, Starting
  <2>2. \A j \in Slots : j # i => FreeOf(j)'
    BY <1>5, <2>0, OthersStay DEF FreeOf, AskedFor, machine, Progress
  <2> QED
    BY <2>1, <2>2 DEF AskedFor
<1>6. ASSUME NEW i \in Slots, Apply(i) PROVE AskedFor'
  <2>0. UNCHANGED machine
    BY <1>6 DEF Apply
  <2>1. FreeOf(i)'
    BY <1>6 DEF Apply, End, ExitStatus, Goto, machine, FreeOf, AskedFor, StartupType, Alive, Starting
  <2>2. \A j \in Slots : j # i => FreeOf(j)'
    BY <1>6, <2>0, OthersStay DEF FreeOf, AskedFor, machine, Progress
  <2> QED
    BY <2>1, <2>2 DEF AskedFor
<1>7. ASSUME NEW i \in Slots, NEW p \in Ports, Ask(i, p) PROVE AskedFor'
  <2>0. UNCHANGED machine
    BY <1>7 DEF Ask
  <2>1. FreeOf(i)'
    BY <1>7 DEF Ask, Asking, Ports, End, ExitStatus, Goto, machine, FreeOf, AskedFor, StartupType, Alive, Starting, Answers
  <2>2. \A j \in Slots : j # i => FreeOf(j)'
    BY <1>7, <2>0, OthersStay DEF FreeOf, AskedFor, machine, Progress
  <2> QED
    BY <2>1, <2>2 DEF AskedFor
<1>8. ASSUME NEW i \in Slots, Bind(i) PROVE AskedFor'
  <2>0. at[i] = "bind" /\ UNCHANGED <<before, machine>> /\ (Loses(i) \/ TakesSmtp(i) \/ TakesHttp(i))
    BY <1>8, BindByPort
  <2>1. FreeOf(i)'
    BY <2>0 DEF Loses, TakesSmtp, TakesHttp, FreeOf, AskedFor, StartupType, machine
  <2>2. \A j \in Slots : j # i => FreeOf(j)'
    BY <1>8, <2>0, OthersStay DEF FreeOf, AskedFor, machine, Progress
  <2> QED
    BY <2>1, <2>2 DEF AskedFor
<1>9. ASSUME NEW i \in Slots, GiveUp(i) PROVE AskedFor'
  <2>0. UNCHANGED machine
    BY <1>9 DEF GiveUp
  <2>1. FreeOf(i)'
    BY <1>9 DEF GiveUp, End, ExitStatus, machine, FreeOf, AskedFor, StartupType, Alive, Starting
  <2>2. \A j \in Slots : j # i => FreeOf(j)'
    BY <1>9, <2>0, OthersStay DEF FreeOf, AskedFor, machine, Progress
  <2> QED
    BY <2>1, <2>2 DEF AskedFor
<1>10. ASSUME NEW i \in Slots, Fail(i) PROVE AskedFor'
  <2>0. UNCHANGED machine
    BY <1>10 DEF Fail
  <2>1. FreeOf(i)'
    BY <1>10 DEF Fail, End, ExitStatus, machine, FreeOf, AskedFor, StartupType, Alive, Starting
  <2>2. \A j \in Slots : j # i => FreeOf(j)'
    BY <1>10, <2>0, OthersStay DEF FreeOf, AskedFor, machine, Progress
  <2> QED
    BY <2>1, <2>2 DEF AskedFor
<1>11. ASSUME NEW p \in Ports, ForeignComes(p) PROVE AskedFor'
  BY <1>11 DEF ForeignComes, procs, AskedFor, FreeOf, machine, StartupType
<1>12. ASSUME NEW p \in Ports, ForeignGoes(p) PROVE AskedFor'
  BY <1>12 DEF ForeignGoes, procs, AskedFor, FreeOf, machine, StartupType
<1> QED
  BY <1>1, <1>2, <1>3, <1>4, <1>5, <1>6, <1>7, <1>8, <1>9, <1>10, <1>11, <1>12 DEF ProcessStep, Progress

-----------------------------------------------------------------------------
(* Nothing else is in the way: no foreign program, nothing broken, no newer     *)
(* schema.                                                                   *)
Calm == came = {} /\ ~broken /\ db <= SchemaVersion

(* A process that is bound to give way to another. *)
Doomed(i) == at[i] = "lost" \/ (at[i] = "apply" /\ seen[i] # db)

(* A process that goes on, or was ended by something else than another one. *)
Ahead(i) == (Alive(i) /\ ~Doomed(i)) \/ why[i] \in {"failed", "killed", "stopped"}

(* Ports are not shared, and a process that lost the race holds none. *)
PortsApart ==
  Calm => /\ \A i, j \in Slots : i # j => bound[i] \cap bound[j] = {}
          /\ \A i \in Slots : at[i] = "lost" => bound[i] = {}

(* Whoever gave way, or is about to, did so to a process that is ahead. *)
SomebodyAhead ==
  (Calm /\ \E i \in Slots : why[i] \in {"database", "port", "race"} \/ Doomed(i))
    => \E i \in Slots : Ahead(i)

(* What disturbs the calm stays. *)
LEMMA CalmBefore == StartupType /\ Stages /\ ProcessStep /\ Calm' => Calm
<1> SUFFICES ASSUME StartupType, Stages, Calm', ProcessStep PROVE Calm
  OBVIOUS
<1>1. CASE UNCHANGED <<procs, db, machine>>
  BY <1>1 DEF Calm, machine
<1>2. ASSUME NEW i \in Slots, Begin(i), UNCHANGED <<db, machine>> PROVE Calm
  BY <1>2 DEF Calm, machine
<1>3. ASSUME NEW i \in Slots, Halted(i), UNCHANGED <<db, machine>> PROVE Calm
  BY <1>3 DEF Calm, machine
<1>4. ASSUME NEW i \in Slots, Load(i) PROVE Calm
  <2>1. UNCHANGED <<db, machine>>
    BY <1>4 DEF Load
  <2> QED
    BY <2>1 DEF Calm, machine
<1>5. ASSUME NEW i \in Slots, ReadVersion(i) PROVE Calm
  <2>1. UNCHANGED <<db, machine>>
    BY <1>5 DEF ReadVersion
  <2> QED
    BY <2>1 DEF Calm, machine
<1>6. ASSUME NEW i \in Slots, Apply(i) PROVE Calm
  <2>1. (db' = db \/ db' = db + 1) /\ UNCHANGED machine
    BY <1>6 DEF Apply
  <2>2. db \in Nat
    BY DEF StartupType
  <2> QED
    BY <2>1, <2>2, VersionIsNat DEF Calm, machine
<1>7. ASSUME NEW i \in Slots, NEW p \in Ports, Ask(i, p) PROVE Calm
  <2>1. UNCHANGED <<db, machine>>
    BY <1>7 DEF Ask
  <2> QED
    BY <2>1 DEF Calm, machine
<1>8. ASSUME NEW i \in Slots, Bind(i) PROVE Calm
  <2>1. UNCHANGED <<db, machine>>
    BY <1>8, BindByPort
  <2> QED
    BY <2>1 DEF Calm, machine
<1>9. ASSUME NEW i \in Slots, GiveUp(i) PROVE Calm
  <2>1. UNCHANGED <<db, machine>>
    BY <1>9 DEF GiveUp
  <2> QED
    BY <2>1 DEF Calm, machine
<1>10. ASSUME NEW i \in Slots, Fail(i) PROVE Calm
  <2>1. UNCHANGED <<db, machine>>
    BY <1>10 DEF Fail
  <2> QED
    BY <2>1 DEF Calm, machine
<1>11. ASSUME NEW p \in Ports, ForeignComes(p) PROVE Calm
  BY <1>11 DEF ForeignComes, Calm
<1>12. ASSUME NEW p \in Ports, ForeignGoes(p) PROVE Calm
  BY <1>12 DEF ForeignGoes, Calm
<1> QED
  BY <1>1, <1>2, <1>3, <1>4, <1>5, <1>6, <1>7, <1>8, <1>9, <1>10, <1>11, <1>12 DEF ProcessStep, Progress

(* In the calm a process gives way at a bind only to one that has bound both.  *)
LEMMA LosesToSomebody ==
  ASSUME StartupType, Stages, PortsApart, Calm, NEW i \in Slots, at[i] = "bind", Loses(i)
  PROVE  bound[i] = {} /\ \E k \in Slots : k # i /\ at[k] \in {"bind", "serve"} /\ "smtp" \in bound[k]
<1>1. foreign = {}
  BY DEF Calm, StartupType
<1>2. CASE bound[i] = {}
  <2>1. PICK k \in Slots : "smtp" \in bound[k]
    BY <1>1, <1>2 DEF Loses, Listening
  <2>2. at[k] \in {"bind", "serve"}
    <3>1. at[k] \in {"bind", "lost", "serve"}
      BY <2>1 DEF Stages, StageOf
    <3>2. at[k] # "lost"
      BY <2>1 DEF PortsApart
    <3> QED
      BY <3>1, <3>2
  <2> QED
    BY <1>2, <2>1, <2>2
<1>3. CASE bound[i] = {"smtp"}
  <2>1. PICK k \in Slots : "http" \in bound[k]
    BY <1>1, <1>3 DEF Loses, Listening
  <2>2. bound[k] = Ports
    <3>1. bound[k] # {} /\ bound[k] # {"smtp"}
      BY <2>1
    <3> QED
      BY <3>1 DEF Stages, StageOf
  <2>3. k # i /\ "smtp" \in bound[k] \cap bound[i]
    BY <1>3, <2>1, <2>2 DEF Ports
  <2> QED
    BY <2>3 DEF PortsApart
<1> QED
  BY <1>2, <1>3 DEF Stages, StageOf

(* In the calm the ports stay apart. *)
LEMMA PortsApartNext == StartupType /\ Stages /\ PortsApart /\ ProcessStep => PortsApart'
<1> SUFFICES ASSUME StartupType, Stages, PortsApart, ProcessStep PROVE PortsApart'
  OBVIOUS
<1>1. CASE UNCHANGED <<procs, db, machine>>
  <2> SUFFICES ASSUME Calm' PROVE /\ \A j, k \in Slots : j # k => bound'[j] \cap bound'[k] = {}
                                  /\ \A j \in Slots : at'[j] = "lost" => bound'[j] = {}
    BY DEF PortsApart
  <2>0. Calm
    BY CalmBefore
  <2> QED
    BY <2>0, <1>1 DEF procs, machine, PortsApart
<1>2. ASSUME NEW i \in Slots, Begin(i), UNCHANGED <<db, machine>> PROVE PortsApart'
  <2> SUFFICES ASSUME Calm' PROVE /\ \A j, k \in Slots : j # k => bound'[j] \cap bound'[k] = {}
                                  /\ \A j \in Slots : at'[j] = "lost" => bound'[j] = {}
    BY DEF PortsApart
  <2>0. Calm
    BY CalmBefore
  <2>1. bound'[i] = {} \/ (bound'[i] = bound[i] /\ at'[i] # "lost")
    BY <1>2 DEF Begin, machine, StartupType
  <2>2. \A j \in Slots : j # i => at'[j] = at[j] /\ bound'[j] = bound[j]
    BY <1>2, OthersStay DEF Progress
  <2> QED
    BY <2>0, <2>1, <2>2 DEF PortsApart
<1>3. ASSUME NEW i \in Slots, Halted(i), UNCHANGED <<db, machine>> PROVE PortsApart'
  <2> SUFFICES ASSUME Calm' PROVE /\ \A j, k \in Slots : j # k => bound'[j] \cap bound'[k] = {}
                                  /\ \A j \in Slots : at'[j] = "lost" => bound'[j] = {}
    BY DEF PortsApart
  <2>0. Calm
    BY CalmBefore
  <2>1. bound'[i] = {} \/ (bound'[i] = bound[i] /\ at'[i] # "lost")
    BY <1>3 DEF Halted, End, ExitStatus, machine, StartupType
  <2>2. \A j \in Slots : j # i => at'[j] = at[j] /\ bound'[j] = bound[j]
    BY <1>3, OthersStay DEF Progress
  <2> QED
    BY <2>0, <2>1, <2>2 DEF PortsApart
<1>4. ASSUME NEW i \in Slots, Load(i) PROVE PortsApart'
  <2> SUFFICES ASSUME Calm' PROVE /\ \A j, k \in Slots : j # k => bound'[j] \cap bound'[k] = {}
                                  /\ \A j \in Slots : at'[j] = "lost" => bound'[j] = {}
    BY DEF PortsApart
  <2>0. Calm
    BY CalmBefore
  <2>1. bound'[i] = {} \/ (bound'[i] = bound[i] /\ at'[i] # "lost")
    BY <1>4 DEF Load, End, ExitStatus, Goto, machine, StartupType
  <2>2. \A j \in Slots : j # i => at'[j] = at[j] /\ bound'[j] = bound[j]
    BY <1>4, OthersStay DEF Progress
  <2> QED
    BY <2>0, <2>1, <2>2 DEF PortsApart
<1>5. ASSUME NEW i \in Slots, ReadVersion(i) PROVE PortsApart'
  <2> SUFFICES ASSUME Calm' PROVE /\ \A j, k \in Slots : j # k => bound'[j] \cap bound'[k] = {}
                                  /\ \A j \in Slots : at'[j] = "lost" => bound'[j] = {}
    BY DEF PortsApart
  <2>0. Calm
    BY CalmBefore
  <2>1. bound'[i] = {} \/ (bound'[i] = bound[i] /\ at'[i] # "lost")
    BY <1>5 DEF ReadVersion, End, ExitStatus, Goto, machine, StartupType
  <2>2. \A j \in Slots : j # i => at'[j] = at[j] /\ bound'[j] = bound[j]
    BY <1>5, OthersStay DEF Progress
  <2> QED
    BY <2>0, <2>1, <2>2 DEF PortsApart
<1>6. ASSUME NEW i \in Slots, Apply(i) PROVE PortsApart'
  <2> SUFFICES ASSUME Calm' PROVE /\ \A j, k \in Slots : j # k => bound'[j] \cap bound'[k] = {}
                                  /\ \A j \in Slots : at'[j] = "lost" => bound'[j] = {}
    BY DEF PortsApart
  <2>0. Calm
    BY CalmBefore
  <2>1. bound'[i] = {} \/ (bound'[i] = bound[i] /\ at'[i] # "lost")
    BY <1>6 DEF Apply, End, ExitStatus, Goto, machine, StartupType
  <2>2. \A j \in Slots : j # i => at'[j] = at[j] /\ bound'[j] = bound[j]
    BY <1>6, OthersStay DEF Progress
  <2> QED
    BY <2>0, <2>1, <2>2 DEF PortsApart
<1>7. ASSUME NEW i \in Slots, NEW p \in Ports, Ask(i, p) PROVE PortsApart'
  <2> SUFFICES ASSUME Calm' PROVE /\ \A j, k \in Slots : j # k => bound'[j] \cap bound'[k] = {}
                                  /\ \A j \in Slots : at'[j] = "lost" => bound'[j] = {}
    BY DEF PortsApart
  <2>0. Calm
    BY CalmBefore
  <2>1. bound'[i] = {} \/ (bound'[i] = bound[i] /\ at'[i] # "lost")
    BY <1>7 DEF Ask, Asking, Ports, End, ExitStatus, Goto, machine, StartupType
  <2>2. \A j \in Slots : j # i => at'[j] = at[j] /\ bound'[j] = bound[j]
    BY <1>7, OthersStay DEF Progress
  <2> QED
    BY <2>0, <2>1, <2>2 DEF PortsApart
<1>8. ASSUME NEW i \in Slots, Bind(i) PROVE PortsApart'
  <2> SUFFICES ASSUME Calm' PROVE /\ \A j, k \in Slots : j # k => bound'[j] \cap bound'[k] = {}
                                  /\ \A j \in Slots : at'[j] = "lost" => bound'[j] = {}
    BY DEF PortsApart
  <2>0. Calm
    BY CalmBefore
  <2>1. at[i] = "bind" /\ (Loses(i) \/ TakesSmtp(i) \/ TakesHttp(i))
    BY <1>8, BindByPort
  <2>2. CASE Loses(i)
    <3>1. bound[i] = {}
      BY <2>0, <2>1, <2>2, LosesToSomebody
    <3> QED
      BY <2>0, <2>2, <3>1 DEF Loses, PortsApart, StartupType
  <2>3. CASE TakesSmtp(i)
    <3>1. \A j \in Slots : "smtp" \notin bound[j]
      BY <2>3 DEF TakesSmtp, Listening
    <3>2. \A j \in Slots : bound'[j] = IF j = i THEN {"smtp"} ELSE bound[j]
      BY <2>3 DEF TakesSmtp, StartupType
    <3>3. \A j, k \in Slots : j # k => bound'[j] \cap bound'[k] = {}
      BY <2>0, <3>1, <3>2 DEF PortsApart
    <3>4. \A j \in Slots : at'[j] = "lost" => bound'[j] = {}
      BY <2>0, <2>1, <2>3, <3>2 DEF PortsApart, TakesSmtp
    <3> QED
      BY <3>3, <3>4
  <2>4. CASE TakesHttp(i)
    <3>1. \A j \in Slots : j # i => "http" \notin bound[j] /\ "smtp" \notin bound[j] /\ bound[j] \subseteq Ports
      BY <2>0, <2>4 DEF TakesHttp, PortsApart, Listening, StartupType
    <3>2. \A j \in Slots : j # i => bound[j] = {}
      BY <3>1 DEF Ports
    <3> QED
      BY <2>0, <2>4, <3>2 DEF TakesHttp, PortsApart, StartupType
  <2> QED
    BY <2>1, <2>2, <2>3, <2>4
<1>9. ASSUME NEW i \in Slots, GiveUp(i) PROVE PortsApart'
  <2> SUFFICES ASSUME Calm' PROVE /\ \A j, k \in Slots : j # k => bound'[j] \cap bound'[k] = {}
                                  /\ \A j \in Slots : at'[j] = "lost" => bound'[j] = {}
    BY DEF PortsApart
  <2>0. Calm
    BY CalmBefore
  <2>1. bound'[i] = {} \/ (bound'[i] = bound[i] /\ at'[i] # "lost")
    BY <1>9 DEF GiveUp, End, ExitStatus, machine, StartupType
  <2>2. \A j \in Slots : j # i => at'[j] = at[j] /\ bound'[j] = bound[j]
    BY <1>9, OthersStay DEF Progress
  <2> QED
    BY <2>0, <2>1, <2>2 DEF PortsApart
<1>10. ASSUME NEW i \in Slots, Fail(i) PROVE PortsApart'
  <2> SUFFICES ASSUME Calm' PROVE /\ \A j, k \in Slots : j # k => bound'[j] \cap bound'[k] = {}
                                  /\ \A j \in Slots : at'[j] = "lost" => bound'[j] = {}
    BY DEF PortsApart
  <2>0. Calm
    BY CalmBefore
  <2>1. bound'[i] = {} \/ (bound'[i] = bound[i] /\ at'[i] # "lost")
    BY <1>10 DEF Fail, End, ExitStatus, machine, StartupType
  <2>2. \A j \in Slots : j # i => at'[j] = at[j] /\ bound'[j] = bound[j]
    BY <1>10, OthersStay DEF Progress
  <2> QED
    BY <2>0, <2>1, <2>2 DEF PortsApart
<1>11. ASSUME NEW p \in Ports, ForeignComes(p) PROVE PortsApart'
  <2> SUFFICES ASSUME Calm' PROVE /\ \A j, k \in Slots : j # k => bound'[j] \cap bound'[k] = {}
                                  /\ \A j \in Slots : at'[j] = "lost" => bound'[j] = {}
    BY DEF PortsApart
  <2>0. Calm
    BY CalmBefore
  <2> QED
    BY <2>0, <1>11 DEF ForeignComes, procs, PortsApart
<1>12. ASSUME NEW p \in Ports, ForeignGoes(p) PROVE PortsApart'
  <2> SUFFICES ASSUME Calm' PROVE /\ \A j, k \in Slots : j # k => bound'[j] \cap bound'[k] = {}
                                  /\ \A j \in Slots : at'[j] = "lost" => bound'[j] = {}
    BY DEF PortsApart
  <2>0. Calm
    BY CalmBefore
  <2> QED
    BY <2>0, <1>12 DEF ForeignGoes, procs, PortsApart
<1> QED
  BY <1>1, <1>2, <1>3, <1>4, <1>5, <1>6, <1>7, <1>8, <1>9, <1>10, <1>11, <1>12 DEF ProcessStep, Progress

(* Somebody stays ahead: who ends a process's hopes is ahead of it, and who is   *)
(* ahead does not end by giving way.                                         *)
LEMMA SomebodyAheadNext ==
  StartupType /\ Stages /\ PortsApart /\ SomebodyAhead /\ ProcessStep => SomebodyAhead'
<1> SUFFICES ASSUME StartupType, Stages, PortsApart, SomebodyAhead, ProcessStep PROVE SomebodyAhead'
  OBVIOUS
<1>1. CASE UNCHANGED <<procs, db, machine>>
  <2> SUFFICES ASSUME Calm', \E j \in Slots : why'[j] \in {"database", "port", "race"} \/ Doomed(j)'
               PROVE  \E j \in Slots : Ahead(j)'
    BY DEF SomebodyAhead
  <2>0. Calm
    BY CalmBefore
  <2> QED
    BY <2>0, <1>1 DEF procs, machine, SomebodyAhead, Ahead, Doomed, Alive
<1>2. ASSUME NEW i \in Slots, Begin(i), UNCHANGED <<db, machine>> PROVE SomebodyAhead'
  <2> SUFFICES ASSUME Calm', \E j \in Slots : why'[j] \in {"database", "port", "race"} \/ Doomed(j)'
               PROVE  \E j \in Slots : Ahead(j)'
    BY DEF SomebodyAhead
  <2>0. Calm
    BY CalmBefore
  <2>1. Ahead(i)'
    BY <1>2 DEF Begin, Ahead, Doomed, Alive, Starting, StartupType
  <2> QED
    BY <2>1
<1>3. ASSUME NEW i \in Slots, Halted(i), UNCHANGED <<db, machine>> PROVE SomebodyAhead'
  <2> SUFFICES ASSUME Calm', \E j \in Slots : why'[j] \in {"database", "port", "race"} \/ Doomed(j)'
               PROVE  \E j \in Slots : Ahead(j)'
    BY DEF SomebodyAhead
  <2>0. Calm
    BY CalmBefore
  <2>1. Ahead(i)'
    BY <1>3 DEF Halted, End, ExitStatus, machine, Ahead, StartupType
  <2> QED
    BY <2>1
<1>4. ASSUME NEW i \in Slots, Load(i) PROVE SomebodyAhead'
  <2> SUFFICES ASSUME Calm', \E j \in Slots : why'[j] \in {"database", "port", "race"} \/ Doomed(j)'
               PROVE  \E j \in Slots : Ahead(j)'
    BY DEF SomebodyAhead
  <2>0. Calm
    BY CalmBefore
  <2>1. at'[i] = "read"
    BY <2>0, <1>4 DEF Load, Goto, Calm, StartupType
  <2>2. Ahead(i)'
    BY <2>1 DEF Ahead, Doomed, Alive, Starting
  <2> QED
    BY <2>2
<1>5. ASSUME NEW i \in Slots, ReadVersion(i) PROVE SomebodyAhead'
  <2> SUFFICES ASSUME Calm', \E j \in Slots : why'[j] \in {"database", "port", "race"} \/ Doomed(j)'
               PROVE  \E j \in Slots : Ahead(j)'
    BY DEF SomebodyAhead
  <2>0. Calm
    BY CalmBefore
  <2>1. ~(db > SchemaVersion)
    <3>1. db \in Nat /\ db <= SchemaVersion
      BY <2>0 DEF Calm, StartupType
    <3> QED
      BY <3>1, VersionIsNat
  <2>2. at'[i] \in {"ask smtp", "apply"} /\ seen'[i] = db /\ db' = db
    BY <2>1, <1>5 DEF ReadVersion, Goto, StartupType
  <2>3. Ahead(i)'
    BY <2>2 DEF Ahead, Doomed, Alive, Starting
  <2> QED
    BY <2>3
<1>6. ASSUME NEW i \in Slots, Apply(i) PROVE SomebodyAhead'
  <2> SUFFICES ASSUME Calm', \E j \in Slots : why'[j] \in {"database", "port", "race"} \/ Doomed(j)'
               PROVE  \E j \in Slots : Ahead(j)'
    BY DEF SomebodyAhead
  <2>0. Calm
    BY CalmBefore
  <2>1. CASE db # seen[i]
    <3>1. Doomed(i) /\ why[i] = "none"
      BY <1>6, <2>1 DEF Apply, Doomed, Stages, StageOf, Alive, Starting
    <3>2. PICK j \in Slots : Ahead(j)
      BY <2>0, <3>1 DEF SomebodyAhead
    <3>3. j # i
      BY <3>1, <3>2 DEF Ahead
    <3>4. at'[j] = at[j] /\ seen'[j] = seen[j] /\ why'[j] = why[j] /\ db' = db
      BY <1>6, <2>1, <3>3, OthersStay DEF Apply, Progress
    <3> QED
      BY <3>2, <3>4 DEF Ahead, Doomed, Alive
  <2>2. CASE db = seen[i]
    <3>1. db' = db + 1 /\ seen' = [seen EXCEPT ![i] = db + 1]
          /\ at' = [at EXCEPT ![i] = IF db + 1 = SchemaVersion THEN "ask smtp" ELSE "apply"]
      BY <1>6, <2>2 DEF Apply, Goto
    <3>2. seen'[i] = db' /\ at'[i] \in {"ask smtp", "apply"}
      BY <3>1 DEF StartupType
    <3>3. Ahead(i)'
      BY <3>2 DEF Ahead, Doomed, Alive, Starting
    <3> QED
      BY <3>3
  <2> QED
    BY <2>1, <2>2
<1>7. ASSUME NEW i \in Slots, NEW p \in Ports, Ask(i, p) PROVE SomebodyAhead'
  <2> SUFFICES ASSUME Calm', \E j \in Slots : why'[j] \in {"database", "port", "race"} \/ Doomed(j)'
               PROVE  \E j \in Slots : Ahead(j)'
    BY DEF SomebodyAhead
  <2>0. Calm
    BY CalmBefore
  <2>1. bound[i] = {} /\ at[i] \in {"ask smtp", "ask http"}
    BY <1>7 DEF Ask, Asking, Stages, StageOf
  <2>2. CASE Answers(p)
    <3>1. foreign = {}
      BY <2>0 DEF Calm, StartupType
    <3>2. PICK k \in Slots : p \in bound[k]
      BY <2>2, <3>1 DEF Answers, Listening
    <3>3. k # i
      BY <2>1, <3>2
    <3>4. at[k] \in {"bind", "serve"}
      <4>1. at[k] \in {"bind", "lost", "serve"}
        BY <3>2 DEF Stages, StageOf
      <4>2. at[k] # "lost"
        BY <2>0, <3>2 DEF PortsApart
      <4> QED
        BY <4>1, <4>2
    <3>5. at'[k] = at[k]
      BY <1>7, <3>3, OthersStay DEF Progress
    <3>6. Ahead(k)'
      BY <3>4, <3>5 DEF Ahead, Doomed, Alive, Starting
    <3> QED
      BY <3>6
  <2>3. CASE ~Answers(p)
    <3>1. at'[i] \in {"ask http", "bind"}
      BY <1>7, <2>3 DEF Ask, Goto, StartupType
    <3>2. Ahead(i)'
      BY <3>1 DEF Ahead, Doomed, Alive, Starting
    <3> QED
      BY <3>2
  <2> QED
    BY <2>2, <2>3
<1>8. ASSUME NEW i \in Slots, Bind(i) PROVE SomebodyAhead'
  <2> SUFFICES ASSUME Calm', \E j \in Slots : why'[j] \in {"database", "port", "race"} \/ Doomed(j)'
               PROVE  \E j \in Slots : Ahead(j)'
    BY DEF SomebodyAhead
  <2>0. Calm
    BY CalmBefore
  <2>1. at[i] = "bind" /\ (Loses(i) \/ TakesSmtp(i) \/ TakesHttp(i))
    BY <1>8, BindByPort
  <2>2. CASE Loses(i)
    <3>1. PICK k \in Slots : k # i /\ at[k] \in {"bind", "serve"}
      BY <2>0, <2>1, <2>2, LosesToSomebody
    <3>2. at'[k] = at[k]
      BY <2>2, <3>1 DEF Loses, StartupType
    <3>3. Ahead(k)'
      BY <3>1, <3>2 DEF Ahead, Doomed, Alive, Starting
    <3> QED
      BY <3>3
  <2>3. CASE TakesSmtp(i) \/ TakesHttp(i)
    <3>1. at'[i] \in {"bind", "serve"}
      BY <2>1, <2>3 DEF TakesSmtp, TakesHttp, StartupType
    <3>2. Ahead(i)'
      BY <3>1 DEF Ahead, Doomed, Alive, Starting
    <3> QED
      BY <3>2
  <2> QED
    BY <2>1, <2>2, <2>3
<1>9. ASSUME NEW i \in Slots, GiveUp(i) PROVE SomebodyAhead'
  <2> SUFFICES ASSUME Calm', \E j \in Slots : why'[j] \in {"database", "port", "race"} \/ Doomed(j)'
               PROVE  \E j \in Slots : Ahead(j)'
    BY DEF SomebodyAhead
  <2>0. Calm
    BY CalmBefore
  <2>1. Doomed(i) /\ why[i] = "none"
    BY <1>9 DEF GiveUp, Doomed, Stages, StageOf, Alive, Starting
  <2>2. PICK j \in Slots : Ahead(j)
    BY <2>0, <2>1 DEF SomebodyAhead
  <2>3. j # i
    BY <2>1, <2>2 DEF Ahead
  <2>4. at'[j] = at[j] /\ seen'[j] = seen[j] /\ why'[j] = why[j] /\ db' = db
    BY <1>9, <2>3, OthersStay DEF GiveUp, Progress
  <2> QED
    BY <2>2, <2>4 DEF Ahead, Doomed, Alive
<1>10. ASSUME NEW i \in Slots, Fail(i) PROVE SomebodyAhead'
  <2> SUFFICES ASSUME Calm', \E j \in Slots : why'[j] \in {"database", "port", "race"} \/ Doomed(j)'
               PROVE  \E j \in Slots : Ahead(j)'
    BY DEF SomebodyAhead
  <2>0. Calm
    BY CalmBefore
  <2>1. Ahead(i)'
    BY <1>10 DEF Fail, End, ExitStatus, machine, Ahead, StartupType
  <2> QED
    BY <2>1
<1>11. ASSUME NEW p \in Ports, ForeignComes(p) PROVE SomebodyAhead'
  <2> SUFFICES ASSUME Calm', \E j \in Slots : why'[j] \in {"database", "port", "race"} \/ Doomed(j)'
               PROVE  \E j \in Slots : Ahead(j)'
    BY DEF SomebodyAhead
  <2>0. Calm
    BY CalmBefore
  <2> QED
    BY <2>0, <1>11 DEF ForeignComes, procs, SomebodyAhead, Ahead, Doomed, Alive
<1>12. ASSUME NEW p \in Ports, ForeignGoes(p) PROVE SomebodyAhead'
  <2> SUFFICES ASSUME Calm', \E j \in Slots : why'[j] \in {"database", "port", "race"} \/ Doomed(j)'
               PROVE  \E j \in Slots : Ahead(j)'
    BY DEF SomebodyAhead
  <2>0. Calm
    BY CalmBefore
  <2> QED
    BY <2>0, <1>12 DEF ForeignGoes, procs, SomebodyAhead, Ahead, Doomed, Alive
<1> QED
  BY <1>1, <1>2, <1>3, <1>4, <1>5, <1>6, <1>7, <1>8, <1>9, <1>10, <1>11, <1>12 DEF ProcessStep, Progress

-----------------------------------------------------------------------------
(* The commands *)

(* How many steps a command has. *)
StepCount(name) == Len(Steps(name))

(* A command under way is at a step of its script. *)
UnderWay ==
  \/ cmd = Idle
  \/ /\ cmd \in [name : Commands, step : Nat \ {0}]
     /\ cmd.step <= StepCount(cmd.name)

(* Between its steps a command has what the ones before left: install that      *)
(* launchd's disabled flag is cleared, uninstall that no process runs, each    *)
(* unless the failure to do so was ignored, and uninstall that the unit is gone.*)
Halfway ==
  /\ cmd.name = "install" /\ manager = "launchd" /\ cmd.step >= 5 => enabled \/ "enable" \in ignored
  /\ cmd.name = "uninstall" /\ cmd.step >= 2 =>
       (~loaded /\ ~Alive(Job)) \/ ignored \cap {"bootout", "disable now"} # {}
  /\ cmd.name = "uninstall" /\ manager = "systemd" /\ cmd.step >= 3 => ~unit

(* The step that comes next, and how many there are. *)
Doing(mgr, name, step, of, run, kind) ==
  /\ manager = mgr /\ cmd.name = name /\ cmd.step = step
  /\ Steps(cmd.name)[cmd.step].run = run /\ Steps(cmd.name)[cmd.step].kind = kind
  /\ StepCount(cmd.name) = of

(* The scripts of module Service, step by step. *)
LaunchdInstall ==
  \/ Doing("launchd", "install", 1, 6, "no brew", "must")
  \/ Doing("launchd", "install", 2, 6, "write unit", "must")
  \/ Doing("launchd", "install", 3, 6, "prepare log", "must")
  \/ Doing("launchd", "install", 4, 6, "enable", "may")
  \/ Doing("launchd", "install", 5, 6, "bootout", "may")
  \/ Doing("launchd", "install", 6, 6, "bootstrap", "must")

LaunchdUninstall ==
  \/ Doing("launchd", "uninstall", 1, 2, "bootout", "may")
  \/ Doing("launchd", "uninstall", 2, 2, "remove unit", "must")

LaunchdStart ==
  \/ Doing("launchd", "start", 1, 3, "exists", "must")
  \/ Doing("launchd", "start", 2, 3, "bootstrap", "enough")
  \/ Doing("launchd", "start", 3, 3, "kickstart", "must")

LaunchdStop ==
  \/ Doing("launchd", "stop", 1, 1, "bootout", "must")

SystemdInstall ==
  \/ Doing("systemd", "install", 1, 4, "write unit", "must")
  \/ Doing("systemd", "install", 2, 4, "make home", "must")
  \/ Doing("systemd", "install", 3, 4, "reload", "must")
  \/ Doing("systemd", "install", 4, 4, "enable now", "must")

SystemdUninstall ==
  \/ Doing("systemd", "uninstall", 1, 4, "disable now", "may")
  \/ Doing("systemd", "uninstall", 2, 4, "remove unit", "must")
  \/ Doing("systemd", "uninstall", 3, 4, "reload", "may")
  \/ Doing("systemd", "uninstall", 4, 4, "reset failed", "may")

SystemdStart ==
  \/ Doing("systemd", "start", 1, 2, "exists", "must")
  \/ Doing("systemd", "start", 2, 2, "start", "must")

SystemdStop ==
  \/ Doing("systemd", "stop", 1, 1, "stop", "must")

Scripts ==
  \/ LaunchdInstall \/ LaunchdUninstall \/ LaunchdStart \/ LaunchdStop
  \/ SystemdInstall \/ SystemdUninstall \/ SystemdStart \/ SystemdStop

(* Each script is one command's under one manager. *)
LEMMA ScriptOf ==
  /\ LaunchdInstall => manager = "launchd" /\ cmd.name = "install"
  /\ LaunchdUninstall => manager = "launchd" /\ cmd.name = "uninstall"
  /\ LaunchdStart => manager = "launchd" /\ cmd.name = "start"
  /\ LaunchdStop => manager = "launchd" /\ cmd.name = "stop"
  /\ SystemdInstall => manager = "systemd" /\ cmd.name = "install"
  /\ SystemdUninstall => manager = "systemd" /\ cmd.name = "uninstall"
  /\ SystemdStart => manager = "systemd" /\ cmd.name = "start"
  /\ SystemdStop => manager = "systemd" /\ cmd.name = "stop"
<1>1. LaunchdInstall => manager = "launchd" /\ cmd.name = "install"
  BY DEF LaunchdInstall, Doing
<1>2. LaunchdUninstall => manager = "launchd" /\ cmd.name = "uninstall"
  BY DEF LaunchdUninstall, Doing
<1>3. LaunchdStart => manager = "launchd" /\ cmd.name = "start"
  BY DEF LaunchdStart, Doing
<1>4. LaunchdStop => manager = "launchd" /\ cmd.name = "stop"
  BY DEF LaunchdStop, Doing
<1>5. SystemdInstall => manager = "systemd" /\ cmd.name = "install"
  BY DEF SystemdInstall, Doing
<1>6. SystemdUninstall => manager = "systemd" /\ cmd.name = "uninstall"
  BY DEF SystemdUninstall, Doing
<1>7. SystemdStart => manager = "systemd" /\ cmd.name = "start"
  BY DEF SystemdStart, Doing
<1>8. SystemdStop => manager = "systemd" /\ cmd.name = "stop"
  BY DEF SystemdStop, Doing
<1> QED
  BY <1>1, <1>2, <1>3, <1>4, <1>5, <1>6, <1>7, <1>8

(* A command that is under way is at a step of its script. *)
LEMMA EveryStepIsInAScript ==
  ASSUME manager \in Managers, UnderWay, cmd # Idle
  PROVE  Scripts /\ StepCount(cmd.name) \in 1..6
<1>0. manager \in {"launchd", "systemd"} /\ cmd.name \in Commands /\ cmd.step \in Nat \ {0}
      /\ cmd.step <= StepCount(cmd.name)
  BY ServiceAssumption DEF UnderWay
<1>1. CASE manager = "launchd" /\ cmd.name = "install"
  <2> DEFINE script == Steps(cmd.name)
  <2>0. script = Steps(cmd.name) /\ Len(script) = StepCount(cmd.name)
    BY DEF StepCount
  <2>1. script = <<[run |-> "no brew", kind |-> "must"], [run |-> "write unit", kind |-> "must"],
                                [run |-> "prepare log", kind |-> "must"],
                                [run |-> "enable", kind |-> "may"],
                                [run |-> "bootout", kind |-> "may"],
                                [run |-> "bootstrap", kind |-> "must"]>>
    BY <1>1 DEF Steps, Launchd, Must, May, Enough
  <2> HIDE DEF script
  <2>2. Len(script) = 6
    BY <2>1
  <2>3. cmd.step \in 1..6
    BY <1>0, <2>0, <2>2
  <2>10. StepCount(cmd.name) \in 1..6
    BY <2>0, <2>2
  <2>4. CASE cmd.step = 1
    <3>1. script[1].run = "no brew" /\ script[1].kind = "must"
      BY <2>1
    <3>2. Doing("launchd", "install", 1, 6, "no brew", "must")
      BY <1>1, <2>0, <2>2, <2>4, <3>1 DEF Doing
    <3> QED
      BY <2>10, <3>2 DEF Scripts, LaunchdInstall
  <2>5. CASE cmd.step = 2
    <3>1. script[2].run = "write unit" /\ script[2].kind = "must"
      BY <2>1
    <3>2. Doing("launchd", "install", 2, 6, "write unit", "must")
      BY <1>1, <2>0, <2>2, <2>5, <3>1 DEF Doing
    <3> QED
      BY <2>10, <3>2 DEF Scripts, LaunchdInstall
  <2>6. CASE cmd.step = 3
    <3>1. script[3].run = "prepare log" /\ script[3].kind = "must"
      BY <2>1
    <3>2. Doing("launchd", "install", 3, 6, "prepare log", "must")
      BY <1>1, <2>0, <2>2, <2>6, <3>1 DEF Doing
    <3> QED
      BY <2>10, <3>2 DEF Scripts, LaunchdInstall
  <2>7. CASE cmd.step = 4
    <3>1. script[4].run = "enable" /\ script[4].kind = "may"
      BY <2>1
    <3>2. Doing("launchd", "install", 4, 6, "enable", "may")
      BY <1>1, <2>0, <2>2, <2>7, <3>1 DEF Doing
    <3> QED
      BY <2>10, <3>2 DEF Scripts, LaunchdInstall
  <2>8. CASE cmd.step = 5
    <3>1. script[5].run = "bootout" /\ script[5].kind = "may"
      BY <2>1
    <3>2. Doing("launchd", "install", 5, 6, "bootout", "may")
      BY <1>1, <2>0, <2>2, <2>8, <3>1 DEF Doing
    <3> QED
      BY <2>10, <3>2 DEF Scripts, LaunchdInstall
  <2>9. CASE cmd.step = 6
    <3>1. script[6].run = "bootstrap" /\ script[6].kind = "must"
      BY <2>1
    <3>2. Doing("launchd", "install", 6, 6, "bootstrap", "must")
      BY <1>1, <2>0, <2>2, <2>9, <3>1 DEF Doing
    <3> QED
      BY <2>10, <3>2 DEF Scripts, LaunchdInstall
  <2> QED
    BY <2>3, <2>4, <2>5, <2>6, <2>7, <2>8, <2>9
<1>2. CASE manager = "launchd" /\ cmd.name = "uninstall"
  <2> DEFINE script == Steps(cmd.name)
  <2>0. script = Steps(cmd.name) /\ Len(script) = StepCount(cmd.name)
    BY DEF StepCount
  <2>1. script = <<[run |-> "bootout", kind |-> "may"], [run |-> "remove unit", kind |-> "must"]>>
    BY <1>2 DEF Steps, Launchd, Must, May, Enough
  <2> HIDE DEF script
  <2>2. Len(script) = 2
    BY <2>1
  <2>3. cmd.step \in 1..2
    BY <1>0, <2>0, <2>2
  <2>10. StepCount(cmd.name) \in 1..6
    BY <2>0, <2>2
  <2>4. CASE cmd.step = 1
    <3>1. script[1].run = "bootout" /\ script[1].kind = "may"
      BY <2>1
    <3>2. Doing("launchd", "uninstall", 1, 2, "bootout", "may")
      BY <1>2, <2>0, <2>2, <2>4, <3>1 DEF Doing
    <3> QED
      BY <2>10, <3>2 DEF Scripts, LaunchdUninstall
  <2>5. CASE cmd.step = 2
    <3>1. script[2].run = "remove unit" /\ script[2].kind = "must"
      BY <2>1
    <3>2. Doing("launchd", "uninstall", 2, 2, "remove unit", "must")
      BY <1>2, <2>0, <2>2, <2>5, <3>1 DEF Doing
    <3> QED
      BY <2>10, <3>2 DEF Scripts, LaunchdUninstall
  <2> QED
    BY <2>3, <2>4, <2>5
<1>3. CASE manager = "launchd" /\ cmd.name = "start"
  <2> DEFINE script == Steps(cmd.name)
  <2>0. script = Steps(cmd.name) /\ Len(script) = StepCount(cmd.name)
    BY DEF StepCount
  <2>1. script = <<[run |-> "exists", kind |-> "must"], [run |-> "bootstrap", kind |-> "enough"],
                                [run |-> "kickstart", kind |-> "must"]>>
    BY <1>3 DEF Steps, Launchd, Must, May, Enough
  <2> HIDE DEF script
  <2>2. Len(script) = 3
    BY <2>1
  <2>3. cmd.step \in 1..3
    BY <1>0, <2>0, <2>2
  <2>10. StepCount(cmd.name) \in 1..6
    BY <2>0, <2>2
  <2>4. CASE cmd.step = 1
    <3>1. script[1].run = "exists" /\ script[1].kind = "must"
      BY <2>1
    <3>2. Doing("launchd", "start", 1, 3, "exists", "must")
      BY <1>3, <2>0, <2>2, <2>4, <3>1 DEF Doing
    <3> QED
      BY <2>10, <3>2 DEF Scripts, LaunchdStart
  <2>5. CASE cmd.step = 2
    <3>1. script[2].run = "bootstrap" /\ script[2].kind = "enough"
      BY <2>1
    <3>2. Doing("launchd", "start", 2, 3, "bootstrap", "enough")
      BY <1>3, <2>0, <2>2, <2>5, <3>1 DEF Doing
    <3> QED
      BY <2>10, <3>2 DEF Scripts, LaunchdStart
  <2>6. CASE cmd.step = 3
    <3>1. script[3].run = "kickstart" /\ script[3].kind = "must"
      BY <2>1
    <3>2. Doing("launchd", "start", 3, 3, "kickstart", "must")
      BY <1>3, <2>0, <2>2, <2>6, <3>1 DEF Doing
    <3> QED
      BY <2>10, <3>2 DEF Scripts, LaunchdStart
  <2> QED
    BY <2>3, <2>4, <2>5, <2>6
<1>4. CASE manager = "launchd" /\ cmd.name = "stop"
  <2> DEFINE script == Steps(cmd.name)
  <2>0. script = Steps(cmd.name) /\ Len(script) = StepCount(cmd.name)
    BY DEF StepCount
  <2>1. script = <<[run |-> "bootout", kind |-> "must"]>>
    BY <1>4 DEF Steps, Launchd, Must, May, Enough
  <2> HIDE DEF script
  <2>2. Len(script) = 1
    BY <2>1
  <2>3. cmd.step \in 1..1
    BY <1>0, <2>0, <2>2
  <2>10. StepCount(cmd.name) \in 1..6
    BY <2>0, <2>2
  <2>4. CASE cmd.step = 1
    <3>1. script[1].run = "bootout" /\ script[1].kind = "must"
      BY <2>1
    <3>2. Doing("launchd", "stop", 1, 1, "bootout", "must")
      BY <1>4, <2>0, <2>2, <2>4, <3>1 DEF Doing
    <3> QED
      BY <2>10, <3>2 DEF Scripts, LaunchdStop
  <2> QED
    BY <2>3, <2>4
<1>5. CASE manager = "systemd" /\ cmd.name = "install"
  <2> DEFINE script == Steps(cmd.name)
  <2>0. script = Steps(cmd.name) /\ Len(script) = StepCount(cmd.name)
    BY DEF StepCount
  <2>1. script = <<[run |-> "write unit", kind |-> "must"], [run |-> "make home", kind |-> "must"],
                                [run |-> "reload", kind |-> "must"],
                                [run |-> "enable now", kind |-> "must"]>>
    BY <1>5 DEF Steps, Systemd, Must, May, Enough
  <2> HIDE DEF script
  <2>2. Len(script) = 4
    BY <2>1
  <2>3. cmd.step \in 1..4
    BY <1>0, <2>0, <2>2
  <2>10. StepCount(cmd.name) \in 1..6
    BY <2>0, <2>2
  <2>4. CASE cmd.step = 1
    <3>1. script[1].run = "write unit" /\ script[1].kind = "must"
      BY <2>1
    <3>2. Doing("systemd", "install", 1, 4, "write unit", "must")
      BY <1>5, <2>0, <2>2, <2>4, <3>1 DEF Doing
    <3> QED
      BY <2>10, <3>2 DEF Scripts, SystemdInstall
  <2>5. CASE cmd.step = 2
    <3>1. script[2].run = "make home" /\ script[2].kind = "must"
      BY <2>1
    <3>2. Doing("systemd", "install", 2, 4, "make home", "must")
      BY <1>5, <2>0, <2>2, <2>5, <3>1 DEF Doing
    <3> QED
      BY <2>10, <3>2 DEF Scripts, SystemdInstall
  <2>6. CASE cmd.step = 3
    <3>1. script[3].run = "reload" /\ script[3].kind = "must"
      BY <2>1
    <3>2. Doing("systemd", "install", 3, 4, "reload", "must")
      BY <1>5, <2>0, <2>2, <2>6, <3>1 DEF Doing
    <3> QED
      BY <2>10, <3>2 DEF Scripts, SystemdInstall
  <2>7. CASE cmd.step = 4
    <3>1. script[4].run = "enable now" /\ script[4].kind = "must"
      BY <2>1
    <3>2. Doing("systemd", "install", 4, 4, "enable now", "must")
      BY <1>5, <2>0, <2>2, <2>7, <3>1 DEF Doing
    <3> QED
      BY <2>10, <3>2 DEF Scripts, SystemdInstall
  <2> QED
    BY <2>3, <2>4, <2>5, <2>6, <2>7
<1>6. CASE manager = "systemd" /\ cmd.name = "uninstall"
  <2> DEFINE script == Steps(cmd.name)
  <2>0. script = Steps(cmd.name) /\ Len(script) = StepCount(cmd.name)
    BY DEF StepCount
  <2>1. script = <<[run |-> "disable now", kind |-> "may"], [run |-> "remove unit", kind |-> "must"],
                                [run |-> "reload", kind |-> "may"],
                                [run |-> "reset failed", kind |-> "may"]>>
    BY <1>6 DEF Steps, Systemd, Must, May, Enough
  <2> HIDE DEF script
  <2>2. Len(script) = 4
    BY <2>1
  <2>3. cmd.step \in 1..4
    BY <1>0, <2>0, <2>2
  <2>10. StepCount(cmd.name) \in 1..6
    BY <2>0, <2>2
  <2>4. CASE cmd.step = 1
    <3>1. script[1].run = "disable now" /\ script[1].kind = "may"
      BY <2>1
    <3>2. Doing("systemd", "uninstall", 1, 4, "disable now", "may")
      BY <1>6, <2>0, <2>2, <2>4, <3>1 DEF Doing
    <3> QED
      BY <2>10, <3>2 DEF Scripts, SystemdUninstall
  <2>5. CASE cmd.step = 2
    <3>1. script[2].run = "remove unit" /\ script[2].kind = "must"
      BY <2>1
    <3>2. Doing("systemd", "uninstall", 2, 4, "remove unit", "must")
      BY <1>6, <2>0, <2>2, <2>5, <3>1 DEF Doing
    <3> QED
      BY <2>10, <3>2 DEF Scripts, SystemdUninstall
  <2>6. CASE cmd.step = 3
    <3>1. script[3].run = "reload" /\ script[3].kind = "may"
      BY <2>1
    <3>2. Doing("systemd", "uninstall", 3, 4, "reload", "may")
      BY <1>6, <2>0, <2>2, <2>6, <3>1 DEF Doing
    <3> QED
      BY <2>10, <3>2 DEF Scripts, SystemdUninstall
  <2>7. CASE cmd.step = 4
    <3>1. script[4].run = "reset failed" /\ script[4].kind = "may"
      BY <2>1
    <3>2. Doing("systemd", "uninstall", 4, 4, "reset failed", "may")
      BY <1>6, <2>0, <2>2, <2>7, <3>1 DEF Doing
    <3> QED
      BY <2>10, <3>2 DEF Scripts, SystemdUninstall
  <2> QED
    BY <2>3, <2>4, <2>5, <2>6, <2>7
<1>7. CASE manager = "systemd" /\ cmd.name = "start"
  <2> DEFINE script == Steps(cmd.name)
  <2>0. script = Steps(cmd.name) /\ Len(script) = StepCount(cmd.name)
    BY DEF StepCount
  <2>1. script = <<[run |-> "exists", kind |-> "must"], [run |-> "start", kind |-> "must"]>>
    BY <1>7 DEF Steps, Systemd, Must, May, Enough
  <2> HIDE DEF script
  <2>2. Len(script) = 2
    BY <2>1
  <2>3. cmd.step \in 1..2
    BY <1>0, <2>0, <2>2
  <2>10. StepCount(cmd.name) \in 1..6
    BY <2>0, <2>2
  <2>4. CASE cmd.step = 1
    <3>1. script[1].run = "exists" /\ script[1].kind = "must"
      BY <2>1
    <3>2. Doing("systemd", "start", 1, 2, "exists", "must")
      BY <1>7, <2>0, <2>2, <2>4, <3>1 DEF Doing
    <3> QED
      BY <2>10, <3>2 DEF Scripts, SystemdStart
  <2>5. CASE cmd.step = 2
    <3>1. script[2].run = "start" /\ script[2].kind = "must"
      BY <2>1
    <3>2. Doing("systemd", "start", 2, 2, "start", "must")
      BY <1>7, <2>0, <2>2, <2>5, <3>1 DEF Doing
    <3> QED
      BY <2>10, <3>2 DEF Scripts, SystemdStart
  <2> QED
    BY <2>3, <2>4, <2>5
<1>8. CASE manager = "systemd" /\ cmd.name = "stop"
  <2> DEFINE script == Steps(cmd.name)
  <2>0. script = Steps(cmd.name) /\ Len(script) = StepCount(cmd.name)
    BY DEF StepCount
  <2>1. script = <<[run |-> "stop", kind |-> "must"]>>
    BY <1>8 DEF Steps, Systemd, Must, May, Enough
  <2> HIDE DEF script
  <2>2. Len(script) = 1
    BY <2>1
  <2>3. cmd.step \in 1..1
    BY <1>0, <2>0, <2>2
  <2>10. StepCount(cmd.name) \in 1..6
    BY <2>0, <2>2
  <2>4. CASE cmd.step = 1
    <3>1. script[1].run = "stop" /\ script[1].kind = "must"
      BY <2>1
    <3>2. Doing("systemd", "stop", 1, 1, "stop", "must")
      BY <1>8, <2>0, <2>2, <2>4, <3>1 DEF Doing
    <3> QED
      BY <2>10, <3>2 DEF Scripts, SystemdStop
  <2> QED
    BY <2>3, <2>4
<1> QED
  BY <1>0, <1>1, <1>2, <1>3, <1>4, <1>5, <1>6, <1>7, <1>8 DEF Commands

(* What a step that works does to the registration. *)
LEMMA EffectOnTypes ==
  ASSUME TypeOK, NEW r, Can(r), Effect(r), r = "bootstrap" => manager = "launchd"
  PROVE  unit' \in BOOLEAN /\ enabled' \in BOOLEAN /\ loaded' \in BOOLEAN /\ starts' \in 0..Burst
<1>0. unit \in BOOLEAN /\ enabled \in BOOLEAN /\ loaded \in BOOLEAN /\ starts \in 0..Burst /\ Burst \in Nat
  BY ServiceAssumption DEF TypeOK
<1>1. CASE r \in {"bootstrap", "enable now", "start"}
  <2>1. StartJob /\ (manager = "launchd" \/ MayStart) => starts' \in 0..Burst
    <3>1. ASSUME manager = "launchd", StartJob PROVE starts' \in 0..Burst
      BY <1>0, <3>1 DEF StartJob
    <3>2. ASSUME MayStart, StartJob, manager # "launchd" PROVE starts' \in 0..Burst
      <4>1. starts' = starts \/ (starts' = starts + 1 /\ starts < Burst)
        BY <3>2 DEF StartJob, MayStart
      <4> QED
        BY <1>0, <4>1
    <3> QED
      BY <3>1, <3>2
  <2>2. CASE r = "bootstrap" /\ enabled
    BY <1>0, <2>1, <2>2 DEF Effect
  <2>3. CASE r = "bootstrap" /\ ~enabled
    BY <1>0, <2>3 DEF Effect
  <2>4. CASE r = "enable now" \/ r = "start"
    BY <1>0, <2>1, <2>4 DEF Effect, Can
  <2> QED
    BY <1>1, <2>2, <2>3, <2>4
<1>2. CASE r \in {"write unit", "remove unit", "enable", "bootout", "stop"}
  BY <1>0, <1>2 DEF Effect
<1>3. CASE r \in {"disable now", "kickstart", "reset failed"}
  <2>1. 0 \in 0..Burst
    BY <1>0
  <2>2. CASE r = "disable now"
    BY <1>0, <2>2 DEF Effect
  <2>3. CASE r = "kickstart"
    BY <1>0, <2>3 DEF Effect
  <2>4. CASE r = "reset failed"
    BY <1>0, <2>1, <2>4 DEF Effect
  <2> QED
    BY <1>3, <2>2, <2>3, <2>4
<1>4. CASE r \notin {"bootstrap", "enable now", "start", "write unit", "remove unit", "enable", "bootout", "stop",
                    "disable now", "kickstart", "reset failed"}
  BY <1>0, <1>4 DEF Effect
<1> QED
  BY <1>1, <1>2, <1>3, <1>4

(* What a failure makes of the command, in terms of how many steps there are. *)
LEMMA FailureByCount ==
  ASSUME StepFails
  PROVE  \/ cmd' = Idle
         \/ cmd.step # StepCount(cmd.name) /\ cmd' = [cmd EXCEPT !.step = @ + 1]
<1> DEFINE s == Steps(cmd.name)[cmd.step]
<1>1. CASE s.kind = "must"
  BY <1>1 DEF StepFails
<1>2. CASE s.kind # "must"
  <2>1. cmd' = IF cmd.step = StepCount(cmd.name) THEN Idle ELSE [cmd EXCEPT !.step = @ + 1]
    BY <1>2 DEF StepFails, StepCount
  <2> QED
    BY <2>1
<1> QED
  BY <1>1, <1>2

(* A command goes on to its next step, or is over. *)
LEMMA AdvanceUnderWay ==
  ASSUME manager \in Managers, UnderWay, cmd # Idle, manager' = manager,
         \/ cmd' = Idle
         \/ cmd.step # StepCount(cmd.name) /\ cmd' = [cmd EXCEPT !.step = @ + 1]
  PROVE  UnderWay'
<1>1. cmd.name \in Commands /\ cmd.step \in Nat \ {0} /\ cmd.step <= StepCount(cmd.name)
  BY DEF UnderWay
<1>2. CASE cmd' = Idle
  BY <1>2 DEF UnderWay
<1>3. CASE cmd.step # StepCount(cmd.name) /\ cmd' = [cmd EXCEPT !.step = @ + 1]
  <2>1. cmd'.name = cmd.name /\ cmd'.step = cmd.step + 1 /\ cmd' \in [name : Commands, step : Nat \ {0}]
    BY <1>3 DEF UnderWay
  <2>2. StepCount(cmd.name)' = StepCount(cmd.name)
    BY <2>1 DEF StepCount, Steps, Launchd, Systemd
  <2>3. StepCount(cmd.name) \in Nat
    BY EveryStepIsInAScript
  <2>4. cmd'.step <= StepCount(cmd.name)
    BY <1>1, <1>3, <2>1, <2>3
  <2> QED
    BY <2>1, <2>2, <2>4 DEF UnderWay
<1> QED
  BY <1>2, <1>3

(* Every script has a step, and no script more than six. *)
LEMMA EveryScriptEnds ==
  ASSUME manager \in Managers, NEW name \in Commands
  PROVE  StepCount(name) \in 1..6
<1> DEFINE script == Steps(name)
<1>0. manager \in {"launchd", "systemd"} /\ name \in {"install", "uninstall", "start", "stop"}
  BY ServiceAssumption DEF Commands
<1>1. CASE manager = "launchd" /\ name = "install"
  <2>1. \E a, b, c, d, e, f : script = <<a, b, c, d, e, f>>
    BY <1>1 DEF Steps, Launchd
  <2> HIDE DEF script
  <2>2. Len(script) = 6
    BY <2>1
  <2> QED
    BY <2>2 DEF script, StepCount
<1>2. CASE manager = "launchd" /\ name = "uninstall"
  <2>1. \E a, b : script = <<a, b>>
    BY <1>2 DEF Steps, Launchd
  <2> HIDE DEF script
  <2>2. Len(script) = 2
    BY <2>1
  <2> QED
    BY <2>2 DEF script, StepCount
<1>3. CASE manager = "launchd" /\ name = "start"
  <2>1. \E a, b, c : script = <<a, b, c>>
    BY <1>3 DEF Steps, Launchd
  <2> HIDE DEF script
  <2>2. Len(script) = 3
    BY <2>1
  <2> QED
    BY <2>2 DEF script, StepCount
<1>4. CASE manager = "launchd" /\ name = "stop"
  <2>1. \E a : script = <<a>>
    BY <1>4 DEF Steps, Launchd
  <2> HIDE DEF script
  <2>2. Len(script) = 1
    BY <2>1
  <2> QED
    BY <2>2 DEF script, StepCount
<1>5. CASE manager = "systemd" /\ name = "install"
  <2>1. \E a, b, c, d : script = <<a, b, c, d>>
    BY <1>5 DEF Steps, Systemd
  <2> HIDE DEF script
  <2>2. Len(script) = 4
    BY <2>1
  <2> QED
    BY <2>2 DEF script, StepCount
<1>6. CASE manager = "systemd" /\ name = "uninstall"
  <2>1. \E a, b, c, d : script = <<a, b, c, d>>
    BY <1>6 DEF Steps, Systemd
  <2> HIDE DEF script
  <2>2. Len(script) = 4
    BY <2>1
  <2> QED
    BY <2>2 DEF script, StepCount
<1>7. CASE manager = "systemd" /\ name = "start"
  <2>1. \E a, b : script = <<a, b>>
    BY <1>7 DEF Steps, Systemd
  <2> HIDE DEF script
  <2>2. Len(script) = 2
    BY <2>1
  <2> QED
    BY <2>2 DEF script, StepCount
<1>8. CASE manager = "systemd" /\ name = "stop"
  <2>1. \E a : script = <<a>>
    BY <1>8 DEF Steps, Systemd
  <2> HIDE DEF script
  <2>2. Len(script) = 1
    BY <2>1
  <2> QED
    BY <2>2 DEF script, StepCount
<1> QED
  BY <1>0, <1>1, <1>2, <1>3, <1>4, <1>5, <1>6, <1>7, <1>8

(* The types of the registration and of what the user does. *)
RegistrationType ==
  /\ manager \in Managers /\ brew \in BOOLEAN
  /\ unit \in BOOLEAN /\ enabled \in BOOLEAN /\ loaded \in BOOLEAN
  /\ starts \in 0..Burst
  /\ acts \in Nat /\ crashes \in Nat

(* With a command that is under way in its script they are all the types. *)
LEMMA TypeParts == StartupType /\ RegistrationType /\ UnderWay => TypeOK
<1> SUFFICES ASSUME StartupType, RegistrationType, UnderWay
             PROVE  cmd.name \in Commands \cup {"none"} /\ cmd.step \in 0..6
  BY DEF RegistrationType, TypeOK
<1>1. CASE cmd = Idle
  BY <1>1 DEF Idle
<1>2. CASE cmd # Idle
  <2>1. cmd.name \in Commands /\ cmd.step \in Nat /\ cmd.step <= StepCount(cmd.name)
    BY <1>2 DEF UnderWay
  <2>2. StepCount(cmd.name) \in 1..6
    BY <2>1, EveryScriptEnds DEF RegistrationType
  <2> QED
    BY <2>1, <2>2
<1> QED
  BY <1>1, <1>2

(* A start of the job that may take place stays under the limit. *)
LEMMA StartsStayBounded ==
  ASSUME RegistrationType, MayStart, StartJob
  PROVE  starts' \in 0..Burst
<1>1. starts \in 0..Burst /\ Burst \in Nat
  BY ServiceAssumption DEF RegistrationType
<1>2. starts' = starts \/ (starts' = starts + 1 /\ starts < Burst)
  BY DEF StartJob, MayStart
<1> QED
  BY <1>1, <1>2

(* Every step keeps a command in its script and the registration typed. *)
LEMMA RegistrationNext ==
  RegistrationType /\ UnderWay /\ TypeOK /\ [Next]_vars => RegistrationType' /\ UnderWay'
<1> SUFFICES ASSUME RegistrationType, UnderWay, TypeOK, [Next]_vars PROVE RegistrationType' /\ UnderWay'
  OBVIOUS
<1>u. ASSUME UNCHANGED <<manager, cmd>> PROVE UnderWay'
  BY <1>u DEF UnderWay, StepCount, Steps, Launchd, Systemd
<1>a. Act => acts' \in Nat
  BY DEF Act, RegistrationType
<1>1. ASSUME NEW i \in Slots, Proceed(i) PROVE RegistrationType' /\ UnderWay'
  BY <1>1, <1>a, <1>u DEF Proceed, RegistrationType, registration, bounds
<1>2. ASSUME NEW i \in Slots, Run(i) PROVE RegistrationType' /\ UnderWay'
  BY <1>2, <1>a, <1>u DEF Run, RegistrationType, registration, bounds
<1>3. ASSUME NEW i \in Slots, Interrupt(i) PROVE RegistrationType' /\ UnderWay'
  BY <1>3, <1>a, <1>u DEF Interrupt, RegistrationType, registration, bounds
<1>4. ASSUME NEW i \in Slots, Crash(i) PROVE RegistrationType' /\ UnderWay'
  BY <1>4, <1>a, <1>u DEF Crash, RegistrationType, registration, bounds
<1>5. ASSUME NEW name \in Commands, Command(name) PROVE RegistrationType' /\ UnderWay'
  <2>1. cmd' = [name |-> name, step |-> 1] /\ UNCHANGED <<registration, crashes>> /\ Act
    BY <1>5 DEF Command
  <2>2. StepCount(name) \in 1..6
    BY EveryScriptEnds DEF RegistrationType
  <2>3. StepCount(name)' = StepCount(name)
    BY <2>1 DEF StepCount, Steps, Launchd, Systemd, registration
  <2>4. UnderWay'
    BY <2>1, <2>2, <2>3 DEF UnderWay
  <2> QED
    BY <2>1, <2>4, <1>a DEF registration, RegistrationType
<1>6. CASE StepWorks
  <2> DEFINE s == Steps(cmd.name)[cmd.step]
  <2>1. /\ cmd # Idle /\ Can(s.run) /\ Effect(s.run) /\ Advance(s)
        /\ UNCHANGED <<manager, brew, bounds>>
    BY <1>6 DEF StepWorks
  <2>2. s.run = "bootstrap" => manager = "launchd"
    <3>1. Scripts
      BY <2>1, EveryStepIsInAScript DEF RegistrationType
    <3>2. CASE LaunchdInstall \/ LaunchdUninstall \/ LaunchdStart \/ LaunchdStop
      BY <3>2, ScriptOf
    <3>3. SystemdInstall => s.run # "bootstrap"
      BY DEF SystemdInstall, Doing
    <3>4. SystemdUninstall => s.run # "bootstrap"
      BY DEF SystemdUninstall, Doing
    <3>5. SystemdStart \/ SystemdStop => s.run # "bootstrap"
      BY DEF SystemdStart, SystemdStop, Doing
    <3> QED
      BY <3>1, <3>2, <3>3, <3>4, <3>5 DEF Scripts
  <2>3. unit' \in BOOLEAN /\ enabled' \in BOOLEAN /\ loaded' \in BOOLEAN /\ starts' \in 0..Burst
    BY <2>1, <2>2, EffectOnTypes
  <2>4. \/ cmd' = Idle
        \/ cmd.step # StepCount(cmd.name) /\ cmd' = [cmd EXCEPT !.step = cmd.step + 1]
    <3>1. cmd' = IF cmd.step = StepCount(cmd.name) \/ s.kind = "enough" THEN Idle
                 ELSE [cmd EXCEPT !.step = cmd.step + 1]
      BY <2>1 DEF Advance, StepCount
    <3> QED
      BY <3>1
  <2>5. UnderWay'
    <3>1. manager \in Managers /\ manager' = manager /\ cmd # Idle
      BY <2>1 DEF RegistrationType
    <3> QED
      BY <2>4, <3>1, AdvanceUnderWay
  <2> QED
    BY <2>1, <2>3, <2>5 DEF RegistrationType, bounds
<1>7. CASE StepFails
  <2>1. cmd # Idle /\ UNCHANGED <<registration, bounds>>
    BY <1>7 DEF StepFails
  <2>2. UnderWay'
    <3>1. manager \in Managers /\ manager' = manager
      BY <2>1 DEF RegistrationType, registration
    <3>2. \/ cmd' = Idle
          \/ cmd.step # StepCount(cmd.name) /\ cmd' = [cmd EXCEPT !.step = cmd.step + 1]
      BY <1>7, FailureByCount
    <3> QED
      BY <2>1, <3>1, <3>2, AdvanceUnderWay
  <2> QED
    BY <2>1, <2>2 DEF RegistrationType, registration, bounds
<1>8. CASE Restart
  <2>1. StartJob /\ MayStart /\ UNCHANGED <<manager, brew, unit, enabled, loaded, cmd, bounds>>
    BY <1>8 DEF Restart
  <2> QED
    BY <2>1, <1>u, StartsStayBounded DEF RegistrationType, bounds
<1>9. CASE Relogin
  <2>1. /\ Act /\ loaded' = (unit /\ enabled) /\ (starts' = 1 \/ starts' = 0)
        /\ UNCHANGED <<manager, brew, unit, enabled, cmd, crashes>>
    BY <1>9 DEF Relogin
  <2>2. 0 \in 0..Burst /\ 1 \in 0..Burst
    BY ServiceAssumption
  <2> QED
    BY <2>1, <2>2, <1>a, <1>u DEF RegistrationType
<1>10. CASE Disable
  BY <1>10, <1>a, <1>u DEF Disable, RegistrationType, registration, bounds
<1>11. CASE Foreign
  BY <1>11, <1>a, <1>u DEF Foreign, RegistrationType, registration, bounds
<1>12. CASE UNCHANGED vars
  BY <1>12, <1>a, <1>u DEF vars, RegistrationType, registration, bounds
<1> QED
  BY <1>1, <1>2, <1>3, <1>4, <1>5, <1>6, <1>7, <1>8, <1>9, <1>10, <1>11, <1>12 DEF Next

(* What a command is about to do. *)
Now == Steps(cmd.name)[cmd.step]

(* A command that is not over after one of its steps goes on to the next. *)
LEMMA GoesOn ==
  ASSUME TypeOK, UnderWay, StepWorks \/ StepFails, cmd' # Idle
  PROVE  /\ cmd # Idle /\ Scripts /\ manager' = manager
         /\ cmd'.name = cmd.name /\ cmd'.step = cmd.step + 1
         /\ cmd.step \in Nat /\ cmd.step # StepCount(cmd.name)
<1>1. cmd # Idle /\ manager' = manager
  BY DEF StepWorks, StepFails, registration
<1>2. cmd.step # StepCount(cmd.name) /\ cmd' = [cmd EXCEPT !.step = cmd.step + 1]
  <2>1. CASE StepWorks
    <3>1. cmd' = IF cmd.step = StepCount(cmd.name) \/ Now.kind = "enough" THEN Idle
                 ELSE [cmd EXCEPT !.step = cmd.step + 1]
      BY <2>1 DEF StepWorks, Advance, StepCount, Now
    <3> QED
      BY <3>1
  <2>2. CASE StepFails
    BY <2>2, FailureByCount
  <2> QED
    BY <2>1, <2>2
<1>3. Scripts
  BY <1>1, EveryStepIsInAScript DEF TypeOK
<1>4. cmd \in [name : Commands, step : Nat \ {0}]
  BY <1>1 DEF UnderWay
<1> QED
  BY <1>1, <1>2, <1>3, <1>4

(* A job that does not run is not raised by what it or another process does. *)
LEMMA NotRaised ==
  ASSUME StartupType, Stages, ~Alive(Job), NEW i \in Slots,
         \/ Progress(i) \/ Fail(i)
         \/ (Begin(i) \/ Halted(i)) /\ i # Job
  PROVE  ~Alive(Job)'
<1>j. Job \in Slots
  BY StartupAssumption, ServiceAssumption
<1>1. CASE i # Job
  <2>1. at'[Job] = at[Job]
    BY <1>1, <1>j, OthersStay
  <2> QED
    BY <2>1 DEF Alive
<1>2. CASE i = Job
  <2>1. CASE Fail(i)
    BY <1>2, <2>1 DEF Fail
  <2>2. CASE Progress(i)
    <3>1. at[i] \in Starting
      BY <2>2 DEF Progress, Load, ReadVersion, Apply, Ask, Asking, Bind, GiveUp, Starting, Ports
    <3> QED
      BY <1>2, <3>1 DEF Alive
  <2> QED
    BY <1>2, <2>1, <2>2
<1> QED
  BY <1>1, <1>2

(* Stopping the job ends its process. *)
LEMMA StopJobEndsIt == ASSUME StartupType, StopJob PROVE ~Alive(Job)'
<1>j. Job \in Slots
  BY StartupAssumption, ServiceAssumption
<1>1. CASE Alive(Job)
  <2>1. at'[Job] \in {"exit 0", "exit 1"}
    BY <1>1, <1>j DEF StopJob, Halted, End, ExitStatus, StartupType
  <2> QED
    BY <2>1 DEF Alive, Starting
<1>2. CASE ~Alive(Job)
  BY <1>2 DEF StopJob, Stay, procs, Alive
<1> QED
  BY <1>1, <1>2

(* What a command has done by the time it goes on stays done. *)
LEMMA HalfwayNext ==
  TypeOK /\ UnderWay /\ Stages /\ Halfway /\ [Next]_vars => Halfway'
<1> SUFFICES ASSUME TypeOK, UnderWay, Stages, Halfway, [Next]_vars PROVE Halfway'
  OBVIOUS
<1>s. StartupType
  BY DEF TypeOK
<1>q. ASSUME UNCHANGED <<manager, unit, enabled, loaded, cmd, ignored>>,
             ~Alive(Job) /\ ~loaded => ~Alive(Job)'
      PROVE  Halfway'
  BY <1>q DEF Halfway
<1>i. ASSUME cmd' = Idle \/ cmd'.step = 1 PROVE Halfway'
  <2>1. ~(cmd'.step >= 2) /\ ~(cmd'.step >= 3) /\ ~(cmd'.step >= 5)
    BY <1>i DEF Idle
  <2> QED
    BY <2>1 DEF Halfway
<1>1. ASSUME NEW i \in Slots, Proceed(i) PROVE Halfway'
  BY <1>1, <1>q, <1>s, NotRaised DEF Proceed, registration
<1>2. ASSUME NEW i \in Slots, Run(i) PROVE Halfway'
  BY <1>2, <1>q, <1>s, NotRaised DEF Run, registration
<1>3. ASSUME NEW i \in Slots, Interrupt(i) PROVE Halfway'
  BY <1>3, <1>q, <1>s, NotRaised DEF Interrupt, registration
<1>4. ASSUME NEW i \in Slots, Crash(i) PROVE Halfway'
  BY <1>4, <1>q, <1>s, NotRaised DEF Crash, registration
<1>5. ASSUME NEW name \in Commands, Command(name) PROVE Halfway'
  BY <1>5, <1>i DEF Command
<1>6. CASE StepWorks \/ StepFails
  <2>1. CASE cmd' = Idle
    BY <2>1, <1>i
  <2>2. CASE cmd' # Idle
    <3>1. /\ cmd # Idle /\ Scripts /\ manager' = manager
          /\ cmd'.name = cmd.name /\ cmd'.step = cmd.step + 1
          /\ cmd.step \in Nat /\ cmd.step # StepCount(cmd.name)
      BY <1>6, <2>2, GoesOn
    <3>2. CASE StepWorks
      <4>0. Effect(Now.run) /\ UNCHANGED ignored
        BY <3>2 DEF StepWorks, Now
      <4>1. ASSUME cmd.name = "install", manager = "launchd", cmd.step + 1 >= 5
            PROVE  enabled' \/ "enable" \in ignored'
        <5>0. cmd.step \notin {1, 2, 3} /\ cmd.step # StepCount(cmd.name)
          BY <3>1, <4>1
        <5>1. (cmd.step = 4 /\ Now.run = "enable") \/ (cmd.step = 5 /\ Now.run = "bootout")
          <6>1. LaunchdInstall
            BY <3>1, <4>1, ScriptOf DEF Scripts
          <6> QED
            BY <6>1, <5>0 DEF LaunchdInstall, Doing, Now
        <5>2. CASE Now.run = "enable"
          BY <4>0, <5>2 DEF Effect
        <5>3. CASE Now.run = "bootout" /\ cmd.step = 5
          <6>1. UNCHANGED enabled
            BY <4>0, <5>3 DEF Effect
          <6> QED
            BY <4>0, <4>1, <5>3, <6>1 DEF Halfway
        <5> QED
          BY <5>1, <5>2, <5>3
      <4>2. ASSUME cmd.name = "uninstall"
            PROVE  (~loaded' /\ ~Alive(Job)') \/ ignored' \cap {"bootout", "disable now"} # {}
        <5>0. cmd.step # StepCount(cmd.name)
          BY <3>1
        <5>1. \/ cmd.step = 1 /\ Now.run \in {"bootout", "disable now"}
              \/ cmd.step >= 2 /\ Now.run \in {"remove unit", "reload", "reset failed"}
          <6>1. LaunchdUninstall \/ SystemdUninstall
            BY <3>1, <4>2, ScriptOf DEF Scripts
          <6>2. CASE LaunchdUninstall
            BY <6>2, <5>0 DEF LaunchdUninstall, Doing, Now
          <6>3. CASE SystemdUninstall
            <7>1. \/ cmd.step = 1 /\ Now.run = "disable now"
                  \/ (cmd.step = 2 /\ Now.run = "remove unit") \/ (cmd.step = 3 /\ Now.run = "reload")
              BY <6>3, <5>0 DEF SystemdUninstall, Doing, Now
            <7>2. (cmd.step = 2 => cmd.step >= 2) /\ (cmd.step = 3 => cmd.step >= 2)
              OBVIOUS
            <7> QED
              BY <7>1, <7>2, Zenon
          <6> QED
            BY <6>1, <6>2, <6>3
        <5>2. CASE Now.run \in {"bootout", "disable now"}
          <6>1. ~loaded' /\ StopJob
            BY <4>0, <5>2 DEF Effect
          <6> QED
            BY <6>1, <1>s, StopJobEndsIt
        <5>3. CASE cmd.step >= 2 /\ Now.run \in {"remove unit", "reload", "reset failed"}
          <6>1. UNCHANGED loaded /\ UNCHANGED procs
            BY <4>0, <5>3 DEF Effect, Stay
          <6> QED
            BY <4>0, <4>2, <5>3, <6>1 DEF Halfway, procs, Alive
        <5> QED
          BY <5>1, <5>2, <5>3
      <4>3. ASSUME cmd.name = "uninstall", manager = "systemd", cmd.step + 1 >= 3
            PROVE  ~unit'
        <5>0. cmd.step # 1 /\ cmd.step # StepCount(cmd.name)
          BY <3>1, <4>3
        <5>1. \/ cmd.step = 2 /\ Now.run = "remove unit"
              \/ cmd.step = 3 /\ Now.run = "reload"
          <6>1. SystemdUninstall
            BY <3>1, <4>3, ScriptOf DEF Scripts
          <6> QED
            BY <6>1, <5>0 DEF SystemdUninstall, Doing, Now
        <5>2. CASE Now.run = "remove unit"
          BY <4>0, <5>2 DEF Effect
        <5>3. CASE cmd.step = 3 /\ Now.run = "reload"
          <6>1. UNCHANGED unit
            BY <4>0, <5>3 DEF Effect
          <6> QED
            <7>1. cmd.step >= 3
              BY <5>3
            <7> QED
              BY <4>3, <6>1, <7>1 DEF Halfway
        <5> QED
          BY <5>1, <5>2, <5>3
      <4> QED
        BY <3>1, <4>1, <4>2, <4>3 DEF Halfway
    <3>3. CASE StepFails
      <4>0. /\ UNCHANGED <<procs, registration>> /\ Now.kind # "must"
            /\ ignored' = ignored \cup {Now.run}
        BY <3>3, <2>2 DEF StepFails, Now
      <4>1. ASSUME cmd.name = "install", manager = "launchd", cmd.step + 1 >= 5
            PROVE  enabled' \/ "enable" \in ignored'
        <5>0. cmd.step \notin {1, 2, 3} /\ cmd.step # StepCount(cmd.name)
          BY <3>1, <4>1
        <5>1. (cmd.step = 4 /\ Now.run = "enable") \/ cmd.step = 5
          <6>1. LaunchdInstall
            BY <3>1, <4>1, ScriptOf DEF Scripts
          <6> QED
            BY <6>1, <5>0 DEF LaunchdInstall, Doing, Now
        <5> QED
          BY <4>0, <4>1, <5>1 DEF Halfway, registration
      <4>2. ASSUME cmd.name = "uninstall"
            PROVE  (~loaded' /\ ~Alive(Job)') \/ ignored' \cap {"bootout", "disable now"} # {}
        <5>0. cmd.step # StepCount(cmd.name) /\ Now.kind # "must"
          BY <3>1, <4>0
        <5>1. \/ cmd.step = 1 /\ Now.run \in {"bootout", "disable now"}
              \/ cmd.step >= 2
          <6>1. LaunchdUninstall \/ SystemdUninstall
            BY <3>1, <4>2, ScriptOf DEF Scripts
          <6>2. CASE LaunchdUninstall
            BY <6>2, <5>0 DEF LaunchdUninstall, Doing, Now
          <6>3. CASE SystemdUninstall
            <7>1. \/ cmd.step = 1 /\ Now.run = "disable now"
                  \/ (cmd.step = 2 /\ Now.run = "remove unit") \/ (cmd.step = 3 /\ Now.run = "reload")
              BY <6>3, <5>0 DEF SystemdUninstall, Doing, Now
            <7>2. (cmd.step = 2 => cmd.step >= 2) /\ (cmd.step = 3 => cmd.step >= 2)
              OBVIOUS
            <7> QED
              BY <7>1, <7>2, Zenon
          <6> QED
            BY <6>1, <6>2, <6>3
        <5>2. CASE cmd.step >= 2
          BY <4>0, <4>2, <5>2 DEF Halfway, registration, procs, Alive
        <5> QED
          BY <4>0, <5>1, <5>2
      <4>3. ASSUME cmd.name = "uninstall", manager = "systemd", cmd.step + 1 >= 3
            PROVE  ~unit'
        <5>0. cmd.step # 1 /\ cmd.step # StepCount(cmd.name) /\ Now.kind # "must"
          BY <3>1, <4>3, <4>0
        <5>1. cmd.step = 3
          <6>1. SystemdUninstall
            BY <3>1, <4>3, ScriptOf DEF Scripts
          <6> QED
            BY <6>1, <5>0 DEF SystemdUninstall, Doing, Now
        <5> QED
          <6>1. cmd.step >= 3
            BY <5>1
          <6> QED
            BY <4>0, <4>3, <6>1 DEF Halfway, registration
      <4> QED
        BY <3>1, <4>1, <4>2, <4>3 DEF Halfway
    <3> QED
      BY <1>6, <3>2, <3>3
  <2> QED
    BY <2>1, <2>2
<1>7. CASE Restart
  BY <1>7, <1>q DEF Restart
<1>8. CASE Relogin
  BY <1>8, <1>i DEF Relogin
<1>9. CASE Disable
  BY <1>9, <1>i DEF Disable
<1>10. CASE Foreign
  <2>1. UNCHANGED procs
    BY <1>10 DEF Foreign, ForeignComes, ForeignGoes
  <2> QED
    BY <1>10, <2>1, <1>q DEF Foreign, registration, procs, Alive
<1>11. CASE UNCHANGED vars
  BY <1>11, <1>q DEF vars, procs, registration, Alive
<1> QED
  BY <1>1, <1>2, <1>3, <1>4, <1>5, <1>6, <1>7, <1>8, <1>9, <1>10, <1>11 DEF Next

-----------------------------------------------------------------------------
(* The theorems *)

(* The inductive invariant. *)
IInv ==
  /\ TypeOK /\ UnderWay /\ Halfway
  /\ Stages /\ AskedFor /\ PortsApart /\ SomebodyAhead

(* It holds at first. *)
LEMMA InvInit == Init => IInv
<1> SUFFICES ASSUME Init PROVE IInv
  OBVIOUS
<1> USE DEF Init, StartupInit
<1>1. StartupType
  BY StartupAssumption DEF StartupType, Reasons, Ports
<1>2. RegistrationType
  <2>1. 0 \in 0..Burst
    BY ServiceAssumption
  <2> QED
    BY <2>1 DEF RegistrationType
<1>3. UnderWay
  BY DEF UnderWay
<1>4. TypeOK
  BY <1>1, <1>2, <1>3, TypeParts
<1>5. Halfway
  BY DEF Halfway, Idle
<1>6. Stages
  BY DEF Stages, StageOf, Alive, Starting
<1>7. AskedFor
  BY DEF AskedFor, FreeOf
<1>8. PortsApart
  BY DEF PortsApart
<1>9. SomebodyAhead
  BY DEF SomebodyAhead, Doomed
<1> QED
  BY <1>3, <1>4, <1>5, <1>6, <1>7, <1>8, <1>9 DEF IInv

(* Every step keeps it. *)
LEMMA InvNext == IInv /\ [Next]_vars => IInv'
<1> SUFFICES ASSUME IInv, [Next]_vars PROVE IInv'
  OBVIOUS
<1>1. TypeOK /\ UnderWay /\ Halfway /\ Stages /\ AskedFor /\ PortsApart /\ SomebodyAhead
  BY DEF IInv
<1>2. StartupType /\ RegistrationType
  BY <1>1 DEF TypeOK, RegistrationType
<1>3. ProcessStep
  BY OnlyProcessSteps
<1>4. StartupType' /\ Stages' /\ AskedFor' /\ PortsApart' /\ SomebodyAhead'
  BY <1>1, <1>2, <1>3, ProcessTypes, StagesNext, AskedForNext, PortsApartNext, SomebodyAheadNext
<1>5. RegistrationType' /\ UnderWay'
  BY <1>1, <1>2, RegistrationNext
<1>6. Halfway'
  BY <1>1, HalfwayNext
<1>7. StartupType' /\ RegistrationType' /\ UnderWay' => TypeOK'
  BY TypeParts, PTL
<1> QED
  BY <1>4, <1>5, <1>6, <1>7 DEF IInv

(* It holds in every state. *)
LEMMA Invariant == Spec => []IInv
<1>1. Init => IInv
  BY InvInit
<1>2. IInv /\ [Next]_vars => IInv'
  BY InvNext
<1> QED
  BY <1>1, <1>2, PTL DEF Spec

(* Every variable keeps its type: a command stays within its script, and        *)
(* systemd starts the job no more often than its limit.                      *)
THEOREM TypesCorrect == Spec => []TypeOK
<1>1. IInv => TypeOK
  BY DEF IInv
<1> QED
  BY <1>1, Invariant, PTL

(* However many processes start at once, they do not all give way to each      *)
(* other.                                                                    *)
THEOREM SomebodyWinsAlways == Spec => []SomebodyWins
<1>1. ASSUME IInv PROVE SomebodyWins
  <2> SUFFICES ASSUME came = {}, ~broken, db <= SchemaVersion, \A i \in Slots : ~Alive(i),
                      NEW i \in Slots, why[i] # "none"
               PROVE  \E j \in Slots : why[j] \in {"failed", "killed", "stopped"}
    BY DEF SomebodyWins
  <2>1. Calm
    BY DEF Calm
  <2>2. why[i] \in Reasons /\ why[i] # "broken"
    BY <1>1 DEF IInv, TypeOK, StartupType, Stages, StageOf
  <2>3. CASE why[i] \in {"database", "port", "race"}
    <3>1. PICK j \in Slots : Ahead(j)
      BY <1>1, <2>1, <2>3 DEF IInv, SomebodyAhead
    <3> QED
      BY <3>1 DEF Ahead
  <2> QED
    BY <2>2, <2>3 DEF Reasons
<1>2. IInv => SomebodyWins
  BY <1>1
<1> QED
  BY <1>2, Invariant, PTL

(* A process that serves has its build's schema and shares no port with a       *)
(* program that was there before it.                                         *)
THEOREM ServesOnItsOwnAlways == Spec => []ServesOnItsOwn
<1>1. ASSUME IInv PROVE ServesOnItsOwn
  <2> SUFFICES ASSUME NEW i \in Slots, at[i] = "serve"
               PROVE  db = SchemaVersion /\ foreign \cap before[i] = {}
    BY DEF ServesOnItsOwn
  <2>1. db = SchemaVersion
    BY <1>1 DEF IInv, Stages, StageOf
  <2>2. "smtp" \notin foreign \cap before[i] /\ "http" \notin foreign \cap before[i]
    BY <1>1 DEF IInv, AskedFor, FreeOf
  <2>3. foreign \subseteq Ports
    BY <1>1 DEF IInv, TypeOK, StartupType
  <2> QED
    BY <2>1, <2>2, <2>3 DEF Ports
<1>2. IInv => ServesOnItsOwn
  BY <1>1
<1> QED
  BY <1>2, Invariant, PTL

(* The step that ends a command which reports success.                      *)
LastStep ==
  /\ cmd.name = "install" =>
       \/ manager = "launchd" /\ cmd.step = 6 /\ Now.run = "bootstrap"
       \/ manager = "systemd" /\ Now.run = "enable now"
  /\ cmd.name = "uninstall" =>
       \/ manager = "launchd" /\ cmd.step = 2 /\ Now.run = "remove unit"
       \/ manager = "systemd" /\ cmd.step = 4 /\ Now.run = "reset failed"
  /\ cmd.name = "start" => Now.run \in {"bootstrap", "kickstart", "start"}
  /\ cmd.name = "stop" => Now.run \in {"bootout", "stop"}
  /\ cmd.name \in Commands

(* Before its last step a command ends well only where a step is enough.        *)
LEMMA NotYet ==
  ASSUME NEW mgr, NEW name, NEW step \in Nat, NEW of \in Nat, NEW run, NEW kind,
         cmd.step = StepCount(cmd.name) \/ Now.kind = "enough",
         Doing(mgr, name, step, of, run, kind), kind # "enough"
  PROVE  step = of
BY Zenon DEF Doing, Now

(* What the scripts' lengths and kinds are told apart by. *)
LEMMA Apart ==
  /\ 1 \in Nat /\ 2 \in Nat /\ 3 \in Nat /\ 4 \in Nat /\ 5 \in Nat /\ 6 \in Nat
  /\ 1 # 6 /\ 2 # 6 /\ 3 # 6 /\ 4 # 6 /\ 5 # 6
  /\ 1 # 2 /\ 1 # 3 /\ 1 # 4 /\ 2 # 4 /\ 3 # 4
  /\ "must" # "enough" /\ "may" # "enough"
OBVIOUS

(* A command ends well at the last step of its script, or where launchd takes   *)
(* a start's bootstrap for enough; only uninstall's last step may fail.      *)
LEMMA EndsAtLastStep ==
  ASSUME TypeOK, UnderWay, cmd # Idle,
         cmd.step = StepCount(cmd.name) \/ Now.kind = "enough"
  PROVE  LastStep
<1>1. Scripts
  BY EveryStepIsInAScript DEF TypeOK
<1>2. cmd.name \in Commands
  BY DEF UnderWay
<1>3. CASE LaunchdInstall
  <2>1. ~Doing("launchd", "install", 1, 6, "no brew", "must")
    BY NotYet, Apart, Zenon
  <2>2. ~Doing("launchd", "install", 2, 6, "write unit", "must")
    BY NotYet, Apart, Zenon
  <2>3. ~Doing("launchd", "install", 3, 6, "prepare log", "must")
    BY NotYet, Apart, Zenon
  <2>4. ~Doing("launchd", "install", 4, 6, "enable", "may")
    BY NotYet, Apart, Zenon
  <2>5. ~Doing("launchd", "install", 5, 6, "bootout", "may")
    BY NotYet, Apart, Zenon
  <2>6. Doing("launchd", "install", 6, 6, "bootstrap", "must")
    BY <1>3, <2>1, <2>2, <2>3, <2>4, <2>5 DEF LaunchdInstall
  <2> QED
    BY <1>2, <2>6 DEF LastStep, Doing, Now
<1>4. CASE LaunchdUninstall
  <2>1. ~Doing("launchd", "uninstall", 1, 2, "bootout", "may")
    BY NotYet, Apart, Zenon
  <2>2. Doing("launchd", "uninstall", 2, 2, "remove unit", "must")
    BY <1>4, <2>1 DEF LaunchdUninstall
  <2> QED
    BY <1>2, <2>2 DEF LastStep, Doing, Now
<1>5. CASE LaunchdStart
  <2>1. ~Doing("launchd", "start", 1, 3, "exists", "must")
    BY NotYet, Apart, Zenon
  <2>2. Doing("launchd", "start", 2, 3, "bootstrap", "enough") \/ Doing("launchd", "start", 3, 3, "kickstart", "must")
    BY <1>5, <2>1 DEF LaunchdStart
  <2> QED
    BY <1>2, <2>2 DEF LastStep, Doing, Now
<1>6. CASE LaunchdStop
  BY <1>2, <1>6 DEF LastStep, LaunchdStop, Doing, Now
<1>7. CASE SystemdInstall
  <2>1. ~Doing("systemd", "install", 1, 4, "write unit", "must")
    BY NotYet, Apart, Zenon
  <2>2. ~Doing("systemd", "install", 2, 4, "make home", "must")
    BY NotYet, Apart, Zenon
  <2>3. ~Doing("systemd", "install", 3, 4, "reload", "must")
    BY NotYet, Apart, Zenon
  <2>4. Doing("systemd", "install", 4, 4, "enable now", "must")
    BY <1>7, <2>1, <2>2, <2>3 DEF SystemdInstall
  <2> QED
    BY <1>2, <2>4 DEF LastStep, Doing, Now
<1>8. CASE SystemdUninstall
  <2>1. ~Doing("systemd", "uninstall", 1, 4, "disable now", "may")
    BY NotYet, Apart, Zenon
  <2>2. ~Doing("systemd", "uninstall", 2, 4, "remove unit", "must")
    BY NotYet, Apart, Zenon
  <2>3. ~Doing("systemd", "uninstall", 3, 4, "reload", "may")
    BY NotYet, Apart, Zenon
  <2>4. Doing("systemd", "uninstall", 4, 4, "reset failed", "may")
    BY <1>8, <2>1, <2>2, <2>3 DEF SystemdUninstall
  <2> QED
    BY <1>2, <2>4 DEF LastStep, Doing, Now
<1>9. CASE SystemdStart
  <2>1. ~Doing("systemd", "start", 1, 2, "exists", "must")
    BY NotYet, Apart, Zenon
  <2>2. Doing("systemd", "start", 2, 2, "start", "must")
    BY <1>9, <2>1 DEF SystemdStart
  <2> QED
    BY <1>2, <2>2 DEF LastStep, Doing, Now
<1>10. CASE SystemdStop
  BY <1>2, <1>10 DEF LastStep, SystemdStop, Doing, Now
<1> QED
  BY <1>1, <1>3, <1>4, <1>5, <1>6, <1>7, <1>8, <1>9, <1>10 DEF Scripts

(* The one step that may fail at the end of a command is uninstall's under      *)
(* systemd.                                                                  *)
LEMMA FailsAtReset ==
  ASSUME TypeOK, UnderWay, cmd # Idle, cmd.step = StepCount(cmd.name), Now.kind # "must"
  PROVE  manager = "systemd" /\ cmd.name = "uninstall"
<1>1. Scripts
  BY EveryStepIsInAScript DEF TypeOK
<1>2. ~LaunchdInstall
  <2>1. ~Doing("launchd", "install", 1, 6, "no brew", "must")
    BY NotYet, Apart, Zenon
  <2>2. ~Doing("launchd", "install", 2, 6, "write unit", "must")
    BY NotYet, Apart, Zenon
  <2>3. ~Doing("launchd", "install", 3, 6, "prepare log", "must")
    BY NotYet, Apart, Zenon
  <2>4. ~Doing("launchd", "install", 4, 6, "enable", "may")
    BY NotYet, Apart, Zenon
  <2>5. ~Doing("launchd", "install", 5, 6, "bootout", "may")
    BY NotYet, Apart, Zenon
  <2>6. ~Doing("launchd", "install", 6, 6, "bootstrap", "must")
    BY DEF Doing, Now
  <2> QED
    BY <2>1, <2>2, <2>3, <2>4, <2>5, <2>6 DEF LaunchdInstall
<1>5. ~LaunchdUninstall /\ ~LaunchdStop
  <2>1. ~Doing("launchd", "uninstall", 1, 2, "bootout", "may")
    BY NotYet, Apart, Zenon
  <2> QED
    BY <2>1 DEF LaunchdUninstall, LaunchdStop, Doing, Now
<1>3. ~LaunchdStart
  BY DEF LaunchdStart, Doing, Now
<1>4. ~SystemdInstall /\ ~SystemdStart /\ ~SystemdStop
  BY DEF SystemdInstall, SystemdStart, SystemdStop, Doing, Now
<1> QED
  BY <1>1, <1>2, <1>3, <1>4, <1>5, ScriptOf DEF Scripts

(* What a command promises when it reports success. *)
Promise ==
  /\ cmd.name = "install" => unit' /\ (loaded' \/ "enable" \in ignored')
  /\ cmd.name = "uninstall" => ~unit' /\ (Alive(Job)' => ignored' \cap {"bootout", "disable now"} # {})
  /\ cmd.name = "start" => loaded' \/ ~enabled
  /\ cmd.name = "stop" => ~loaded' /\ ~Alive(Job)'

(* The last step, when it works, keeps the promise. *)
LEMMA WorksAsPromised ==
  ASSUME TypeOK, Halfway, LastStep, Can(Now.run), Effect(Now.run), UNCHANGED ignored
  PROVE  Promise
<1>s. StartupType
  BY DEF TypeOK
<1>1. CASE cmd.name = "install"
  <2>1. CASE manager = "launchd" /\ cmd.step = 6 /\ Now.run = "bootstrap"
    <3>1. unit
      BY <2>1 DEF Can
    <3>2. unit' = unit /\ (enabled => loaded')
      BY <2>1 DEF Effect
    <3>3. cmd.step >= 5
      BY <2>1
    <3>4. enabled \/ "enable" \in ignored
      BY <1>1, <2>1, <3>3 DEF Halfway
    <3> QED
      BY <1>1, <3>1, <3>2, <3>4 DEF Promise
  <2>2. CASE manager = "systemd" /\ Now.run = "enable now"
    <3>1. unit /\ unit' = unit /\ loaded'
      BY <2>2 DEF Can, Effect
    <3> QED
      BY <1>1, <3>1 DEF Promise
  <2> QED
    BY <1>1, <2>1, <2>2 DEF LastStep
<1>2. CASE cmd.name = "uninstall"
  <2>1. Alive(Job)' = Alive(Job)
    <3>1. Now.run \in {"remove unit", "reset failed"}
      BY <1>2 DEF LastStep
    <3> QED
      BY <3>1 DEF Effect, Stay, procs, Alive
  <2>2. cmd.step >= 2
    <3>1. cmd.step \in {2, 4}
      BY <1>2 DEF LastStep
    <3> QED
      BY <3>1
  <2>3. Alive(Job) => ignored \cap {"bootout", "disable now"} # {}
    BY <1>2, <2>2 DEF Halfway
  <2>4. ~unit'
    <3>1. CASE Now.run = "remove unit"
      BY <3>1 DEF Effect
    <3>2. CASE manager = "systemd" /\ cmd.step = 4 /\ Now.run = "reset failed"
      <4>1. cmd.step >= 3
        <5>1. cmd.step = 4
          BY <3>2
        <5> QED
          BY <5>1
      <4>2. ~unit
        BY <1>2, <3>2, <4>1 DEF Halfway
      <4> QED
        BY <3>2, <4>2 DEF Effect
    <3> QED
      BY <1>2, <3>1, <3>2 DEF LastStep
  <2> QED
    BY <1>2, <2>1, <2>3, <2>4 DEF Promise
<1>3. CASE cmd.name = "start"
  <2>1. loaded' \/ ~enabled
    <3>1. CASE Now.run = "bootstrap"
      BY <3>1 DEF Effect
    <3>2. CASE Now.run = "kickstart"
      BY <3>2 DEF Can, Effect
    <3>3. CASE Now.run = "start"
      BY <3>3 DEF Effect
    <3> QED
      BY <1>3, <3>1, <3>2, <3>3 DEF LastStep
  <2> QED
    BY <1>3, <2>1 DEF Promise
<1>4. CASE cmd.name = "stop"
  <2>1. ~loaded' /\ StopJob
    BY <1>4 DEF LastStep, Effect
  <2> QED
    BY <1>4, <1>s, <2>1, StopJobEndsIt DEF Promise
<1> QED
  BY <1>1, <1>2, <1>3, <1>4 DEF LastStep, Commands

(* So does it when it fails and that is ignored. *)
LEMMA FailsAsPromised ==
  ASSUME Halfway, manager = "systemd", cmd.name = "uninstall", LastStep,
         UNCHANGED <<procs, registration>>, NEW s, ignored' = ignored \cup {s}
  PROVE  Promise
<1>1. cmd.step = 4
  BY DEF LastStep
<1>2. cmd.step >= 2 /\ cmd.step >= 3
  BY <1>1
<1>3. ~unit /\ (Alive(Job) => ignored \cap {"bootout", "disable now"} # {})
  BY <1>2 DEF Halfway
<1> QED
  BY <1>3 DEF Promise, registration, procs, Alive

(* A command that reports success has done what it says, in whatever state the  *)
(* registration was and whichever of its steps failed on the way.            *)
THEOREM CommandsKeepTheirWordAlways == Spec => CommandsKeepTheirWord
<1> DEFINE Ends == (StepWorks \/ (StepFails /\ Steps(cmd.name)[cmd.step].kind # "must")) /\ cmd' = Idle
           Word == CASE cmd.name = "install"   -> unit' /\ (loaded' \/ "enable" \in ignored')
                     [] cmd.name = "uninstall" ->
                          ~unit' /\ (Alive(Job)' => ignored' \cap {"bootout", "disable now"} # {})
                     [] cmd.name = "start"     -> loaded' \/ ~enabled
                     [] cmd.name = "stop"      -> ~loaded' /\ ~Alive(Job)'
<1>1. ASSUME IInv, [Next]_vars, Ends PROVE Word
  <2>0. TypeOK /\ UnderWay /\ Halfway
    BY <1>1 DEF IInv
  <2>1. cmd # Idle /\ cmd.name \in Commands /\ (StepWorks \/ (StepFails /\ Now.kind # "must"))
    BY <1>1, <2>0 DEF StepWorks, StepFails, UnderWay, Now
  <2>2. cmd.name # "none" /\ Idle.name = "none"
    BY <2>1 DEF Commands, Idle
  <2>3. Promise
    <3>1. CASE StepWorks
      <4>1. Can(Now.run) /\ Effect(Now.run) /\ Advance(Now) /\ UNCHANGED ignored
        BY <3>1 DEF StepWorks, Now
      <4>2. cmd.step = StepCount(cmd.name) \/ Now.kind = "enough"
        <5>1. ASSUME ~(cmd.step = StepCount(cmd.name) \/ Now.kind = "enough") PROVE FALSE
          <6>1. cmd' = [cmd EXCEPT !.step = cmd.step + 1]
            BY <4>1, <5>1 DEF Advance, StepCount
          <6>2. cmd'.name = cmd.name
            BY <6>1, <2>0, <2>1 DEF UnderWay
          <6> QED
            BY <1>1, <2>2, <6>2
        <5> QED
          BY <5>1
      <4>3. LastStep
        BY <2>0, <2>1, <4>2, EndsAtLastStep
      <4> QED
        BY <2>0, <4>1, <4>3, WorksAsPromised
    <3>2. CASE StepFails /\ Now.kind # "must"
      <4>1. /\ UNCHANGED <<procs, registration>> /\ ignored' = ignored \cup {Now.run}
            /\ cmd' = IF cmd.step = StepCount(cmd.name) THEN Idle ELSE [cmd EXCEPT !.step = cmd.step + 1]
        BY <3>2 DEF StepFails, Now, StepCount
      <4>2. cmd.step = StepCount(cmd.name)
        <5>1. ASSUME cmd.step # StepCount(cmd.name) PROVE FALSE
          <6>1. cmd' = [cmd EXCEPT !.step = cmd.step + 1]
            BY <4>1, <5>1
          <6>2. cmd'.name = cmd.name
            BY <6>1, <2>0, <2>1 DEF UnderWay
          <6> QED
            BY <1>1, <2>2, <6>2
        <5> QED
          BY <5>1
      <4>3. LastStep /\ manager = "systemd" /\ cmd.name = "uninstall"
        BY <2>0, <2>1, <3>2, <4>2, EndsAtLastStep, FailsAtReset
      <4> QED
        BY <2>0, <4>1, <4>3, FailsAsPromised
    <3> QED
      BY <2>1, <3>1, <3>2
  <2> QED
    BY <2>1, <2>3 DEF Promise, Commands
<1>2. IInv /\ [Next]_vars => (Ends => Word)
  BY <1>1
<1>3. IInv /\ [Next]_vars => [Ends => Word]_vars
  BY <1>2
<1> QED
  BY <1>3, Invariant, PTL DEF Spec, CommandsKeepTheirWord

=============================================================================
