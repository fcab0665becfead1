------------------------------- MODULE Startup -------------------------------
(***************************************************************************)
(* The life of a Mailman process up to its exit status: it loads its       *)
(* configuration, migrates the database, asks each port what answers there *)
(* (preflight), binds both, serves, and ends (cmd/mailman/serve.go,        *)
(* preflight.go, main.go, probe/probe.go, mailstore/schema.go).            *)
(*                                                                         *)
(* Processes on one machine share the data directory and the ports.  A     *)
(* foreign program may hold a port; when it listens on every address a     *)
(* bind to the loopback one succeeds beside it and a dial still finds it.  *)
(***************************************************************************)
EXTENDS Integers, Sequences, FiniteSets

CONSTANTS
  Slots,          \* where a process may run: a terminal, the login service
  Supervised,     \* the slots started with -supervised
  SchemaVersion,  \* what this build understands
  Versions        \* what the database may be at when all begins

ASSUME StartupAssumption ==
  /\ Supervised \subseteq Slots
  /\ SchemaVersion \in Nat \ {0}
  /\ Versions \subseteq Nat

Ports == {"smtp", "http"}

VARIABLES
  at,       \* where each process stands
  seen,     \* the schema version it read
  why,      \* history: what ended the last process of the slot
  db,       \* the schema version of the database
  bound,    \* the ports each process listens on
  foreign,  \* the ports a foreign program listens on
  came,     \* history: the ports it ever came to
  wild,     \* it listens on every address
  broken,   \* the configuration or the disk keeps every process from starting
  before    \* history: the ports the foreign program held when the process began

procs == <<at, seen, why, bound, before>>
machine == <<foreign, came, wild, broken>>

Starting == {"load", "read", "apply", "ask smtp", "ask http", "bind", "lost"}
Alive(i) == at[i] \in Starting \cup {"serve"}
Reasons == {"none", "broken", "database", "port", "race", "failed", "killed", "stopped"}

StartupType ==
  /\ at \in [Slots -> {"off", "exit 0", "exit 1", "serve"} \cup Starting]
  /\ seen \in [Slots -> Nat]
  /\ why \in [Slots -> Reasons]
  /\ db \in Nat
  /\ bound \in [Slots -> SUBSET Ports]
  /\ foreign \subseteq came /\ came \subseteq Ports
  /\ wild \in BOOLEAN /\ broken \in BOOLEAN
  /\ before \in [Slots -> SUBSET Ports]

StartupInit ==
  /\ at = [i \in Slots |-> "off"]
  /\ seen = [i \in Slots |-> 0]
  /\ why = [i \in Slots |-> "none"]
  /\ db \in Versions
  /\ bound = [i \in Slots |-> {}]
  /\ foreign \in {{}, {"smtp"}} /\ came = foreign
  /\ wild \in BOOLEAN /\ broken \in BOOLEAN
  /\ before = [i \in Slots |-> {}]

-----------------------------------------------------------------------------
(* How a process begins and ends *)

(* Faulty variant: a conflict is an error like any other. *)
ExitAsError(i, reason) == IF reason = "stopped" THEN "exit 0" ELSE "exit 1"

(* main: a conflict that preflight found under a supervisor is a clean exit. *)
ExitStatus(i, reason) ==
  IF reason = "stopped" \/ (reason = "port" /\ i \in Supervised) THEN "exit 0" ELSE "exit 1"

Begin(i) ==
  /\ at' = [at EXCEPT ![i] = "load"]
  /\ seen' = [seen EXCEPT ![i] = 0]
  /\ why' = [why EXCEPT ![i] = "none"]
  /\ bound' = [bound EXCEPT ![i] = {}]
  /\ before' = [before EXCEPT ![i] = foreign]

(* The listeners go with the process. *)
End(i, reason) ==
  /\ at' = [at EXCEPT ![i] = ExitStatus(i, reason)]
  /\ why' = [why EXCEPT ![i] = reason]
  /\ bound' = [bound EXCEPT ![i] = {}]
  /\ UNCHANGED <<seen, before>>

Goto(i, s) == at' = [at EXCEPT ![i] = s] /\ UNCHANGED <<why, before>>

-----------------------------------------------------------------------------
(* serve, up to its first answer *)

Load(i) ==
  /\ at[i] = "load"
  /\ IF broken THEN End(i, "broken") ELSE Goto(i, "read") /\ UNCHANGED <<seen, bound>>
  /\ UNCHANGED <<db, machine>>

(* migrate reads the version once. *)
ReadVersion(i) ==
  /\ at[i] = "read"
  /\ IF db > SchemaVersion THEN End(i, "database")
     ELSE /\ Goto(i, IF db = SchemaVersion THEN "ask smtp" ELSE "apply")
          /\ seen' = [seen EXCEPT ![i] = db]
          /\ UNCHANGED bound
  /\ UNCHANGED <<db, machine>>

(* applyVersion, one transaction: a table that another process has created    *)
(* since then is an error, and the transaction leaves nothing behind.         *)
Apply(i) ==
  /\ at[i] = "apply"
  /\ IF db # seen[i] THEN End(i, "database") /\ UNCHANGED db
     ELSE /\ db' = db + 1
          /\ seen' = [seen EXCEPT ![i] = db + 1]
          /\ Goto(i, IF db + 1 = SchemaVersion THEN "ask smtp" ELSE "apply")
          /\ UNCHANGED bound
  /\ UNCHANGED machine

Listening(p) == {j \in Slots : p \in bound[j]}

(* Faulty variant: a port is free when a bind would succeed. *)
AnswersBind(p) == Listening(p) # {} \/ (p \in foreign /\ ~wild)

(* A dial finds whoever listens, however it listens and whether or not it     *)
(* ever accepts.                                                              *)
Answers(p) == Listening(p) # {} \/ p \in foreign

Asking(p) == IF p = "smtp" THEN "ask smtp" ELSE "ask http"

(* preflight *)
Ask(i, p) ==
  /\ at[i] = Asking(p)
  /\ IF Answers(p) THEN End(i, "port")
     ELSE Goto(i, IF p = "smtp" THEN "ask http" ELSE "bind") /\ UNCHANGED <<seen, bound>>
  /\ UNCHANGED <<db, machine>>

(* Faulty variant: whichever listener comes first is bound first. *)
BindOrderAny(i) == IF i \in Supervised THEN <<"http", "smtp">> ELSE <<"smtp", "http">>

(* capture.Listen, then net.Listen. *)
BindOrder(i) == <<"smtp", "http">>

(* A listener that is bound already is closed after the other one has failed. *)
Bind(i) ==
  /\ at[i] = "bind"
  /\ LET p == BindOrder(i)[Cardinality(bound[i]) + 1]
     IN  IF Listening(p) # {} \/ (p \in foreign /\ ~wild)
         THEN Goto(i, "lost") /\ UNCHANGED <<seen, bound>>
         ELSE /\ bound' = [bound EXCEPT ![i] = @ \cup {p}]
              /\ Goto(i, IF bound'[i] = Ports THEN "serve" ELSE "bind")
              /\ UNCHANGED seen
  /\ UNCHANGED <<db, machine>>

GiveUp(i) ==
  /\ at[i] = "lost"
  /\ End(i, "race")
  /\ UNCHANGED <<db, machine>>

Progress(i) ==
  \/ Load(i) \/ ReadVersion(i) \/ Apply(i)
  \/ \E p \in Ports : Ask(i, p)
  \/ Bind(i) \/ GiveUp(i)

(* A listener fails, or the process dies where it is. *)
Fail(i) ==
  /\ Alive(i)
  /\ End(i, IF at[i] = "serve" THEN "failed" ELSE "killed")
  /\ UNCHANGED <<db, machine>>

(* An interrupt: serve shuts down and returns what Shutdown says, nothing when *)
(* every request ended in its five seconds.  Before serve listens for signals  *)
(* the process is killed by it.                                                *)
Halted(i) ==
  /\ Alive(i)
  /\ \/ at[i] = "serve" /\ End(i, "stopped")
     \/ End(i, "killed")

-----------------------------------------------------------------------------
(* The foreign program comes to a port once and goes. *)

ForeignComes(p) ==
  /\ p \notin came
  /\ wild \/ Listening(p) = {}
  /\ foreign' = foreign \cup {p} /\ came' = came \cup {p}
  /\ UNCHANGED <<procs, db, wild, broken>>

ForeignGoes(p) ==
  /\ p \in foreign
  /\ foreign' = foreign \ {p}
  /\ UNCHANGED <<procs, db, came, wild, broken>>

-----------------------------------------------------------------------------
(* Properties *)

(* When processes meet and nothing else is on the ports, one of them serves:  *)
(* they never end with all having given way to each other, be it at the       *)
(* migration, at preflight, where a bound port answers before anybody serves  *)
(* on it, or by one having bound the one port and one the other.              *)
SomebodyWins ==
  ( /\ came = {} /\ ~broken /\ db <= SchemaVersion
    /\ \A i \in Slots : ~Alive(i)
    /\ \E i \in Slots : why[i] # "none" )
  => \E i \in Slots : why[i] \in {"failed", "killed", "stopped"}

(* A process that serves has the schema of its build, however many migrated    *)
(* at once, and shares no port with a foreign program that was there when it  *)
(* began: mail must not vanish into another catcher that listens on every      *)
(* address.  One that came after the question is not noticed.                 *)
ServesOnItsOwn ==
  \A i \in Slots :
    at[i] = "serve" => db = SchemaVersion /\ foreign \cap before[i] = {}

=============================================================================
