------------------------------- MODULE Service -------------------------------
(***************************************************************************)
(* `mailman service`: install, uninstall, start and stop drive launchd or  *)
(* systemd by commands of which each may fail, and the login manager keeps *)
(* the registered process running (internal/service).  Composed with the   *)
(* processes of Startup: the job is one of their slots.                    *)
(*                                                                         *)
(* The login managers are external.  Their commands are modelled by what   *)
(* the comments of the source rely on; stopping the job waits for its end. *)
(***************************************************************************)
EXTENDS Startup

CONSTANTS
  Job,         \* the slot of the registered process
  Managers,    \* "launchd", "systemd": the platforms to look at
  Burst,       \* StartLimitBurst: starts after which systemd gives up
  Faults,      \* "exec": a command of the manager may fail for its own reasons
  MaxActs,     \* how many things the user does at most (bound)
  MaxCrashes   \* how often a process dies of itself at most (bound)

ASSUME ServiceAssumption ==
  /\ Job \in Supervised
  /\ Managers \subseteq {"launchd", "systemd"}
  /\ Burst \in Nat \ {0}
  /\ Faults \subseteq {"exec"}
  /\ MaxActs \in Nat /\ MaxCrashes \in Nat

VARIABLES
  manager,   \* the platform
  brew,      \* Homebrew has an agent for Mailman too
  unit,      \* the unit file is there
  enabled,   \* launchd has no disabled flag on the label; systemd starts it at login
  loaded,    \* the manager runs the job and restarts it
  starts,    \* how often systemd started it since its count was reset
  cmd,       \* the service command under way: name and next step
  ignored,   \* history: the steps of it whose failure was ignored
  acts, crashes

registration == <<manager, brew, unit, enabled, loaded, starts>>
bounds == <<acts, crashes>>
vars == <<procs, db, machine, registration, cmd, ignored, bounds>>

Commands == {"install", "uninstall", "start", "stop"}
Idle == [name |-> "none", step |-> 0]

TypeOK ==
  /\ StartupType
  /\ manager \in Managers /\ brew \in BOOLEAN
  /\ unit \in BOOLEAN /\ enabled \in BOOLEAN /\ loaded \in BOOLEAN
  /\ starts \in 0..Burst
  /\ cmd.name \in Commands \cup {"none"} /\ cmd.step \in 0..6
  /\ acts \in Nat /\ crashes \in Nat

Init ==
  /\ StartupInit
  /\ manager \in Managers
  /\ brew \in {b \in BOOLEAN : b => manager = "launchd"}
  /\ unit \in BOOLEAN /\ loaded = FALSE /\ starts = 0
  /\ enabled \in {e \in BOOLEAN : manager = "systemd" => e = unit}
  /\ cmd = Idle /\ ignored = {}
  /\ acts = 0 /\ crashes = 0

-----------------------------------------------------------------------------
(* The manager and its job *)

Stay == UNCHANGED procs

StartJob ==
  /\ IF Alive(Job) THEN Stay ELSE Begin(Job)
  /\ starts' = IF manager = "systemd" /\ ~Alive(Job) THEN starts + 1 ELSE starts

StopJob == IF Alive(Job) THEN Halted(Job) ELSE Stay

(* Faulty variant: systemd has no start limit. *)
MayStartAlways == TRUE

MayStart == manager = "launchd" \/ Alive(Job) \/ starts < Burst

(* KeepAlive with SuccessfulExit=false and Crashed=true; Restart=on-failure    *)
(* under a start limit.                                                       *)
Restart ==
  /\ loaded /\ at[Job] = "exit 1" /\ MayStart
  /\ StartJob
  /\ UNCHANGED <<db, machine, manager, brew, unit, enabled, loaded, cmd, ignored, bounds>>

-----------------------------------------------------------------------------
(* The steps of the commands: what each changes when it succeeds, and whether *)
(* it can.                                                                    *)

Can(step) ==
  CASE step = "bootout"     -> loaded
    [] step = "bootstrap"   -> unit /\ ~loaded
    [] step = "kickstart"   -> loaded
    [] step \in {"enable now", "start"} -> unit /\ MayStart
    [] step = "exists"      -> unit
    [] step = "no brew"     -> ~brew
    [] OTHER -> TRUE

(* A disabled label makes bootstrap do nothing, and say nothing. *)
Effect(step) ==
  CASE step = "write unit"  -> unit' = TRUE /\ Stay /\ UNCHANGED <<enabled, loaded, starts>>
    [] step = "remove unit" -> unit' = FALSE /\ Stay /\ UNCHANGED <<enabled, loaded, starts>>
    [] step = "enable"      -> enabled' = TRUE /\ Stay /\ UNCHANGED <<unit, loaded, starts>>
    [] step \in {"bootout", "stop"} -> loaded' = FALSE /\ StopJob /\ UNCHANGED <<unit, enabled, starts>>
    [] step = "disable now" -> enabled' = FALSE /\ loaded' = FALSE /\ StopJob /\ UNCHANGED <<unit, starts>>
    [] step = "bootstrap" /\ enabled -> loaded' = TRUE /\ StartJob /\ UNCHANGED <<unit, enabled>>
    [] step = "kickstart"   -> Begin(Job) /\ UNCHANGED <<unit, enabled, loaded, starts>>
    [] step = "enable now"  -> enabled' = TRUE /\ loaded' = TRUE /\ StartJob /\ UNCHANGED unit
    [] step = "start"       -> loaded' = TRUE /\ StartJob /\ UNCHANGED <<unit, enabled>>
    [] step = "reset failed" -> starts' = 0 /\ Stay /\ UNCHANGED <<unit, enabled, loaded>>
    [] OTHER -> Stay /\ UNCHANGED <<unit, enabled, loaded, starts>>

(* A step is required, may fail, or is enough when it succeeds. *)
Must(s) == [run |-> s, kind |-> "must"]
May(s) == [run |-> s, kind |-> "may"]
Enough(s) == [run |-> s, kind |-> "enough"]

(* Faulty variant: nobody clears launchd's disabled flag. *)
LaunchdWithoutEnable(name) ==
  CASE name = "install"   -> <<Must("no brew"), Must("write unit"), Must("prepare log"),
                               May("bootout"), Must("bootstrap")>>
    [] name = "uninstall" -> <<May("bootout"), Must("remove unit")>>
    [] name = "start"     -> <<Must("exists"), Enough("bootstrap"), Must("kickstart")>>
    [] name = "stop"      -> <<Must("bootout")>>

(* launchd.Install, Uninstall, Start, Stop *)
Launchd(name) ==
  CASE name = "install"   -> <<Must("no brew"), Must("write unit"), Must("prepare log"),
                               May("enable"), May("bootout"), Must("bootstrap")>>
    [] name = "uninstall" -> <<May("bootout"), Must("remove unit")>>
    [] name = "start"     -> <<Must("exists"), Enough("bootstrap"), Must("kickstart")>>
    [] name = "stop"      -> <<Must("bootout")>>

(* systemd.Install, Uninstall, Start, Stop *)
Systemd(name) ==
  CASE name = "install"   -> <<Must("write unit"), Must("make home"), Must("reload"), Must("enable now")>>
    [] name = "uninstall" -> <<May("disable now"), Must("remove unit"), May("reload"), May("reset failed")>>
    [] name = "start"     -> <<Must("exists"), Must("start")>>
    [] name = "stop"      -> <<Must("stop")>>

Steps(name) == IF manager = "launchd" THEN Launchd(name) ELSE Systemd(name)

Act == acts < MaxActs /\ acts' = acts + 1

Command(name) ==
  /\ cmd = Idle /\ Act
  /\ cmd' = [name |-> name, step |-> 1] /\ ignored' = {}
  /\ UNCHANGED <<procs, db, machine, registration, crashes>>

Advance(s) ==
  cmd' = IF cmd.step = Len(Steps(cmd.name)) \/ s.kind = "enough" THEN Idle
         ELSE [cmd EXCEPT !.step = @ + 1]

StepWorks ==
  /\ cmd # Idle
  /\ LET s == Steps(cmd.name)[cmd.step]
     IN  Can(s.run) /\ Effect(s.run) /\ Advance(s)
  /\ UNCHANGED <<db, machine, manager, brew, ignored, bounds>>

(* The command stops there, or goes on as if nothing had happened. *)
StepFails ==
  /\ cmd # Idle
  /\ LET s == Steps(cmd.name)[cmd.step]
     IN  /\ ~Can(s.run) \/ "exec" \in Faults
         /\ IF s.kind = "must" THEN cmd' = Idle /\ UNCHANGED ignored
            ELSE /\ cmd' = IF cmd.step = Len(Steps(cmd.name)) THEN Idle ELSE [cmd EXCEPT !.step = @ + 1]
                 /\ ignored' = ignored \cup {s.run}
  /\ UNCHANGED <<procs, db, machine, registration, bounds>>

-----------------------------------------------------------------------------
(* What else the user does *)

Run(i) ==
  /\ i # Job /\ ~Alive(i) /\ Act
  /\ Begin(i)
  /\ UNCHANGED <<db, machine, registration, cmd, ignored, crashes>>

Interrupt(i) ==
  /\ i # Job /\ Act
  /\ Halted(i)
  /\ UNCHANGED <<db, machine, registration, cmd, ignored, crashes>>

(* The session ends and another begins. *)
Relogin ==
  /\ Act /\ cmd = Idle
  /\ loaded' = (unit /\ enabled)
  /\ IF unit /\ enabled THEN Begin(Job) ELSE StopJob
  /\ starts' = IF unit /\ enabled /\ manager = "systemd" THEN 1 ELSE 0
  /\ UNCHANGED <<db, machine, manager, brew, unit, enabled, cmd, ignored, crashes>>

(* launchctl disable, systemctl disable, between two service commands. *)
Disable ==
  /\ enabled /\ Act /\ cmd = Idle
  /\ enabled' = FALSE
  /\ UNCHANGED <<procs, db, machine, manager, brew, unit, loaded, starts, cmd, ignored, crashes>>

Crash(i) ==
  /\ crashes < MaxCrashes /\ crashes' = crashes + 1
  /\ Fail(i)
  /\ UNCHANGED <<registration, cmd, ignored, acts>>

Foreign ==
  /\ \E p \in Ports : ForeignComes(p) \/ ForeignGoes(p)
  /\ UNCHANGED <<registration, cmd, ignored, bounds>>

Proceed(i) == Progress(i) /\ UNCHANGED <<registration, cmd, ignored, bounds>>

Next ==
  \/ \E i \in Slots : Proceed(i) \/ Run(i) \/ Interrupt(i) \/ Crash(i)
  \/ \E name \in Commands : Command(name)
  \/ StepWorks \/ StepFails
  \/ Restart \/ Relogin \/ Disable \/ Foreign

(* A process and a command go on by themselves, and the login manager         *)
(* restarts what it has to.  Nobody has to run, stop or crash anything.       *)
Spec == Init /\ [][Next]_vars
FairSpec ==
  /\ Spec
  /\ \A i \in Slots : WF_vars(Proceed(i))
  /\ WF_vars(StepWorks \/ StepFails)
  /\ WF_vars(Restart)

-----------------------------------------------------------------------------
(* Properties *)

(* A registered Mailman that cannot run is left alone in the end: a taken      *)
(* port is one clean exit and not a restart every few seconds, and systemd    *)
(* gives up on a broken configuration after its start limit.  Under launchd a *)
(* broken configuration, or a database a newer build wrote, is tried again    *)
(* for ever, ten seconds apart.                                               *)
EventuallyLeftAlone ==
  (manager = "launchd" /\ (broken \/ db > SchemaVersion)) \/ <>[](at[Job] # "load")

(* A command that reports success has done what it says, in whatever state the *)
(* registration was before and whichever of its steps failed on the way.      *)
(* install leaves a unit, registered with the manager, unless clearing the    *)
(* disabled flag failed; uninstall leaves neither unit nor process, unless    *)
(* the manager refused to stop it, which is ignored; start leaves a job the   *)
(* manager runs, unless its label is disabled; stop leaves none.              *)
CommandsKeepTheirWord ==
  [][((StepWorks \/ (StepFails /\ Steps(cmd.name)[cmd.step].kind # "must")) /\ cmd' = Idle) =>
       CASE cmd.name = "install"   -> unit' /\ (loaded' \/ "enable" \in ignored')
         [] cmd.name = "uninstall" -> ~unit' /\ (Alive(Job)' => ignored' \cap {"bootout", "disable now"} # {})
         [] cmd.name = "start"     -> loaded' \/ ~enabled
         [] cmd.name = "stop"      -> ~loaded' /\ ~Alive(Job)']_vars

=============================================================================
