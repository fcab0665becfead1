SPECIFICATION FairSpec
CONSTANTS
  terminal = terminal
  job = job
  Slots <- Both
  Supervised = {job}
  Job = job
  SchemaVersion = 1
  Versions = {0, 1, 2}
  Managers = {"launchd", "systemd"}
  Burst = 2
  Faults = {"exec"}
  MaxActs = 2
  MaxCrashes = 1
INVARIANTS
  TypeOK
  SomebodyWins
  ServesOnItsOwn
PROPERTIES
  EventuallyLeftAlone
  CommandsKeepTheirWord
CHECK_DEADLOCK FALSE
