SPECIFICATION Spec
CONSTANTS
  r1 = r1
  r2 = r2
  MaxMsgs = 2
  Mails <- OpenAndAnswer
  Requests <- OneRequest
  Ops = {"clear"}
  Faults = {}
  MaxCrashes = 0
  MaxTime = 1
INVARIANTS
  NothingElseWritesThere
CHECK_DEADLOCK FALSE
