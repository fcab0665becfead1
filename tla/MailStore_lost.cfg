SPECIFICATION Spec
CONSTANTS
  r1 = r1
  r2 = r2
  MaxMsgs = 2
  Mails <- OpenAndAnswer
  Requests <- OneRequest
  Ops = {"message"}
  Faults = {}
  MaxCrashes = 0
  MaxTime = 1
PROPERTIES
  OnlyEmptyThreadsGo
CHECK_DEADLOCK FALSE
