SPECIFICATION FairSpec
CONSTANTS
  r1 = r1
  r2 = r2
  MaxMsgs = 3
  Mails <- OpenAndAnswer
  Requests <- OneRequest
  Ops = {"message", "thread", "clear"}
  Faults = {}
  MaxCrashes = 0
  MaxTime = 0
INVARIANTS
  ReceiptsStayApart
PROPERTIES
  KeepsMailbox
  EventuallyClean
CHECK_DEADLOCK FALSE
