SPECIFICATION Spec
CONSTANTS
  r1 = r1
  r2 = r2
  MaxMsgs = 2
  Mails <- OpenAndAnswer
  Requests <- TwoRequests
  Ops = {"message", "thread", "clear"}
  Faults = {"sql", "disk"}
  MaxCrashes = 1
  MaxTime = 0
SYMMETRY Swaps
INVARIANTS
  TypeOK
  NoEmptyThread
  FilesHaveOwner
  StoredHasFiles
  RefusedNotKept
CHECK_DEADLOCK FALSE
