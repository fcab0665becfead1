SPECIFICATION Spec
CONSTANTS
  h1 = h1
  h2 = h2
  h3 = h3
  m1 = m1
  m2 = m2
  u1 = u1
  u2 = u2
  Handlers <- ThreeHandlers
  Msgs = {m1}
  Routes = {u1, u2}
  Accepts <- Taken
  Refuses <- NotTaken
  Faults = {"sql", "format"}
  MaxCrashes = 1
  MaxChanges = 1
SYMMETRY Swaps
INVARIANTS
  TypeOK
  LogTellsTruth
  EveryAttemptIsARow
  NumbersWithoutGaps
  RepeatsOverlap
  TwiceOnlyIfAnswerLost
  NeverStuck
CHECK_DEADLOCK FALSE
