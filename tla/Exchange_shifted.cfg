SPECIFICATION Spec
CONSTANTS
  DefaultListLimit = 1
  MaxListLimit = 2
  s1 = s1
  s2 = s2
  w1 = w1
  w2 = w2
  Sessions <- BothSessions
  Writers <- BothWriters
  Scenes <- MCScrolling
  Minted <- MCMinted
INVARIANTS
  NoRowTwice
CHECK_DEADLOCK FALSE
