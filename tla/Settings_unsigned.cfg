SPECIFICATION Spec
CONSTANTS
  s1 = s1
  s2 = s2
  Savers = {s1}
  Texts <- Words
  Labels <- Parts
  Patches <- Asked
  ByHand <- Written
  Env <- EnvGiven
  Flags <- FlagsGiven
  Domains <- Recipients
  Urls <- Targets
  MaxCrashes = 0
  MaxEdits = 0
PROPERTIES
  TestsAreSigned
CHECK_DEADLOCK FALSE
