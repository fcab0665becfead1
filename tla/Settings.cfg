SPECIFICATION Spec
CONSTANTS
  s1 = s1
  s2 = s2
  Savers <- TwoSavers
  Texts <- Words
  Labels <- Parts
  Patches <- Asked
  ByHand <- Written
  Env <- EnvGiven
  Flags <- FlagsGiven
  Domains <- Recipients
  Urls <- Targets
  MaxCrashes = 1
  MaxEdits = 1
SYMMETRY Swaps
INVARIANTS
  TypeOK
  SavedFileBoots
  QuietIsInForce
  NothingLeftBehind
  RouteIsNearest
  PageTellsTruth
PROPERTIES
  SavesKeepTheRest
  AnsweredIsInForce
  KeyGoesHome
CHECK_DEADLOCK FALSE
