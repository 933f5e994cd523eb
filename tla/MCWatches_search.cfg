SPECIFICATION WatchesSpec
CONSTANTS
  Vars = {1, 2, 3, 4, 5}
  DecisionVars = {1, 2, 3}
  Start <- Base
  Input <- Later
  Questions <- Asking
  CcMinModes = {2}
  MayStopEarly = TRUE
  MayPrefetch = FALSE
  MayRefine = TRUE
  MayGoOn = TRUE
  MaxSolves = 1
  MaxRestarts = 0
  MaxBiAsserting = 1
  MaxRemovals = 1
INVARIANTS ReasonFirst ConflictIsNew
PROPERTIES FindsAll
CHECK_DEADLOCK FALSE
