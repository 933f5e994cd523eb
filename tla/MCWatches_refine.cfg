\* The second search of refineFinalConflict() finds a conflict on level 0.
SPECIFICATION WatchesSpec
CONSTANTS
  Vars = {1, 2, 3, 4, 5, 6}
  DecisionVars = {1, 2, 3, 4, 5, 6}
  Start <- Contradictory3
  Input = {}
  Questions <- TwoCalls
  CcMinModes = {2}
  MayStopEarly = FALSE
  MayPrefetch = FALSE
  MayRefine = TRUE
  MayGoOn = FALSE
  MaxSolves = 2
  MaxRestarts = 0
  MaxBiAsserting = 0
  MaxRemovals = 0
PROPERTIES ModelsSatisfy
CHECK_DEADLOCK FALSE
