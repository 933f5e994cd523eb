SPECIFICATION Spec
CONSTANTS
  Vars = {1, 2, 3, 4}
  DecisionVars = {1, 2, 3, 4}
  Start <- Easy
  Input <- Later
  Questions <- Assuming
  CcMinModes = {2}
  MayStopEarly = TRUE
  MayPrefetch = TRUE
  MayRefine = TRUE
  MaxSolves = 2
  MaxRestarts = 1
  MaxBiAsserting = 0
  MaxRemovals = 1
INVARIANTS TypeOK NothingLost ReasonsHold AssumptionsFirst
PROPERTIES KeepsPromise
CHECK_DEADLOCK FALSE
