SPECIFICATION LiveSpec
CONSTANTS
  Vars = {1, 2, 3, 4, 5}
  DecisionVars = {1, 2, 3}
  Start <- Hard
  Input <- Last
  Questions <- Plain
  CcMinModes = {0, 2}
  MayStopEarly = FALSE
  MayPrefetch = FALSE
  MayRefine = FALSE
  MaxSolves = 1
  MaxRestarts = 1
  MaxBiAsserting = 1
  MaxRemovals = 1
INVARIANTS Implied
PROPERTIES LearnsSomethingNew EveryCallReturns
CHECK_DEADLOCK FALSE
