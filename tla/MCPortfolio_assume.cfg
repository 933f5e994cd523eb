\* A call with assumptions.
SPECIFICATION Spec
CONSTANTS
    p = p
    Threads = 2
    MaxRounds = 1
    MaxVars = 1
    MaxClauses = 1
    Assumptions <- SomeAssumptions
    Budget = FALSE
    Faults <- NoFaults
INVARIANTS
    ModelsRespectAssumptions
