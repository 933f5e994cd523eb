\* Two incremental calls of two threads that may run out of budget, with each fault.
SPECIFICATION LiveSpec
CONSTANTS
    p = p
    Threads = 2
    MaxRounds = 2
    MaxVars = 1
    MaxClauses = 1
    Assumptions <- NoAssumptions
    Budget = TRUE
    Faults <- OneFault
INVARIANTS
    TypeOK
    QuietSetup
    QuietBetweenRounds
    InterruptsAreOver
    NoThreadLeft
PROPERTIES
    CancelEndsNoTask
    AnswersTheFormula
    NoAnswerLost
    EveryCallReturns
