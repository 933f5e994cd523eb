\* Three threads, two calls of runJobs, then the destructor.
SPECIFICATION LiveSpec
CONSTANTS
    Threads = 3
    MaxRounds = 2
INVARIANTS
    TypeOK
    WorksWhenTold
    AllJobsDone
PROPERTIES
    RunsEachJobOnce
    EveryRoundEnds
    ShutdownEnds
