CONSTANTS
    Vars = {1, 2, 3, 4, 5, 6, 7}
    MaxDepth = 3
    Starts <- SomeStarts
    Thread = {t1, t2}
SPECIFICATION Spec
INVARIANTS TypeOK NothingLost ModelsExtend
CHECK_DEADLOCK FALSE
