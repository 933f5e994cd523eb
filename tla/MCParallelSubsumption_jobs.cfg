SPECIFICATION Spec
CONSTANTS
  Vars = {1, 2, 3, 4}
  Threads = {1, 2}
  Problems <- SomeProblems
  MayStop = FALSE
INVARIANTS NothingLost NothingInvented OneAtATime
PROPERTIES JobsEnd
