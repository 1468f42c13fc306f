SPECIFICATION Spec
CONSTANTS
  MaxVar = 3
  Problems <- SomeProblems
  MaxClauses = 5
  MaxForgotten = 1
  MaxCancels = 3
INVARIANTS NothingMissed WatchedTwice
\* A conflict at level 0 ends the search.
CHECK_DEADLOCK FALSE
