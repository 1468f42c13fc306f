SPECIFICATION FairSpec
CONSTANTS
  MaxVar = 5
  Users <- SomeUsers
  MaxRestarts = 1
  restart_first = 2
INVARIANTS ReasonsHold FreeAreUnused
PROPERTIES ImplementsOracle Returns
\* Nobody has to ask another question.
CHECK_DEADLOCK FALSE
