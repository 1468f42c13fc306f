SPECIFICATION FairSpec
CONSTANTS
  Circuits <- SmallCircuits
  Options <- PairsOfOptions
INVARIANTS PathsForced
PROPERTIES Terminates ImplementsModelChecking
\* The program stops when it has answered.
CHECK_DEADLOCK FALSE
