SPECIFICATION Spec
CONSTANTS
  Circuits <- FiveLatchCircuits
  Options <- DefaultOptions
INVARIANTS RelativeInduction
\* The program stops when it has answered.
CHECK_DEADLOCK FALSE
