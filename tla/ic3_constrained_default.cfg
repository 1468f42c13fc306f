SPECIFICATION Spec
CONSTANTS
  Circuits <- ConstrainedCircuits
  Options <- DefaultOptions
INVARIANTS VerdictCorrect
\* The program stops when it has answered.
CHECK_DEADLOCK FALSE
