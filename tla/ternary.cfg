SPECIFICATION FairSpec
CONSTANTS
  Netlists <- BinaryNetlists
INVARIANTS Consistent StepForced NoneLeft
PROPERTIES Terminates
\* reduce() returns.
CHECK_DEADLOCK FALSE
