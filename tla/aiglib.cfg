SPECIFICATION LibSpec
CONSTANTS
  MaxOperands = 5
  MaxLeaves = 2
  Sizes = {1, 2, 3}
INVARIANTS Meaning WordsCompute
\* Nothing more has to be built or computed.
CHECK_DEADLOCK FALSE
