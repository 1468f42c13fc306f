SPECIFICATION Spec
CONSTANTS
  c1 = c1
  c2 = c2
  Cubes <- TwoCubes
  MaxDepth = 5
  MaxTCubes = 5
INVARIANTS Counted
PROPERTIES ImplementsQueue
\* block_cube may return a counterexample.
CHECK_DEADLOCK FALSE
