SPECIFICATION CasesSpec
CONSTANTS
  Circuits <- AllCircuits
  Options <- AllOptions
INVARIANTS TypeOK FramesOverapproximate EarlierFramesGood VerdictCorrect WitnessReplays
INVARIANTS ClauseInductive ClauseBlocks SubsumedCovered
PROPERTIES FramesOnlyStrengthen
\* The program stops when it has answered.
CHECK_DEADLOCK FALSE
