SPECIFICATION Spec
CONSTANTS
    Width = 4
    MaxVar = 3
    Added <- SomeClauses
    Decided <- SomeLiterals
    MaxClauses = 3
    MaxQueue = 1
INVARIANTS RefsValid MemoryAccounted
PROPERTIES Collected ViewKept
\* The program ends when it is out of memory.
CHECK_DEADLOCK FALSE
