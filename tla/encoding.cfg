SPECIFICATION FairSpec
CONSTANTS
  Width = 5
  Group = 2
  Files <- SomeFiles
  Netlists <- SomeNetlists
  StartVars <- NoneOrTwo
INVARIANTS EncodesCircuit NoneEliminated AcceptsExactly TypesAgree ReadBack
PROPERTIES Finishes
\* The IC3 object takes over.
CHECK_DEADLOCK FALSE
