SPECIFICATION FairSpec
CONSTANTS
  MaxVar = 5
  Problems <- Circuits
  Later <- MoreClauses
  Options <- DefaultOrAll
  use_elim = TRUE
  grow = 0
  clause_lim = 20
  subsumption_lim = 1000
INVARIANTS ModelExtended ModelsKept NothingLeft
PROPERTIES Terminates
\* The user need not ask again.
CHECK_DEADLOCK FALSE
