\* Every graph on four nodes with at most two successors, which has loops with
\* two entries and list orders that need several walks; recomputed after every
\* redirection of an edge.
SPECIFICATION MCSpec
CONSTANTS
  N = 4
  MaxSuccessors = 2
INVARIANTS
  TypeOK
  DominatorsExact
  PostDominatorsExact
PROPERTIES
  ClearsWrong
  EveryCallReturns
CHECK_DEADLOCK FALSE
