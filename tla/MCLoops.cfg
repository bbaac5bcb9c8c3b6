\* Four nodes: two loops one inside the other or side by side, loops with one
\* header, loops of one node, a loop found more than once.
SPECIFICATION MCSpec
CONSTANTS
  N = 4
  MaxSuccessors = 2
INVARIANTS
  TypeOK
  HeaderDominatesLoop
  LoopIsNatural
  LoopsNest
  CyclesAreInLoops
  InnerFirst
PROPERTIES
  Terminates
\* FindLoops returns.
CHECK_DEADLOCK FALSE
