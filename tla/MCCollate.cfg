\* Every list of four blocks: enough for each of the five foldings, for two of
\* them one after the other, for a join that makes way for a folding and the
\* other way round, and for loops and dead code around all of these.
SPECIFICATION Spec
CONSTANTS
  N = 4
INVARIANTS
  TypeOK
  CarefulMeansSameProgram
  CarefulMeansDefined
  NothingLeft
PROPERTIES
  Terminates
CHECK_DEADLOCK FALSE
