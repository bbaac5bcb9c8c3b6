\* Every graph on three nodes; the bits of a BoolArray never mix, so one
\* register stands for all of them.
SPECIFICATION Spec
CONSTANTS
  N = 3
  Registers = {eax}
INVARIANTS
  TypeOK
  NothingSpurious
  NothingMissed
PROPERTIES
  CollectsLive
  Terminates
CHECK_DEADLOCK FALSE
