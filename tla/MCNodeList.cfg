SPECIFICATION Spec
\* M = 3 is enough for a node with two predecessors that is copied, a loop,
\* a switch, and a conditionally executed instruction between two others.
CONSTANTS
  M = 3
INVARIANTS
  TypeOK
  NothingDropped
  AllConnected
  SameFlow
PROPERTIES
  Terminates
\* CreateList returns.
CHECK_DEADLOCK FALSE
