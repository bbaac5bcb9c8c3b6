\* A join of the head of a loop with its tail.
SPECIFICATION Spec
CONSTANTS
  N = 4
PROPERTIES
  JoinReconnects
CHECK_DEADLOCK FALSE
