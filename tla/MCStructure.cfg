SPECIFICATION Spec
CONSTANTS
  N = 6
  Programs <- MCPrograms
INVARIANTS
  TypeOK
  CarefulMeansSameProgram
  CrashMeansNoWayOut
CHECK_DEADLOCK FALSE
