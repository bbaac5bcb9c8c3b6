\* The result of a call is assigned to a register and then not used.
SPECIFICATION Spec
CONSTANTS
  Reg <- MCReg
  Plans <- CallPlans
  Sources <- CallSources
  MaxParams = 0
  Cuts = {}
  LiveOuts <- MCLiveOuts
INVARIANTS
  CallsStay
\* The analysis ends.
CHECK_DEADLOCK FALSE
