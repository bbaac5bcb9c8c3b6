\* Up to five instructions in one node or in two, two registers of which one
\* may be live at the end.
SPECIFICATION Spec
CONSTANTS
  Reg <- MCReg
  Plans <- MCPlans
  Sources <- MCSources
  MaxParams = 2
  Cuts <- MCCuts
  LiveOuts <- MCLiveOuts
INVARIANTS
  TypeOK
  CarefulMeansSameProgram
  StackIsLive
  UsesAreExact
\* The analysis ends.
CHECK_DEADLOCK FALSE
