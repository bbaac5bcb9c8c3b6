SPECIFICATION Spec
CONSTANTS
  Programs <- MCPrograms
  Large = 8
INVARIANTS
  TypeOK
  CarefulMeansSameProgram
  IdiomsConvert
  AddressesTellApart
CHECK_DEADLOCK FALSE
