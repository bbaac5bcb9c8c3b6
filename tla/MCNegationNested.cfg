\* The same with setcc results among the conditions.
SPECIFICATION Spec
CONSTANTS
  Values <- MCValues
  MaxTests = 2
  Nested = TRUE
PROPERTY
  NegationIsOpposite
