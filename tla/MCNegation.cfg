\* Every condition of up to three comparisons, folded and negated in any order.
SPECIFICATION Spec
CONSTANTS
  Values <- MCValues
  MaxTests = 3
  Nested = FALSE
INVARIANTS
  ConditionIsFaithful
  PrintsAsMeant
