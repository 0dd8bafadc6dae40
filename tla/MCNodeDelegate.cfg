CONSTANTS
  n1 = n1
  n2 = n2
  a1 = a1
  a2 = a2
  a3 = a3
  a4 = a4
  None = None
SPECIFICATION Spec
INVARIANTS
  TypeOK
  RateCutPerPeriodBounded
