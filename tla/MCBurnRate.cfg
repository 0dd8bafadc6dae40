CONSTANTS
  s1 = s1
  s2 = s2
  Subnets = {s1, s2}
  PF = 10
  MinNodeBurnRate = 2
  MaxNodeBurnRate = 8
  BaseBurnAmount = 25
  Target <- MCTarget
  Alpha <- MCAlpha
  MaxRegistrations = 3
  Budgets = {0, 1, 2}
INIT Init
NEXT Next
INVARIANTS
  TypeOK
  TargetRateAccurate
PROPERTIES
  StepWithinHull
