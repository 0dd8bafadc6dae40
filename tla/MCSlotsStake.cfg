CONSTANTS
  Subnets = {s1, s2}
  NodeIds = {n1, n2, n3, n4}
  a1 = a1
  a2 = a2
  Accounts = {a1, a2}
  Amounts = {0, 1, 3}
  MaxUnbondings = 2
  Supply = 4
SYMMETRY AccountSymmetry
SPECIFICATION SlotsStakeSpec
INVARIANTS
  SlotsTypeOK
  SlotIndexExact
  ElectableCountersMatch
  TypeOK
  TotalMatchesSum
  StakeConserved
PROPERTIES
  ImplementsElectableNodes
