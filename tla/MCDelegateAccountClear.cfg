CONSTANTS
  n1 = n1
  n2 = n2
  a1 = a1
  a2 = a2
  Nodes = {n1, n2}
  Accounts = {a1, a2, a3, a4}
  Coldkey <- MCColdkey
  PF = 1
  Rates = {0, 1, 2}
  None = None
INIT Init
NEXT Next
PROPERTIES
  BothAbsentClears
