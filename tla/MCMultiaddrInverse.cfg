CONSTANTS
  W = 6
  RawInputs <- MCRawInputs
  Stacks <- MCStacks
  Builds = {TRUE, FALSE}
  Ipv6Samples <- MCIpv6Samples
SPECIFICATION Spec
INVARIANT
  FromStrInvertsToVec
CHECK_DEADLOCK FALSE
