CONSTANTS
  W = 6
  RawInputs <- MCRawInputs
  Stacks <- MCStacks
  Builds = {FALSE}
  Ipv6Samples <- MCIpv6Samples
SPECIFICATION LiveSpec
PROPERTY
  VerifyTerminates
CHECK_DEADLOCK FALSE
