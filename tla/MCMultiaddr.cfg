CONSTANTS
  W = 6
  RawInputs <- MCRawInputs
  Stacks <- MCStacks
  Builds = {TRUE, FALSE}
  Ipv6Samples <- MCIpv6Samples
SPECIFICATION Spec
INVARIANTS
  TypeOK
  VerifyMatchesGrammar
  FromStrRoundTrip
  VerifiedRenders
  Ipv6TextRoundTrip
CHECK_DEADLOCK FALSE
