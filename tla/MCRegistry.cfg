CONSTANTS
  MaxNodeId = 3
  p1 = p1
  p2 = p2
  p3 = p3
  h1 = h1
  h2 = h2
  h3 = h3
  c1 = c1
  c2 = c2
  Hotkeys <- MCHotkeys
  Coldkeys <- MCColdkeys
  PeerIds <- MCPeerIds
  Multiaddrs = {m1, m2}
  ValidMultiaddrs = {m1}
  UniqueTags = {u1}
  NonUniqueTags = {}
  OverwatchPeerIds <- MCOverwatchPeerIds
  Subnet = s1
  None = None
INIT Init
NEXT Next
SYMMETRY KeySymmetry
INVARIANTS
  TypeOK
  IndexSound
  PeerIndexComplete
  KeyIndexesExact
  KeysOwnerMatchesNode
  PeerIdOwnedByOne
  UniqueTagOwnedByOne
  ElectionSlotsAreActiveValidators
  LifecycleBookkeeping
