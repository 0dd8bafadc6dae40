----------------------------- MODULE MCRegistry -----------------------------
EXTENDS Registry

CONSTANTS p1, p2, p3,   \* peer ids, model values
          h1, h2, h3,   \* hotkeys
          c1, c2        \* coldkeys

MCPeerIds == {p1, p2, p3}
\* Peer id p3 is claimed by overwatch node 1.
MCOverwatchPeerIds == p3 :> 1
MCHotkeys == {h1, h2}
MCColdkeys == {c1, c2}
\* Keys are interchangeable: no definition names one.  So are the peer ids
\* p1 and p2, which no overwatch node claims.
KeySymmetry ==
  Permutations(MCHotkeys) \cup Permutations(MCColdkeys) \cup Permutations({p1, p2})
=============================================================================
