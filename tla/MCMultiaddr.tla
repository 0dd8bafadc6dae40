----------------------------- MODULE MCMultiaddr -----------------------------
(***************************************************************************)
(* Multiaddr for TLC.  usize has 6 bits, so every input (at most 47 bytes) *)
(* plus the 16-byte IPv6 payload fits in it, as a real input fits in a    *)
(* real usize, and only a declared length can overflow `*i + len`.        *)
(*                                                                         *)
(* Raw inputs are every string of up to 5 bytes over an alphabet that     *)
(* spells the protocol codes P2P (A5 03), DNS4 (36), zero and one         *)
(* lengths, a non-canonical continuation (83, so A5 83 00 is P2P), a      *)
(* length that wraps (3D = 61: 3 + 61 = 2^6), a length that loses bits in *)
(* the cast (81 01 = 129, 129 mod 64 = 1) and a non-UTF-8 byte (FF).       *)
(***************************************************************************)
EXTENDS Multiaddr

Bytes == {0, 1, 3, 54, 61, 129, 131, 165, 255}

MCRawInputs == SeqOf(Bytes, 5)

\* Parsed segments with payloads of the right sizes; names are text, and
\* names and peer ids are not empty (from_str's filter drops empty parts).
Segs ==
  { [proto |-> IP4, payload |-> <<1, 2, 3, 4>>],
    [proto |-> IP6, payload |-> [k \in 1..16 |-> 0]],
    [proto |-> TCP, payload |-> <<0, 80>>],
    [proto |-> WS, payload |-> <<>>],
    [proto |-> DNS4, payload |-> <<97>>],
    [proto |-> DNSADDR, payload |-> <<97, 98>>],
    [proto |-> P2P, payload |-> <<18, 32>>] }

MCStacks == SeqOf(Segs, 3) \ {<<>>}

\* Addresses whose IPv6 text forms from_str is given: every pattern of zero
\* and 0xa0 groups (every run of zero groups; 0xa0 has a letter and two
\* digits, and its bytes 00 a0 tell the byte order apart), and two with
\* one- and four-digit groups.
MCIpv6Samples ==
  [1..8 -> {0, 160}] \cup {<<1, 0, 0, 0, 0, 0, 0, 65535>>, <<4660, 0, 0, 1, 0, 0, 0, 43981>>}
=============================================================================
