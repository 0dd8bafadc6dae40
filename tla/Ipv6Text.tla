------------------------------ MODULE Ipv6Text ------------------------------
(***************************************************************************)
(* The IPv6 text side of utilities/multiaddr.rs: parse_ipv6, which from_str *)
(* calls on the address after "/ip6/" and whose eight groups it writes as  *)
(* big-endian bytes, and the IPv6 arm of to_vec, which reads the sixteen   *)
(* bytes back as big-endian u16 groups and prints them as "{:x}" joined by *)
(* ':'.  Text is a sequence of one-character strings.                      *)
(*                                                                         *)
(* The operators are pure.  Multiaddr feeds the text forms of RFC 4291    *)
(* section 2.2, defined below as the reference, to from_str.               *)
(***************************************************************************)
EXTENDS Integers, Sequences, SequencesExt

CONSTANTS
  Ipv6Samples   \* eight-group addresses (values of u16) to check

ASSUME Ipv6Samples \subseteq [1..8 -> 0..65535]

Colon == <<":">>
DoubleColon == <<":", ":">>

LowerHex == <<"0", "1", "2", "3", "4", "5", "6", "7",
              "8", "9", "a", "b", "c", "d", "e", "f">>
UpperHex == <<"A", "B", "C", "D", "E", "F">>

\* The value of a hex digit of either case, as from_str_radix reads it.
HexValue ==
  [c \in Range(LowerHex) \cup Range(UpperHex) |->
     IF c \in Range(LowerHex) THEN CHOOSE k \in 0..15 : LowerHex[k + 1] = c
     ELSE 10 + CHOOSE k \in 0..5 : UpperHex[k + 1] = c]

(***************************************************************************)
(* str::split(sep): the pieces between the non-overlapping occurrences of  *)
(* sep, found left to right; a string without sep is one piece.            *)
(***************************************************************************)
RECURSIVE Split(_, _)
Split(s, sep) ==
  LET at == {k \in 1..(Len(s) - Len(sep) + 1) : SubSeq(s, k, k + Len(sep) - 1) = sep}
  IN  IF at = {} THEN <<s>>
      ELSE LET k == Min(at)
           IN  <<SubSeq(s, 1, k - 1)>> \o Split(SubSeq(s, k + Len(sep), Len(s)), sep)

\* .filter(|s| !s.is_empty())
NonEmpty(parts) == SelectSeq(parts, LAMBDA p : p # <<>>)

(***************************************************************************)
(* u16::from_str_radix(p, 16): an optional '+', then at least one hex      *)
(* digit of either case; a value above u16::MAX overflows.  -1 is the      *)
(* error, which parse_ipv6 maps to InvalidAddress.                         *)
(***************************************************************************)
FromStrRadix16(p) ==
  LET digits == IF p # <<>> /\ Head(p) = "+" THEN Tail(p) ELSE p
      value  == FoldLeft(LAMBDA acc, c : acc * 16 + HexValue[c], 0, digits)
  IN  IF digits = <<>> \/ \E k \in 1..Len(digits) : digits[k] \notin DOMAIN HexValue
      THEN -1
      ELSE IF value > 65535 THEN -1 ELSE value

InvalidAddress == [err |-> "InvalidAddress", segs |-> <<>>]

\* Mutant: the right-hand groups follow the left-hand ones directly.
Ipv6FillAfterLeft(left, right) ==
  [k \in 1..8 |-> IF k <= Len(left) + Len(right) THEN (left \o right)[k] ELSE 0]

(***************************************************************************)
(* The two fill loops: the left groups from index 0, the right groups     *)
(* ending at index 7 (j starts at 8 - right.len()), zeros in between.      *)
(***************************************************************************)
Ipv6Fill(left, right) ==
  [k \in 1..8 |-> IF k <= Len(left) THEN left[k]
                  ELSE IF k > 8 - Len(right) THEN right[k - (8 - Len(right))]
                  ELSE 0]

(***************************************************************************)
(* parse_ipv6: split on "::" (more than two parts is InvalidAddress), split *)
(* each part on ':' dropping empty pieces, refuse more than eight groups,  *)
(* then parse every group; any group that does not parse is                 *)
(* InvalidAddress.                                                          *)
(***************************************************************************)
ParseIpv6(addr) ==
  LET parts == Split(addr, DoubleColon)
      left  == NonEmpty(Split(parts[1], Colon))
      right == IF Len(parts) = 2 THEN NonEmpty(Split(parts[2], Colon)) ELSE <<>>
      lv    == [k \in 1..Len(left) |-> FromStrRadix16(left[k])]
      rv    == [k \in 1..Len(right) |-> FromStrRadix16(right[k])]
  IN  IF Len(parts) > 2 \/ Len(left) + Len(right) > 8 THEN InvalidAddress
      ELSE IF \E v \in Range(lv) \cup Range(rv) : v < 0 THEN InvalidAddress
      ELSE [err |-> "Ok", segs |-> Ipv6Fill(lv, rv)]

\* from_str: `for s in segs { bytes.extend_from_slice(&s.to_be_bytes()) }`
Ipv6Bytes(segs) == FlattenSeq([k \in 1..8 |-> <<segs[k] \div 256, segs[k] % 256>>])

\* Mutant: to_vec reads each group little-endian.
Ipv6GroupsLittleEndian(a) == [k \in 1..8 |-> a[2 * k - 1] + 256 * a[2 * k]]

\* to_vec: u16::from_be_bytes([a[2k], a[2k+1]]) for the eight groups.
Ipv6Groups(a) == [k \in 1..8 |-> 256 * a[2 * k - 1] + a[2 * k]]

\* "{:x}": lower-case hex without leading zeros.
RECURSIVE Hex(_)
Hex(v) == IF v < 16 THEN <<LowerHex[v + 1]>> ELSE Hex(v \div 16) \o <<LowerHex[(v % 16) + 1]>>

\* The pieces joined with sep between them.
Join(pieces, sep) ==
  FlattenSeq([k \in 1..Len(pieces) |-> IF k = 1 THEN pieces[k] ELSE sep \o pieces[k]])

\* The IPv6 arm of to_vec, without its "/ip6/" prefix.
RenderIpv6(a) == LET g == Ipv6Groups(a) IN Join([k \in 1..8 |-> Hex(g[k])], Colon)

-----------------------------------------------------------------------------
(***************************************************************************)
(* The reference: the text forms of RFC 4291 section 2.2 for an address,  *)
(* written without leading zeros in lower case (the canonical ones): all   *)
(* eight groups, or one run a..b of zero groups replaced by "::".          *)
(***************************************************************************)
Groups(segs, a, b) == [k \in 1..(b - a + 1) |-> Hex(segs[a + k - 1])]
FullForm(segs) == Join(Groups(segs, 1, 8), Colon)
TextForms(segs) ==
  {FullForm(segs)} \cup
  {Join(Groups(segs, 1, a - 1), Colon) \o DoubleColon \o Join(Groups(segs, b + 1, 8), Colon) :
     <<a, b>> \in {r \in (1..8) \X (1..8) :
                     r[1] <= r[2] /\ \A k \in r[1]..r[2] : segs[k] = 0}}
=============================================================================
