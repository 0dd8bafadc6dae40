------------------------------ MODULE Multiaddr ------------------------------
(***************************************************************************)
(* The multiaddr codec of utilities/multiaddr.rs.  Multiaddr::verify scans *)
(* a byte string as (protocol varint, payload) segments; the model takes   *)
(* one step per iteration of its `while i < bytes.len()` loop and one for  *)
(* the final /p2p check.  decode_varint, encode_varint, advance, to_vec    *)
(* and the byte-building half of from_str are operators.                   *)
(*                                                                         *)
(* usize has W bits (the runtime's wasm32 usize, scaled down); the varint  *)
(* value is a u64, wider than usize, so `len as usize` keeps its low W     *)
(* bits.  Of a u64 the model keeps the low 14 bits and whether any higher  *)
(* bit inside the 64 is set: every protocol code is below 2^14 and        *)
(* W <= 14, so this decides every comparison and every cast the code      *)
(* makes.  `*i + len` in advance overflows when the sum reaches 2^W: a     *)
(* build with overflow checks panics, one without wraps (Builds).         *)
(*                                                                         *)
(* to_vec renders every segment with an injective format (dotted decimal, *)
(* hex groups, decimal port, the name, base-58); the model keeps the       *)
(* (protocol, payload bytes) pair the string is made from.                 *)
(***************************************************************************)
EXTENDS Integers, Sequences, SequencesExt, Ipv6Text

CONSTANTS
  W,           \* bits of usize
  RawInputs,   \* byte strings passed to verify (do_verify_multiaddr)
  Stacks,      \* parsed segment stacks from_str encodes and verifies
  Builds       \* overflow-checks settings the build may have (BOOLEAN values)

ASSUME W \in 5..14 /\ Builds \subseteq BOOLEAN /\ <<>> \notin Stacks

\* Protocol codes.
IP4 == 4
IP6 == 41
TCP == 6
UDP == 17
DNS4 == 54
DNS6 == 55
DNSADDR == 56
P2P == 421
WS == 477
WSS == 478

DnsCodes == {DNS4, DNS6, DNSADDR}
PrefixedCodes == DnsCodes \cup {P2P}
FixedCodes == {IP4, IP6, TCP, UDP, WS, WSS}

\* from_str's `split('/').filter(|p| !p.is_empty())` never yields an empty
\* name or peer id, so no parsed stack has one.
ASSUME \A st \in Stacks : \A k \in 1..Len(st) :
         st[k].proto \in PrefixedCodes => st[k].payload # <<>>

\* The payload size advance is called with for a fixed-size protocol.
FixedPayload(p) ==
  CASE p = IP4 -> 4 [] p = IP6 -> 16 [] p \in {TCP, UDP} -> 2 [] p \in {WS, WSS} -> 0

USize == 2^W

\* bytes[a..b] with 0-based positions
Slice(s, a, b) == SubSeq(s, a + 1, b)

-----------------------------------------------------------------------------
(***************************************************************************)
(* decode_varint(&s[k..]): j bytes read so far, lo the value's low 14      *)
(* bits, hiZero that no bit from 14 to 63 is set.  Group j lands at shift *)
(* 7j; of the tenth group (shift 63) only bit 0 stays inside the u64.  A   *)
(* continuation bit on the tenth byte (shift would be 70) or running out   *)
(* of input gives None.                                                    *)
(***************************************************************************)
RECURSIVE DecodeFrom(_, _, _, _, _)
DecodeFrom(s, k, j, lo, hiZero) ==
  IF k + j >= Len(s) THEN [ok |-> FALSE]
  ELSE LET b     == s[k + j + 1]
           group == b % 128
           lo2   == IF j < 2 THEN lo + group * 128^j ELSE lo
           hz2   == hiZero /\ (j < 2 \/ (IF j = 9 THEN group % 2 = 0 ELSE group = 0))
       IN  IF b < 128 THEN [ok |-> TRUE, lo |-> lo2, hiZero |-> hz2, read |-> j + 1]
           ELSE IF 7 * (j + 1) > 63 THEN [ok |-> FALSE]
           ELSE DecodeFrom(s, k, j + 1, lo2, hz2)

DecodeVarint(s, k) == DecodeFrom(s, k, 0, 0, TRUE)

\* The decoded u64 compared with the protocol codes (-1: 2^14 or more).
ProtoOf(d) == IF d.hiZero THEN d.lo ELSE -1

\* `len as usize`, and whether the cast kept the whole value.
AsUsize(d) == d.lo % USize
FitsUsize(d) == d.hiZero /\ d.lo < USize

\* Mutant: the continuation bit is not set on the leading bytes.
RECURSIVE EncodeVarintNoFlag(_)
EncodeVarintNoFlag(value) ==
  IF value >= 128 THEN <<value % 128>> \o EncodeVarintNoFlag(value \div 128)
  ELSE <<value>>

\* encode_varint: low seven bits first, continuation bit on all but the last.
RECURSIVE EncodeVarint(_)
EncodeVarint(value) ==
  IF value >= 128 THEN <<(value % 128) + 128>> \o EncodeVarint(value \div 128)
  ELSE <<value>>

(***************************************************************************)
(* from_str, once each textual segment is parsed (the string parsing,     *)
(* parse_ipv6 and bs58 decoding are left out): the protocol varint, a     *)
(* length varint for DNS names and peer ids, then the payload bytes.       *)
(***************************************************************************)
SegmentBytes(seg) ==
  EncodeVarint(seg.proto)
    \o (IF seg.proto \in PrefixedCodes THEN EncodeVarint(Len(seg.payload)) ELSE <<>>)
    \o seg.payload

FromStrBytes(stack) == FlattenSeq([k \in 1..Len(stack) |-> SegmentBytes(stack[k])])

(***************************************************************************)
(* from_str of the text to_vec renders from segments.  An empty DNS name  *)
(* or peer id renders as an empty part, which from_str's filter drops: at *)
(* the end, `parts.next().ok_or(InvalidAddress)` fails; elsewhere the next *)
(* protocol name is taken as the name or peer id, whose length is not 0,  *)
(* so the bytes are not the ones rendered.  Either way from_str does not  *)
(* give back those segments (ok = FALSE).                                  *)
(***************************************************************************)
FromStrOfRendered(segs) ==
  IF \E k \in 1..Len(segs) : segs[k].proto \in PrefixedCodes /\ segs[k].payload = <<>>
  THEN [ok |-> FALSE]
  ELSE [ok |-> TRUE, bytes |-> FromStrBytes(segs)]

(***************************************************************************)
(* to_vec from position k: the segments, or the error it returns, or       *)
(* "Panic" when a slice is out of range.  `i + len as usize` overflowing   *)
(* panics with overflow checks and otherwise gives a slice end below its  *)
(* start, which panics too.  A DNS name must be UTF-8; the model's name    *)
(* bytes are ASCII or 0xFF, for which that is `every byte < 128`.         *)
(***************************************************************************)
Fail(err) == [err |-> err, segs |-> <<>>]
Rendered(seg, rest) == IF rest.err = "Ok" THEN [rest EXCEPT !.segs = <<seg>> \o @] ELSE rest
Utf8(name) == \A k \in 1..Len(name) : name[k] < 128

\* Mutant: the length varint is not skipped before the payload.
RECURSIVE ToVecFromNoSkip(_, _)
ToVecFromNoSkip(s, k) ==
  IF k >= Len(s) THEN [err |-> "Ok", segs |-> <<>>]
  ELSE LET d == DecodeVarint(s, k) IN
  IF ~d.ok THEN Fail("InvalidVarint")
  ELSE LET p == ProtoOf(d)
           j == k + d.read
  IN IF p \in FixedCodes THEN
       IF j + FixedPayload(p) > Len(s) THEN Fail("Panic")
       ELSE Rendered([proto |-> p, payload |-> Slice(s, j, j + FixedPayload(p))],
                     ToVecFromNoSkip(s, j + FixedPayload(p)))
     ELSE IF p \notin PrefixedCodes THEN Fail("InvalidProtocol")
     ELSE LET e == DecodeVarint(s, j) IN
     IF ~e.ok THEN Fail("InvalidVarint")
     ELSE LET n == AsUsize(e)
     IN IF j + n >= USize \/ j + n > Len(s) THEN Fail("Panic")
        ELSE Rendered([proto |-> p, payload |-> Slice(s, j, j + n)], ToVecFromNoSkip(s, j + n))

RECURSIVE ToVecFrom(_, _)
ToVecFrom(s, k) ==
  IF k >= Len(s) THEN [err |-> "Ok", segs |-> <<>>]
  ELSE LET d == DecodeVarint(s, k) IN
  IF ~d.ok THEN Fail("InvalidVarint")
  ELSE LET p == ProtoOf(d)
           j == k + d.read
  IN IF p \in FixedCodes THEN
       IF j + FixedPayload(p) > Len(s) THEN Fail("Panic")
       ELSE Rendered([proto |-> p, payload |-> Slice(s, j, j + FixedPayload(p))],
                 ToVecFrom(s, j + FixedPayload(p)))
     ELSE IF p \notin PrefixedCodes THEN Fail("InvalidProtocol")
     ELSE LET e == DecodeVarint(s, j) IN
     IF ~e.ok THEN Fail("InvalidVarint")
     ELSE LET m == j + e.read
              n == AsUsize(e)
     IN IF m + n >= USize \/ m + n > Len(s) THEN Fail("Panic")
        ELSE IF p \in DnsCodes /\ ~Utf8(Slice(s, m, m + n)) THEN Fail("InvalidAddress")
        ELSE Rendered([proto |-> p, payload |-> Slice(s, m, m + n)], ToVecFrom(s, m + n))

ToVec(s) == ToVecFrom(s, 0)

-----------------------------------------------------------------------------
VARIABLES
  input,            \* the bytes verify was called with
  stack,            \* the parsed stack from_str encoded them from, or <<>>
  i,                \* verify's position
  lastProto,        \* last_proto
  status,           \* "Scanning", what verify returned ("Panic": it panicked),
                    \* or from_str's error before verify
  ip6Addr,          \* the address whose IPv6 text from_str was given, or <<>>
  overflowChecks,   \* the build's overflow-checks setting
  lossy             \* a `len as usize` cast or an `*i + len` wrap lost bits

vars == <<input, stack, i, lastProto, status, overflowChecks, lossy, ip6Addr>>

(***************************************************************************)
(* from_str of "/ip6/<text>/p2p/1": the "ip6" arm calls parse_ipv6 and    *)
(* returns its error with `?`; otherwise the stack is the address's bytes *)
(* and the peer id "1" (bs58 of the byte 0), and from_str ends by calling *)
(* verify.                                                                 *)
(***************************************************************************)
Ip6Stack(segs) == <<[proto |-> IP6, payload |-> Ipv6Bytes(segs)], [proto |-> P2P, payload |-> <<0>>]>>

FromStrIpv6(text) ==
  LET r == ParseIpv6(text) IN
  IF r.err = "Ok" THEN /\ stack = Ip6Stack(r.segs)
                       /\ input = FromStrBytes(stack)
                       /\ status = "Scanning"
  ELSE /\ stack = <<>> /\ input = <<>> /\ status = r.err

Init ==
  /\ \/ /\ \/ input \in RawInputs /\ stack = <<>>
           \/ stack \in Stacks /\ input = FromStrBytes(stack)
        /\ status = "Scanning"
        /\ ip6Addr = <<>>
     \/ \E a \in Ipv6Samples : \E t \in TextForms(a) : ip6Addr = a /\ FromStrIpv6(t)
  /\ i = 0
  /\ lastProto = 0
  /\ overflowChecks \in Builds
  /\ lossy = FALSE

\* Mutant: the bound check against bytes.len() is dropped.
AdvanceUnchecked(k, n) ==
  IF k + n >= USize /\ overflowChecks THEN [status |-> "Panic", i |-> k, wrapped |-> FALSE]
  ELSE [status |-> "Scanning", i |-> (k + n) % USize, wrapped |-> k + n >= USize]

(***************************************************************************)
(* advance(bytes, &mut i, len): `*i + len > bytes.len()` is Truncated,    *)
(* else i moves to the sum.  The sum is taken in usize.                    *)
(***************************************************************************)
Advance(k, n) ==
  IF k + n >= USize /\ overflowChecks THEN [status |-> "Panic", i |-> k, wrapped |-> FALSE]
  ELSE IF (k + n) % USize > Len(input)
       THEN [status |-> "Truncated", i |-> k, wrapped |-> k + n >= USize]
       ELSE [status |-> "Scanning", i |-> (k + n) % USize, wrapped |-> k + n >= USize]

Return(err) == status' = err /\ UNCHANGED <<input, stack, i, lastProto, overflowChecks, lossy, ip6Addr>>

(***************************************************************************)
(* One iteration of verify's loop: the protocol varint, then a fixed      *)
(* advance, or a length varint and an advance by `len as usize`; an        *)
(* unknown code or a bad varint returns at once.                           *)
(***************************************************************************)
VerifySegment ==
  /\ status = "Scanning"
  /\ i < Len(input)
  /\ LET d == DecodeVarint(input, i)
         p == ProtoOf(d)
         j == i + d.read
         e == DecodeVarint(input, j)
         r == IF p \in FixedCodes THEN Advance(j, FixedPayload(p))
              ELSE Advance(j + e.read, AsUsize(e))
     IN  IF ~d.ok THEN Return("InvalidVarint")
         ELSE IF p \notin FixedCodes \cup PrefixedCodes THEN Return("InvalidProtocol")
         ELSE IF p \in PrefixedCodes /\ ~e.ok THEN Return("InvalidVarint")
         ELSE /\ status' = r.status
              /\ i' = r.i
              /\ lastProto' = IF r.status = "Scanning" THEN p ELSE lastProto
              /\ lossy' = (lossy \/ r.wrapped \/ (p \in PrefixedCodes /\ ~FitsUsize(e)))
              /\ UNCHANGED <<input, stack, overflowChecks, ip6Addr>>

\* Mutant: the final /p2p check is dropped.
VerifyEndAnyProto ==
  /\ status = "Scanning"
  /\ i >= Len(input)
  /\ Return("Ok")

\* The loop has ended: the address is valid only if it ends with /p2p.
VerifyEnd ==
  /\ status = "Scanning"
  /\ i >= Len(input)
  /\ Return(IF lastProto = P2P THEN "Ok" ELSE "InvalidProtocol")

Next == VerifySegment \/ VerifyEnd

Spec == Init /\ [][Next]_vars

\* verify is straight-line code: once called, its loop keeps stepping.
LiveSpec == Spec /\ WF_vars(Next)

-----------------------------------------------------------------------------
(***************************************************************************)
(* The reference grammar, written as a language rather than a scan.  A     *)
(* varint is 1 to 10 bytes with the continuation bit on all but the last; *)
(* its value is exact below 2^14, and a group from the third on must      *)
(* vanish inside 64 bits for the value to stay below 2^14.                 *)
(***************************************************************************)
IsVarint(v) == Len(v) \in 1..10 /\ \A k \in 1..Len(v) : (v[k] >= 128) = (k < Len(v))
HighGroupsVanish(v) ==
  \A k \in 3..Len(v) : IF k = 10 THEN v[k] % 2 = 0 ELSE v[k] % 128 = 0
LowValue(v) == (v[1] % 128) + (IF Len(v) >= 2 THEN (v[2] % 128) * 128 ELSE 0)
VarintValue(v) == IF HighGroupsVanish(v) THEN LowValue(v) ELSE -1

\* seg is exactly one segment of a protocol in codes, its length exact.
IsSegmentOf(seg, codes) ==
  \E a \in 1..Len(seg) :
    LET code == SubSeq(seg, 1, a)
        rest == SubSeq(seg, a + 1, Len(seg))
    IN  /\ IsVarint(code)
        /\ VarintValue(code) \in codes
        /\ \/ /\ VarintValue(code) \in FixedCodes
              /\ Len(rest) = FixedPayload(VarintValue(code))
           \/ /\ VarintValue(code) \in PrefixedCodes
              /\ \E b \in 1..Len(rest) :
                   /\ IsVarint(SubSeq(rest, 1, b))
                   /\ VarintValue(SubSeq(rest, 1, b)) = Len(rest) - b

\* s is a concatenation of whole segments.
RECURSIVE Segments(_)
Segments(s) ==
  \/ s = <<>>
  \/ \E k \in 1..Len(s) :
       IsSegmentOf(SubSeq(s, 1, k), FixedCodes \cup PrefixedCodes)
       /\ Segments(SubSeq(s, k + 1, Len(s)))

\* A valid multiaddr: whole segments, the last one /p2p.
ValidStack(s) ==
  \E k \in 0..Len(s) - 1 :
    Segments(SubSeq(s, 1, k)) /\ IsSegmentOf(SubSeq(s, k + 1, Len(s)), {P2P})

Returned == status # "Scanning"

-----------------------------------------------------------------------------
TypeOK ==
  /\ input \in Seq(0..255)
  /\ i \in 0..Len(input)
  /\ status \in {"Scanning", "Ok", "InvalidVarint", "InvalidProtocol", "Truncated", "Panic",
                "InvalidAddress"}
  /\ ip6Addr \in Ipv6Samples \cup {<<>>}
  /\ overflowChecks \in BOOLEAN
  /\ lossy \in BOOLEAN

(***************************************************************************)
(* Apart from a cast or a wrap that lost bits, verify agrees with the     *)
(* grammar: it returns Ok exactly for whole segments ending in /p2p.  The  *)
(* scan must resynchronise on every segment boundary, through fixed and   *)
(* length-prefixed payloads and multi-byte varints.                        *)
(***************************************************************************)
VerifyMatchesGrammar ==
  Returned /\ ~lossy => ((status = "Ok") <=> ValidStack(input))

(***************************************************************************)
(* The spec's round trip: the bytes from_str builds from a stack ending in *)
(* /p2p pass verify, and to_vec of them gives back the same segments.      *)
(***************************************************************************)
FromStrRoundTrip ==
  Returned /\ stack # <<>> /\ stack[Len(stack)].proto = P2P =>
    /\ status = "Ok"
    /\ ToVec(input) = [err |-> "Ok", segs |-> stack]

(***************************************************************************)
(* to_vec re-decodes what verify accepted: it neither panics on a slice    *)
(* nor fails on a varint or a protocol; the one error left is a DNS name  *)
(* that is not UTF-8, which verify does not look at.                       *)
(***************************************************************************)
VerifiedRenders ==
  status = "Ok" /\ ~lossy => ToVec(input).err \in {"Ok", "InvalidAddress"}

(***************************************************************************)
(* The spec's parser/encoder consistency for IPv6: from_str of any         *)
(* canonical text form of an address, compressed or not, does not fail in  *)
(* parse_ipv6, and to_vec of the bytes it builds prints the full form of   *)
(* the same address.  Breaks if the "::" split, the filtering of empty     *)
(* pieces, the placement of the right-hand groups, the hex parsing or the  *)
(* byte order goes wrong.                                                   *)
(***************************************************************************)
Ipv6TextRoundTrip ==
  ip6Addr # <<>> =>
    /\ status # "InvalidAddress"
    /\ LET v == ToVec(input)
       IN  v.err = "Ok" /\ RenderIpv6(v.segs[1].payload) = FullForm(ip6Addr)

(***************************************************************************)
(* The spec: from_str is the inverse of to_vec.  For an address verify     *)
(* accepted and to_vec renders, from_str of the rendering, when it         *)
(* accepts it, gives back the same bytes, so one address has one encoding  *)
(* (the registry keys MultiaddrSubnetNodeId by these bytes).               *)
(***************************************************************************)
FromStrInvertsToVec ==
  status = "Ok" /\ ToVec(input).err = "Ok" =>
    LET f == FromStrOfRendered(ToVec(input).segs) IN f.ok => f.bytes = input

(***************************************************************************)
(* Every call of verify returns: its loop does not run forever.            *)
(***************************************************************************)
VerifyTerminates == <>Returned
=============================================================================
