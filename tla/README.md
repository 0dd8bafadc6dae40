# TLA+ models of the Hypertensor network pallet utilities

This directory models, for the TLC model checker, the stateful parts of
`src/pallets/network/src/utilities/subnet_node.rs`,
`src/pallets/network/src/utilities/multiaddr.rs`,
`src/pallets/network/src/utilities/math.rs` and
`src/pallets/network/src/stake/delegate_account.rs`.
`PROJECT.json` lists the components, the runs, the mutants that show each
property can fail, the map from every modelling definition to the source lines
it translates, the findings and the hazards.

## The system

The sources are helper functions of a Substrate (FRAME) pallet. Every
dispatchable that calls them runs inside a storage transaction. If a call
returns `Err`, all of its writes are undone. The models therefore treat a
rejected call as a stuttering step, and its error paths become negated guards
of the action. Nothing runs concurrently inside a block. The interleavings
that matter are the orders in which different nodes' extrinsics land, and the
orders of registration, update, graduation and removal calls.

### Inventory

| Component | State (storage items) | Operations | Interacts with |
|---|---|---|---|
| Identity registry | `SubnetNodesData`, `RegisteredSubnetNodesData`, `SubnetNodeQueue`, `PeerIdSubnetNodeId`, `BootnodePeerIdSubnetNodeId`, `ClientPeerIdSubnetNodeId`, `MultiaddrSubnetNodeId`, `UniqueParamSubnetNodeId`, `HotkeySubnetNodeId`, `SubnetNodeIdHotkey`, `HotkeyOwner`, `ColdkeySubnetNodes`, `TotalSubnetNodes`, `TotalActiveSubnetNodes` | `do_update_peer_id`, `do_update_bootnode_peer_id`, `do_update_client_peer_id`, `do_update_unique`, `do_update_non_unique`, `validate_peer_info`, `is_owner_of_*_or_ownerless`, `graduate_class`, `perform_remove_subnet_node`, `remove_active_subnet_node`, `remove_registered_subnet_node`, `common_remove_subnet_node`, `get_subnet_node_hotkey_coldkey`, `is_subnet_node_keys_owner`, `is_subnet_node_coldkey`. Registration and activation live outside these sources. | election slots (removal of a Validator), multiaddr codec (`do_verify_multiaddr`) |
| Election slots | `SubnetNodeElectionSlots`, `NodeSlotIndex`, `TotalSubnetElectableNodes`, `TotalElectableNodes` | `insert_node_into_election_slot`, `remove_node_from_election_slot` (swap-remove) | registry |
| Burn-rate controller | `NodeRegistrationsThisEpoch`, `CurrentNodeBurnRate`, parameters `TargetNodeRegistrationsPerEpoch`, `NodeBurnRateAlpha`, `Min/MaxNodeBurnRate` | `record_registration`, `update_burn_rate_for_epoch` (weight-metered), `calculate_target_burn_rate`, `calculate_burn_amount` | `percent_mul`, `percent_div` |
| Fixed-point math | none | `percent_mul`, `percent_div` (pure) | burn-rate controller |
| Shaping curves | none | `sigmoid_decreasing` and its `v2`, `v3`, `asymmetric` and `start_offset` variants, `round_f64`, `concave_down_decreasing` (pure, f64 through libm) | no caller in these sources |
| Reward-rate updates | `delegate_reward_rate` and `last_delegate_reward_rate_update` of a node | `do_update_node_delegate_reward_rate` | block clock |
| Delegate account and hotkey | `delegate_account` and `hotkey` of a node, `HotkeyOwner` | `do_update_delegate_account`, `validate_delegate_account`, `update_subnet_node_hotkey` | registry partitions |
| Delegate stake balances | `AccountDelegateStake`, `TotalAccountDelegateStake`, unbonding ledger | `do_add/remove/transfer` of delegate balance, saturating increase and decrease | staking ledger |
| Multiaddr codec | none (pure) | `Multiaddr::verify`, `to_vec`, `from_str`, `parse_ipv6`, `decode_varint`, `encode_varint`, `advance` | registry (validation) |

Hard behaviours the code has to get right:
- the multiaddr index is shared by three roles;
- `perform_update_unique` removes before it checks;
- the ownership check decides on the first index holding a peer id;
- removal must undo many index entries at once;
- the swap-remove must rewrite the moved node's index;
- saturating counters hide drift;
- the burn-rate EMA works in fixed point and truncates;
- the burn-rate update is skipped when the weight budget runs out;
- the reward-rate limit subtracts `u32` block numbers, and a cut split over
  several calls must still respect it;
- the sigmoid curves switch between two formulas at `mid`, and `f64::clamp`
  panics when its bounds are the wrong way round;
- the varint decoder accepts non-canonical encodings;
- `parse_ipv6` must place the groups after `::` at the end of the address.

## Modules

| Module | Models | State and actions |
|---|---|---|
| `ElectableNodes` | the promise of the election slots: a set of electable node ids per subnet | `electable`; `Insert`, `Remove` |
| `ElectionSlots` | `insert_node_into_election_slot`, `remove_node_from_election_slot` | the four storage items as functions; one action per function |
| `Registry` | the identity registry of one subnet with the node lifecycle, composing `ElectionSlots` | one VARIABLE per storage item, the hotkey and coldkey indexes included; one action per update or removal function; the key lookups as operators; `RegisterSubnetNode` and `ActivateSubnetNode` from the spec |
| `BurnRate` | `record_registration`, `update_burn_rate_for_epoch`, `calculate_target_burn_rate`, `calculate_burn_amount`, `percent_mul`, `percent_div` | registrations and rate per subnet, the epoch's weight meter, the subnets the scheduler has still to visit; `NextEpoch` (the scheduler) from the spec |
| `RewardRate` | `do_update_node_delegate_reward_rate` | rate per node, and the age of its last update capped at the period; `Tick` is a block; the history variable `recent` holds the highest rate of each of the last period's blocks |
| `DelegateAccount` | `do_update_delegate_account`, `validate_delegate_account`, `update_subnet_node_hotkey` | hotkey and delegate account per node, and the arguments and result of the latest update call; `TransferDelegateAccount` from the spec |
| `DelegateStake` | `do_remove_delegate_balance`, `increase_` and `decrease_delegate_account_balance` | the balances, their total, the unbonding ledger and each account's free tokens; the ledger's refusal and release from the spec |
| `Multiaddr` | `Multiaddr::verify`, `advance`, `decode_varint`, `encode_varint`, `to_vec`, and `from_str` (its IPv6 arm through `Ipv6Text`) | the input, the scan position, `last_proto`, the result (or `from_str`'s error), the build's overflow-check setting, the address whose IPv6 text `from_str` was given; one step per loop iteration |
| `Ipv6Text` | `parse_ipv6`, the IPv6 arm of `from_str` (`to_be_bytes`) and of `to_vec` (big-endian groups printed as `{:x}`) | none: pure operators over text as sequences of one-character strings, and the reference text forms of RFC 4291 |
| `Shaping` | the shaping curves of `math.rs` | the latest call (curve and arguments) and its value; one action per curve, and `Return` |
| `MCNodeDelegate` | `DelegateAccount` and `RewardRate` side by side, as the two delegate settings of one node record | the interleaving of both components' steps |
| `MCSlotsStake` | `ElectionSlots` and `DelegateStake` side by side; they share no storage item | the interleaving of both components' steps, in one run |
| `MC*` | model-checking instances | model values, bounds, symmetry |

### Storage and records

A storage map is a TLA+ function whose domain is the set of keys present.
`MapPut`, `MapRemove` and their `Option` forms (`None` is a model value) are
`insert` and `remove`. A node record keeps only the fields that a property
reads: the three peer infos, `unique`, `non_unique` and the class. Peer ids,
multiaddrs and tags are model values. In `Registry`, `Multiaddr::verify` is
abstracted to membership in `ValidMultiaddrs`. The `Multiaddr` module models
the codec itself.

A node record also keeps its hotkey. `HotkeySubnetNodeId` and
`SubnetNodeIdHotkey` are inverse maps, and `ColdkeySubnetNodes` maps a
coldkey to a map from the subnet to its set of node ids. Removal finds the
coldkey through `HotkeyOwner` at removal time (line 893) and drops the
subnet's entry once its set is empty (line 899). Hotkeys and coldkeys are
model values.

### Refinement

`ElectionSlots` refines `ElectableNodes` under the mapping
`electable <- [s |-> Range(subnetNodeElectionSlots[s])]`. This is checked as
the PROPERTY `ImplementsElectableNodes`.

`Registry` instantiates `ElectionSlots` for its one subnet. `GraduateClass`
inserts a node that becomes a Validator. `RemoveActiveSubnetNode` removes a
Validator, as `remove_active_subnet_node` does.

### Fixed point

`BurnRate` keeps `percent_mul` and `percent_div` exact, truncation included,
but with a precision factor `PF` of 10 instead of 10^18. The controller's
rounding effects then show up at a coarse grain. The U256 overflow branch of
`percent_mul` cannot be reached with two `u128` operands, so it is left out.

### The codec at a reduced word size

In `Multiaddr`, `usize` has `W` = 6 bits. This scales down the 32-bit `usize`
of the wasm runtime.

A decoded varint is a `u64`, wider than `usize`. The model keeps its low 14
bits and whether any higher bit below 64 is set. That decides every protocol
comparison, because every protocol code is below 2^14. It also decides every
`len as usize` cast, because `W <= 14`.

`decode_varint` drops the bits of the tenth byte that land beyond bit 63.
The model does this exactly: only bit 0 of the tenth group survives.

`*i + len` overflows when the sum reaches 2^W:
- with overflow checks, the code panics;
- without them, the sum wraps.

`Builds` chooses between the two. The `lossy` flag records that a cast or a
wrap lost bits.

`to_vec` renders each segment with an injective format: dotted decimal, hex
groups, a decimal port, the name, or base-58. The model keeps the
(protocol, payload bytes) pair that each string is made from.

The reference grammar (`ValidStack`) is written as a language:
- `Segments` splits a byte string into whole segments;
- `IsSegmentOf` is a varint code followed by a payload of the right length.

It is not a scan, so it is independent of `verify`'s loop structure.

### IPv6 text

`Ipv6Text` models text as a sequence of one-character strings. `Split` is
`str::split`: the pieces between the leftmost non-overlapping matches.
`FromStrRadix16` is `u16::from_str_radix(p, 16)`: an optional `+`, hex digits
of either case, and an error on overflow. `ParseIpv6` follows `parse_ipv6`
line by line. `RenderIpv6` is the IPv6 arm of `to_vec`.

The reference is independent of the parser. `TextForms` lists the text forms
of RFC 4291 section 2.2 for an address in lower case without leading zeros:
the full form, and each run of zero groups replaced by `::`.

`Multiaddr`'s `Init` can start from `from_str` of `/ip6/<text>/p2p/1` for any
of these forms (`FromStrIpv6`). The variable `ip6Addr` keeps the address. A
`parse_ipv6` error ends the call before `verify`, with status
`InvalidAddress`. Otherwise `verify` scans the bytes, as it does for every
other input. `Ipv6TextRoundTrip` then reads `to_vec` of those bytes.

### The shaping curves in exact arithmetic

`Shaping` computes with exact rationals and the three IEEE values that
are not finite: `PosInf`, `NegInf` and `NaN`, written with denominator 0.
`Plus`, `Times`, `Over`, `Lt` and `Le` follow IEEE 754 on them: NaN absorbs
and compares false, inf − inf, 0·inf, inf/inf and 0/0 are NaN, and x/+0 is a
signed infinity. f64 rounding is left out: every operation the curves use
is monotone under round-to-nearest, and no property depends on a last bit.

libm `exp` overflows to +inf above ln(f64::MAX) = 709.7827…; the model
takes 709.78, and no exponent of the grids lies between the two. Below it,
`exp` is replaced by its Taylor polynomial 1 + d + d²/2. The curves
call `exp` only with d = k·|x − mid| ≥ 0. On that range both functions are
1 at 0, positive and strictly increasing, and that is all the properties
use. `pow` is taken at integer powers, where it is exact, with
`pow(x, 0) = 1` as in libm.

`f64::clamp` asserts `min <= max`. A clamp with its bounds reversed is
therefore the outcome `Panic`; it returns NaN unchanged.

Each call is an action that records the curve, its arguments and the value
the code returns. The properties evaluate the same curve at other arguments
and compare. `Return` hands the value back, so that a caller can call again.

## Runs

| Run | Checks | Result |
|---|---|---|
| `slots_stake` (`MCSlotsStake.cfg`) | `SlotsTypeOK`, `SlotIndexExact`, `ElectableCountersMatch`, `ImplementsElectableNodes` over 2 subnets and 4 node ids, all interleavings of inserts and removals; `TypeOK`, `TotalMatchesSum`, `StakeConserved` of the delegate stake, interleaved with them | pass, 574,600 states with account symmetry, under 2 minutes |
| `registry` (`MCRegistry.cfg`) | `TypeOK`, `IndexSound`, `PeerIndexComplete`, `PeerIdOwnedByOne`, `UniqueTagOwnedByOne`, `ElectionSlotsAreActiveValidators`, `LifecycleBookkeeping`, `KeyIndexesExact`, `KeysOwnerMatchesNode` | pass, 114,080 states with hotkey, coldkey and peer-id symmetry, about 2.5 minutes on one worker |
| `registry_addr_unique` (`MCRegistryAddr.cfg`) | `AddrOwnedByOne` | violation |
| `burn_rate` (`MCBurnRate.cfg`) | `TypeOK`, `TargetRateAccurate`, `StepWithinHull` | pass, 6,048 states |
| `node_delegate` (`MCNodeDelegate.cfg`) | `TypeOK`, `RateCutPerPeriodBounded` | pass, 363,000 states, about 70 s |
| `delegate_self` (`MCDelegateAccountSelf.cfg`) | `NoSelfDelegation`, code operations only | violation |
| `delegate_clear` (`MCDelegateAccountClear.cfg`) | `BothAbsentClears` | violation |
| `multiaddr` (`MCMultiaddr.cfg`) | `TypeOK`, `VerifyMatchesGrammar`, `FromStrRoundTrip`, `VerifiedRenders`, `Ipv6TextRoundTrip` | pass, about 279,000 states, under 20 s |
| `multiaddr_inverse` (`MCMultiaddrInverse.cfg`) | `FromStrInvertsToVec` | violation |
| `multiaddr_loop` (`MCMultiaddrLoop.cfg`) | `VerifyTerminates` under `WF_vars(Next)`, overflow checks off | violation |
| `shaping` (`MCShaping.cfg`) | `TypeOK`, `ShapeWithinRange`, `ShapeDecreasing`, `SigmoidSymmetric`, `ConcaveEndpoints` | pass, 3,481 states |
| `shaping_overflow` (`MCShapingOverflow.cfg`) | `ShapeWithinRange`, with k = 1000 and `x_start` = 1 added to the grid | violation |

Every property of a passing run has a mutant in `PROJECT.json`: a plausible
bug in the mapped definition, under which TLC finds the property violated.

Some guarantees are a single statement of the code and have no property of
their own. The burn rate is clamped into [min, max] as the last step of
`update_burn_rate_for_epoch`, and every stored delegate rate has passed
`validate_delegate_account`'s `rate <= PF && rate > 0`. An invariant would
only restate that line.

### Bounds

`registry`:
- three node ids, so one id can be removed and the others still collide with it;
- three peer ids, one of them an overwatch node's peer id, so the fourth index of `is_owner_of_peer_or_ownerless` is reached; the other two are symmetric;
- two multiaddrs, one of which fails verification;
- one unique tag, so two nodes compete for it;
- two hotkeys and two coldkeys, so one coldkey can own two nodes and a
  removal must keep the other node in the coldkey's set. Removal frees a
  hotkey, so the hotkey can register again. A third hotkey made the run
  take over six minutes.

With these bounds TLC reaches every one of the following:
- a node holds the same multiaddr in two roles;
- a node is a Validator and is removed from the slots;
- a registered node is removed out of queue order;
- a tag or a peer id is freed and then claimed by another node.

The non-unique tag set is empty. Its update writes a field that no index
reads, so `UpdateNonUnique` still fires, with `None`.

`burn_rate`:
- two subnets with targets 2 and 3 and alphas 0.3 and 0.7;
- min 0.2, max 0.8 and base 25;
- up to 3 registrations per epoch, which covers below, at and above target;
- budgets of 0 to 2 updates, so an epoch can pay for both subnets, for one, or for none.

`node_delegate`:
- delegate account: two nodes with distinct coldkeys and four accounts. An
  account can therefore be a hotkey, a coldkey, another node's hotkey or
  unrelated. The rates 0, 1 and 2 lie below, in and above (0, PF] with
  PF = 1.
- reward rate: node `n1` with PF = 4 (quarters), a maximum rate of 3/4, a
  maximum decrease of 1/4, a period of 2 blocks, and requested rates 0..5.
  These include rates above both caps, and room for two successive cuts
  (3 to 2 to 1), which is what a cut split over several calls needs. A
  second node adds nothing here: nodes share only the clock.
- The two components share no field, so their product adds no behaviour.
  `RateCutPerPeriodBounded` replaces an earlier property that restated the
  guards of a single call. It is a statement about windows of blocks that
  depends on the age guard, its reset and the direction of the decrease
  check together.

`shaping`:
- x from 0 to 5/4 in quarters: the documented [0, 1] and one step past it,
  where the clamps of `concave_down_decreasing` matter;
- midpoints 1/4, 1/2 and 3/4;
- steepness 0 (flat), 2 and 4, also as separate front and back steepness;
- bounds 0, 1/4, 3/4 and 1, with every pair where min <= max;
- `x_start` 0, 1/4 and 1/2, so some x lie below `x_start`;
- 0, 1 or 2 decimal places;
- powers 0 (replaced by 1) to 3.

`slots_stake` (the slots: 2 subnets and 4 node ids, so a removal moves
another node's slot; the stake:)
- two accounts with 4 free tokens each;
- amounts 0, 1 and 3, which hit AmountZero, small and large removals;
- a ledger of 2 entries per account, which fills up and refuses.

`multiaddr`:
- raw inputs are every string of up to 5 bytes over the alphabet
  {00, 01, 03, 36, 3D, 81, 83, A5, FF}. Together these spell P2P (`A5 03`),
  DNS4 (`36`), a non-canonical continuation (`A5 83 00`), a wrapping length
  (`3D`), a length that the cast truncates (`81 01`) and a non-UTF-8 name
  byte (`FF`);
- the `from_str` inputs are the encodings of every stack of 1 to 3 segments
  out of seven. The seven are IP4, IP6, TCP, WS, DNS4 and DNSADDR (with a
  one- and a two-letter name), and /p2p with a 2-byte peer id. No name or
  peer id is empty: `from_str`'s `filter(|p| !p.is_empty())` drops an empty
  part, so no parsed stack has one. Empty names and peer ids still reach
  `verify` and `to_vec` through the raw inputs.

Every input (at most 47 bytes) plus the 16-byte IPv6 payload stays below
2^6. As at full size, only a declared length can overflow.

`Ipv6TextRoundTrip` covers 258 addresses:
- every address whose groups are 0 or 0xa0. This gives every pattern of
  zero runs, so `::` appears at the start, in the middle and at the end, and
  any one run of zero groups can be compressed. 0xa0 has a letter and two digits, and
  its bytes `00 a0` tell the byte order apart;
- `1::ffff` and `1234:0:0:1::abcd`, which have one-digit and four-digit
  groups.

Each address is checked in all its text forms.

## Findings

### One multiaddr, two owners (`registry_addr_unique`)

1. Node 1 registers with the same multiaddr `m1` on its primary and bootnode
   peer infos. `validate_peer_info` allows this because the node owns the
   entry.
2. Node 1 clears its bootnode. `perform_update_bootnode_peer_id` removes
   `MultiaddrSubnetNodeId[m1]` (line 336) although node 1's primary still
   holds `m1`.
3. Node 2 registers with `m1`.

Two nodes now advertise the same address. The same happens through
`perform_update_peer_id` (line 182) and the client update (line 423). The
spec says that each address is claimed by at most one node.

### Delegate account equal to the hotkey (`delegate_self`)

`update_subnet_node_hotkey` (line 1012) writes the new hotkey without
re-running `validate_delegate_account`. A node can therefore take its own
delegate account as its hotkey, which the spec's invariant of
DelegateAccount forbids.

### Both absent does not clear (`delegate_clear`)

`perform_update_delegate_account` ensures that the account or the rate is
present (line 654). Its later branch that clears the delegate account when
both are absent is therefore unreachable, and a delegate account can never
be removed. The spec says that passing both as absent clears it.

### Non-canonical varints (`multiaddr_inverse`)

`decode_varint` accepts non-canonical varints: `81 00` is 1 in two bytes.
`verify` therefore accepts `A5 03 81 00 00`, a /p2p segment whose one-byte
peer id has its length written non-canonically. `to_vec` renders it as
`/p2p/1`, and `from_str` of that text is `A5 03 01 00`. The spec says that
`from_str` is the inverse of `to_vec`.

`FromStrOfRendered` models `from_str` of `to_vec`'s text. An empty name or
peer id renders as an empty part, which `from_str`'s filter drops (line
185). At the end of the text, `parts.next().ok_or(InvalidAddress)` then
fails (line 243); elsewhere the next protocol name is read as the name. The
property therefore only compares the bytes when `from_str` accepts the text
as the same segments.

`MultiaddrSubnetNodeId` is keyed by the bytes. Two nodes can therefore
register the same address under different encodings.

### `verify` can loop forever (`multiaddr_loop`)

Without overflow checks (the release default), a declared length `L` with
`i + L = 2^w` wraps `advance`'s sum back to 0, and the loop scans the same
segment again and again. TLC's trace is `A5 03 3D`, where 3 + 61 = 64.

A direct transcription of the Rust at full width gives the same result for
two inputs:
- `A5 03 F9 FF FF FF 0F` on the 32-bit runtime;
- `A5 03 F4 FF FF FF FF FF FF FF FF 01` on 64-bit.

With overflow checks on, the same inputs panic. On the 32-bit runtime,
`len as usize` drops the high bits first. A /p2p segment declaring 2^32 + 1
bytes, followed by one byte, is therefore accepted. In every one of these
cases the spec promises `Truncated`.

### NaN escapes the clamp (`shaping_overflow`)

`sigmoid_decreasing` documents its result as "Guaranteed to be within
`[min, max]`", and the spec says every shaping function clamps its output
into its bounds. `exp(k·|x − mid|)` overflows to +inf once the exponent
passes 709.78. At or below mid the sigmoid is then inf / (1 + inf) = NaN,
and `f64::clamp` returns NaN unchanged. TLC finds x = 0, mid = 3/4,
k = 1000 in one call (line 114). For x and mid in [0, 1] this needs
k > 709.

`sigmoid_decreasing_start_offset` with `x_start` = 1 (line 232) divides by
0: x = 1 gives 0/0, and x < 1 gives −inf, whose exponent is inf (or NaN when
k = 0). Both give NaN. TLC reports this case (x = 0, mid = 1/2, k = 0) when
the cfg's steepness is left at the `shaping` grid.

### Observed, not a run: `start_offset` below `x_start`

The doc comment of `sigmoid_decreasing_start_offset` says that values below
`x_start` "are normalized to 0". The code (line 233) divides `x - x_start`
by `1 - x_start` without clipping, so an x below `x_start` gets a larger
value than `x_start` does. Take x = 0, `x_start` = 1/2, mid = 1/2, k = 2 and
one decimal place: libm gives 1.0 against 0.7 at `x_start`. The doc's own
example (`x_start` = 0.05, k = 10, 4 places) gives 0.9960 at x = 0 against
0.9933. The input is in the `shaping` grid, but the doc's claim is not a
run: the function has no caller in these sources, and the run budget went
to the checks above. It is listed as a hazard.

## Fairness

The registry, slot, burn-rate, reward-rate, delegate-account, stake and
shaping properties are safety properties, so they assume no fairness.
`InvalidSubnetNodeId` is the code's own error path for an id that no
partition holds. Because it exists, the registry never deadlocks.

`VerifyTerminates` assumes `WF_vars(Next)`. `verify` is straight-line code
with no waits, so once called, its loop keeps taking steps. `multiaddr` and
its variants run with `CHECK_DEADLOCK FALSE` because a returned `verify` has
nothing left to do.

## Not modelled, and why

- Registration and activation are defined in the pallet's `lib.rs`, which is
  not among these sources. So are the epoch scheduler, delegate-account
  transfer, the unbonding ledger and the paths that credit delegate stake.
  All of them are modelled from the spec and marked `spec_modelled` in the
  map.
- Reputation, idle and included epoch counters and
  `EmergencySubnetNodeElectionData` are cleared by removal. Only code outside
  these sources writes them, so they are left out.
- `clean_coldkey_subnet_nodes` needs subnet removal, which is outside these
  sources. The classification queries read `has_classification`, which is
  also outside.
- `pow` at a fractional power of a negative x is NaN. The model takes
  integer powers only; `concave_down_decreasing` is documented for x in
  [0, 1], where a fractional power is finite.
- `get_percent_as_f64`, `get_f64_as_percentage`, the `Self::pow` wrapper and
  `checked_mul_div` have no caller in these sources.
  `percentage_factor_as_u128` is the constant `PF`.
- Apart from IPv6, the text side of the codec is left out: splitting on `/`,
  and decimal and base-58 parsing and formatting. It is pure string
  processing, and the model keeps an injective rendering instead. The one
  string-level effect kept is the filter that drops empty parts
  (`FromStrOfRendered`). A DNS name containing `/` would not survive
  `from_str(to_vec(x))` either; this is not checked.
- `parse_ipv6` is more lenient than the address syntax:
  - `1:2:3`, which has no `::`, is padded with zeros;
  - a group may have a `+` sign or more than four digits;
  - `1:::2` is accepted, and so are eight groups next to `::`.

  The spec states the parser/encoder consistency only for well-formed text,
  so the run checks only those forms. The leniency is listed as a hazard.
- `to_bytes` and `extend` only copy bytes.

## Plan for later work

1. Compose `Registry` with `Multiaddr`. Registry multiaddrs would then be byte
   strings that `verify` scans, so a non-canonical duplicate shows up as two
   owners of one address.
2. Model the `/` splitting and the decimal and base-58 text over a small
   character alphabet. This would check `from_str(to_vec(x)) = x` at the
   string level for every protocol, as `Ipv6Text` does for IPv6.
3. Add a liveness property for the burn-rate controller. Under fair
   scheduling with a sufficient budget, a subnet at or above target reaches
   the max rate within the truncation bound.
