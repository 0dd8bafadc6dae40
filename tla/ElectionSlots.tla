--------------------------- MODULE ElectionSlots ---------------------------
(***************************************************************************)
(* The election slot allocator of utilities/subnet_node.rs: per subnet a   *)
(* dense list of node ids (SubnetNodeElectionSlots), a reverse map from id *)
(* to its 0-based position (NodeSlotIndex), a per-subnet counter           *)
(* (TotalSubnetElectableNodes) and a network-wide counter                  *)
(* (TotalElectableNodes).  Removal is a swap-remove: the last element is   *)
(* moved into the vacated position and its index entry rewritten.          *)
(*                                                                         *)
(* A storage map is a TLA+ function whose domain is the set of keys        *)
(* present; a key absent from the domain is an absent storage entry.       *)
(***************************************************************************)
EXTENDS Integers, Sequences, Functions, FiniteSets, TLC

CONSTANTS
  Subnets,   \* subnet ids
  NodeIds    \* subnet node ids

VARIABLES
  subnetNodeElectionSlots,    \* [Subnets -> Seq(NodeIds)]
  nodeSlotIndex,              \* [Subnets -> (partial) NodeIds -> Nat]
  totalSubnetElectableNodes,  \* [Subnets -> Nat]
  totalElectableNodes         \* Nat

slotVars == <<subnetNodeElectionSlots, nodeSlotIndex,
              totalSubnetElectableNodes, totalElectableNodes>>

\* Storage-map helpers: insert (overwriting) and remove a key.
EmptyMap == [k \in {} |-> 0]
MapPut(m, k, v) == (k :> v) @@ m
MapRemove(m, k) == Restrict(m, DOMAIN m \ {k})

\* `n.saturating_dec()` on a u32 counter.
SatDec(n) == IF n = 0 THEN 0 ELSE n - 1

SlotsInit ==
  /\ subnetNodeElectionSlots = [s \in Subnets |-> <<>>]
  /\ nodeSlotIndex = [s \in Subnets |-> EmptyMap]
  /\ totalSubnetElectableNodes = [s \in Subnets |-> 0]
  /\ totalElectableNodes = 0

\* Mutant: the network-wide counter is not incremented.
InsertNodeIntoElectionSlotNoTotal(s, id) ==
  LET list == subnetNodeElectionSlots[s] IN
  IF id \in Range(list)
  THEN UNCHANGED slotVars
  ELSE /\ subnetNodeElectionSlots' = [subnetNodeElectionSlots EXCEPT ![s] = Append(list, id)]
       /\ nodeSlotIndex' = [nodeSlotIndex EXCEPT ![s] = MapPut(@, id, Len(list))]
       /\ totalSubnetElectableNodes' = [totalSubnetElectableNodes EXCEPT ![s] = @ + 1]
       /\ UNCHANGED totalElectableNodes

\* Mutant: the position is taken as the index of the current last slot.
InsertNodeIntoElectionSlotLastPos(s, id) ==
  LET list == subnetNodeElectionSlots[s] IN
  IF id \in Range(list)
  THEN UNCHANGED slotVars
  ELSE /\ subnetNodeElectionSlots' = [subnetNodeElectionSlots EXCEPT ![s] = Append(list, id)]
       /\ nodeSlotIndex' = [nodeSlotIndex EXCEPT ![s] = MapPut(@, id, Len(list) - 1)]
       /\ totalSubnetElectableNodes' = [totalSubnetElectableNodes EXCEPT ![s] = @ + 1]
       /\ totalElectableNodes' = totalElectableNodes + 1

(***************************************************************************)
(* insert_node_into_election_slot: a no-op when the id is already listed;  *)
(* otherwise append it, record its position (the old length) and          *)
(* increment both counters.  The u32 counters saturate at 2^32-1, far      *)
(* beyond any bound of this model, so the increment is written plainly.    *)
(***************************************************************************)
InsertNodeIntoElectionSlot(s, id) ==
  LET list == subnetNodeElectionSlots[s] IN
  IF id \in Range(list)
  THEN UNCHANGED slotVars
  ELSE /\ subnetNodeElectionSlots' = [subnetNodeElectionSlots EXCEPT ![s] = Append(list, id)]
       /\ nodeSlotIndex' = [nodeSlotIndex EXCEPT ![s] = MapPut(@, id, Len(list))]
       /\ totalSubnetElectableNodes' = [totalSubnetElectableNodes EXCEPT ![s] = @ + 1]
       /\ totalElectableNodes' = totalElectableNodes + 1

\* Mutant: an order-preserving remove of the target followed by a pop.
SwapRemoveDropLast(list, pos) ==
  SubSeq(list, 1, pos - 1) \o SubSeq(list, pos + 1, Len(list) - 1)

(***************************************************************************)
(* The slot list after `slot_list.swap_remove(pos)` (pos is 1-based here): *)
(* the last element overwrites position pos and the list is shortened.    *)
(***************************************************************************)
SwapRemove(list, pos) ==
  SubSeq([list EXCEPT ![pos] = list[Len(list)]], 1, Len(list) - 1)

\* Mutant: the index of the element moved into the hole is not rewritten.
RemoveNodeFromElectionSlotNoMove(s, id) ==
  LET list == subnetNodeElectionSlots[s] IN
  IF id \notin Range(list)
  THEN UNCHANGED slotVars
  ELSE LET pos == CHOOSE p \in 1..Len(list) :
                    list[p] = id /\ \A q \in 1..p-1 : list[q] # id
       IN /\ subnetNodeElectionSlots' = [subnetNodeElectionSlots EXCEPT ![s] = SwapRemove(list, pos)]
          /\ nodeSlotIndex' = [nodeSlotIndex EXCEPT ![s] = MapRemove(@, id)]
          /\ totalSubnetElectableNodes' = [totalSubnetElectableNodes EXCEPT ![s] = SatDec(@)]
          /\ totalElectableNodes' = SatDec(totalElectableNodes)

(***************************************************************************)
(* remove_node_from_election_slot: a no-op when the id is absent;          *)
(* otherwise find its first position, swap-remove it, rewrite the index    *)
(* of the element moved into the hole, the former last one (when the hole  *)
(* was not the last slot; the code reads it back as slot_list[pos]), THEN *)
(* delete the removed id's index entry, and decrement both                 *)
(* counters (saturating).                                                  *)
(***************************************************************************)
RemoveNodeFromElectionSlot(s, id) ==
  LET list == subnetNodeElectionSlots[s] IN
  IF id \notin Range(list)
  THEN UNCHANGED slotVars
  ELSE LET pos     == CHOOSE p \in 1..Len(list) :
                        list[p] = id /\ \A q \in 1..p-1 : list[q] # id
           lastIdx == Len(list)
           newList == SwapRemove(list, pos)
           moved   == IF pos # lastIdx
                      THEN MapPut(nodeSlotIndex[s], list[lastIdx], pos - 1)
                      ELSE nodeSlotIndex[s]
       IN /\ subnetNodeElectionSlots' = [subnetNodeElectionSlots EXCEPT ![s] = newList]
          /\ nodeSlotIndex' = [nodeSlotIndex EXCEPT ![s] = MapRemove(moved, id)]
          /\ totalSubnetElectableNodes' = [totalSubnetElectableNodes EXCEPT ![s] = SatDec(@)]
          /\ totalElectableNodes' = SatDec(totalElectableNodes)

SlotsNext ==
  \E s \in Subnets, id \in NodeIds :
    \/ InsertNodeIntoElectionSlot(s, id)
    \/ RemoveNodeFromElectionSlot(s, id)

SlotsSpec == SlotsInit /\ [][SlotsNext]_slotVars

-----------------------------------------------------------------------------
SlotsTypeOK ==
  /\ subnetNodeElectionSlots \in [Subnets -> Seq(NodeIds)]
  /\ \A s \in Subnets : DOMAIN nodeSlotIndex[s] \subseteq NodeIds
                         /\ \A id \in DOMAIN nodeSlotIndex[s] : nodeSlotIndex[s][id] \in Nat
  /\ totalSubnetElectableNodes \in [Subnets -> Nat]
  /\ totalElectableNodes \in Nat

(***************************************************************************)
(* The reverse index is exact: NodeSlotIndex has an entry for precisely    *)
(* the listed ids, and the entry of the id at every position p is p - 1.   *)
(* This also rules out duplicates.  It is what the swap-remove's index     *)
(* rewrite of the moved element, and the order of that rewrite and the     *)
(* removal of the removed id's entry, must preserve after any interleaving *)
(* of inserts and removals.                                                *)
(***************************************************************************)
SlotIndexExact ==
  \A s \in Subnets :
    LET list == subnetNodeElectionSlots[s] IN
    /\ DOMAIN nodeSlotIndex[s] = Range(list)
    /\ \A p \in 1..Len(list) : nodeSlotIndex[s][list[p]] = p - 1

(***************************************************************************)
(* The per-subnet counter equals the length of the subnet's slot list and  *)
(* the network counter their sum: the saturating counter updates of both   *)
(* insert and remove never drift from the list they count.                 *)
(***************************************************************************)
ElectableCountersMatch ==
  /\ \A s \in Subnets : totalSubnetElectableNodes[s] = Len(subnetNodeElectionSlots[s])
  /\ totalElectableNodes = SumFunction(totalSubnetElectableNodes)

(***************************************************************************)
(* Refinement: the allocator implements the abstract electable set, with   *)
(* the set of listed ids as the refinement mapping.  A removal that loses  *)
(* the moved element, or removes the wrong one, breaks it.                 *)
(***************************************************************************)
Abstract == INSTANCE ElectableNodes WITH
              electable <- [s \in Subnets |-> Range(subnetNodeElectionSlots[s])]

ImplementsElectableNodes == Abstract!Spec
=============================================================================
