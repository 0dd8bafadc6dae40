------------------------------ MODULE Registry ------------------------------
(***************************************************************************)
(* The identity uniqueness registry of one subnet (utilities/subnet_node.rs)*)
(* together with the node lifecycle that feeds it.                         *)
(*                                                                         *)
(* A node record lives in one of two partitions, SubnetNodesData (active)  *)
(* or RegisteredSubnetNodesData (registered, waiting in SubnetNodeQueue).  *)
(* It carries three peer-info slots (primary, bootnode, client), each a    *)
(* peer id with an optional multiaddr, a unique tag, a non-unique tag and  *)
(* a classification.  Reverse indexes map a primary / bootnode / client    *)
(* peer id, a multiaddr (one index shared by all three roles) and a unique *)
(* tag to the node id that claims it.  Removing a node tears all of this   *)
(* down and, for a Validator, takes it out of the election slots           *)
(* (module ElectionSlots, instantiated for this subnet).                   *)
(*                                                                         *)
(* Every dispatchable runs inside a storage transaction: a call that       *)
(* returns an error leaves storage unchanged, so a rejected call is a      *)
(* stuttering step and its error conditions appear as the negation of the  *)
(* action's guards.                                                        *)
(*                                                                         *)
(* Registration and activation live outside the given sources; they are    *)
(* modelled from the spec (see README and PROJECT.json).                   *)
(***************************************************************************)
EXTENDS Integers, Sequences, FiniteSets, Functions, SequencesExt, TLC

CONSTANTS
  MaxNodeId,          \* node ids 1..MaxNodeId are handed out in order; 0 is no node
  PeerIds,            \* peer ids (all pass validate_peer_id)
  Multiaddrs,         \* multiaddr byte strings, valid or not
  ValidMultiaddrs,    \* those that Multiaddr::verify accepts
  UniqueTags,         \* values of the `unique` field
  NonUniqueTags,      \* values of the `non_unique` field
  OverwatchPeerIds,   \* PeerIdOverwatchNodeId: peer id -> overwatch node id (>= 1)
  Subnet,             \* the subnet modelled
  Hotkeys,            \* operating keys
  Coldkeys,           \* controlling keys
  None                \* an absent Option

ASSUME ValidMultiaddrs \subseteq Multiaddrs
ASSUME DOMAIN OverwatchPeerIds \subseteq PeerIds
ASSUME \A p \in DOMAIN OverwatchPeerIds : OverwatchPeerIds[p] >= 1

NodeIds == 1..MaxNodeId

\* SubnetNodeClass, in the order `next()` walks it.
Classes == <<"Registered", "Idle", "Included", "Validator">>

PeerInfo(addrs) == [peer_id : PeerIds, multiaddr : addrs \cup {None}]

VARIABLES
  subnetNodesData,             \* active partition: node id -> record
  registeredSubnetNodesData,   \* registered partition: node id -> record
  subnetNodeQueue,             \* SubnetNodeQueue: registered ids in order
  peerIdSubnetNodeId,          \* primary peer id -> node id
  bootnodePeerIdSubnetNodeId,  \* bootnode peer id -> node id
  clientPeerIdSubnetNodeId,    \* client peer id -> node id
  multiaddrSubnetNodeId,       \* multiaddr (any role) -> node id
  uniqueParamSubnetNodeId,     \* unique tag -> node id
  totalSubnetNodes,            \* TotalSubnetNodes
  totalActiveSubnetNodes,      \* TotalActiveSubnetNodes
  totalSubnetNodeUids,         \* last node id handed out
  hotkeySubnetNodeId,          \* HotkeySubnetNodeId: hotkey -> node id
  subnetNodeIdHotkey,          \* SubnetNodeIdHotkey: node id -> hotkey
  hotkeyOwner,                 \* HotkeyOwner: hotkey -> coldkey
  coldkeySubnetNodes,          \* ColdkeySubnetNodes: coldkey -> (subnet -> node ids)
  subnetNodeElectionSlots, nodeSlotIndex,
  totalSubnetElectableNodes, totalElectableNodes

Slots == INSTANCE ElectionSlots WITH Subnets <- {Subnet}, NodeIds <- NodeIds

slotVars  == <<subnetNodeElectionSlots, nodeSlotIndex,
               totalSubnetElectableNodes, totalElectableNodes>>

nodeVars  == <<subnetNodesData, registeredSubnetNodesData, subnetNodeQueue>>
indexVars == <<peerIdSubnetNodeId, bootnodePeerIdSubnetNodeId,
               clientPeerIdSubnetNodeId, multiaddrSubnetNodeId, uniqueParamSubnetNodeId>>
countVars == <<totalSubnetNodes, totalActiveSubnetNodes, totalSubnetNodeUids>>
keyVars   == <<hotkeySubnetNodeId, subnetNodeIdHotkey, hotkeyOwner, coldkeySubnetNodes>>
vars == <<nodeVars, indexVars, countVars, keyVars, slotVars>>

EmptyMap == [k \in {} |-> 0]
MapPut(m, k, v) == (k :> v) @@ m
MapRemove(m, k) == Restrict(m, DOMAIN m \ {k})
\* Remove the key of an Option (a no-op for None).
MapRemoveOpt(m, k) == IF k = None THEN m ELSE MapRemove(m, k)
\* Insert the key of an Option (a no-op for None).
MapPutOpt(m, k, v) == IF k = None THEN m ELSE MapPut(m, k, v)
SatDec(n) == IF n = 0 THEN 0 ELSE n - 1
\* A storage key that is absent, or present and mapped to `id`.
FreeOrOwnedBy(m, k, id) == IF k \in DOMAIN m THEN m[k] = id ELSE TRUE

\* The peer id / multiaddr of an optional peer info.
PeerOf(pi) == IF pi = None THEN None ELSE pi.peer_id
AddrOf(pi) == IF pi = None THEN None ELSE pi.multiaddr

-----------------------------------------------------------------------------
(* Node lookup over the two partitions, active first (get_subnet_node).    *)
IsActive(id) == id \in DOMAIN subnetNodesData
NodeExists(id) == IsActive(id) \/ id \in DOMAIN registeredSubnetNodesData
Node(id) == IF IsActive(id) THEN subnetNodesData[id] ELSE registeredSubnetNodesData[id]
AllNodeIds == DOMAIN subnetNodesData \cup DOMAIN registeredSubnetNodesData

(* The do_update_* wrappers: try_mutate_exists on whichever partition      *)
(* holds the id, InvalidSubnetNodeId (no change) when neither does.        *)
WriteNode(id, rec) ==
  IF IsActive(id)
  THEN /\ subnetNodesData' = [subnetNodesData EXCEPT ![id] = rec]
       /\ UNCHANGED registeredSubnetNodesData
  ELSE /\ registeredSubnetNodesData' = [registeredSubnetNodesData EXCEPT ![id] = rec]
       /\ UNCHANGED subnetNodesData

-----------------------------------------------------------------------------
\* Mutant: the client peer-id index is not consulted.
IsOwnerOfPeerOrOwnerlessNoClient(nodeId, overwatchId, peerId) ==
  LET idx     == <<peerIdSubnetNodeId, bootnodePeerIdSubnetNodeId, OverwatchPeerIds>>
      caller  == <<nodeId, nodeId, overwatchId>>
      claimed == {i \in 1..3 : peerId \in DOMAIN idx[i]}
      first   == CHOOSE i \in claimed : \A j \in claimed : i <= j
  IN  IF claimed = {} THEN TRUE ELSE idx[first][peerId] = caller[first]

(***************************************************************************)
(* is_owner_of_peer_or_ownerless: the primary, bootnode, client and        *)
(* overwatch indexes are consulted in that order.  The first index that    *)
(* holds the peer id decides: TRUE if its owner is the caller (the early   *)
(* `return true`), FALSE otherwise (the `&&` chain short-circuits).        *)
(***************************************************************************)
IsOwnerOfPeerOrOwnerless(nodeId, overwatchId, peerId) ==
  LET idx     == <<peerIdSubnetNodeId, bootnodePeerIdSubnetNodeId,
                   clientPeerIdSubnetNodeId, OverwatchPeerIds>>
      caller  == <<nodeId, nodeId, nodeId, overwatchId>>
      claimed == {i \in 1..4 : peerId \in DOMAIN idx[i]}
      first   == CHOOSE i \in claimed : \A j \in claimed : i <= j
  IN  IF claimed = {} THEN TRUE ELSE idx[first][peerId] = caller[first]

\* is_owner_of_multiaddr_or_ownerless
IsOwnerOfMultiaddrOrOwnerless(nodeId, addr) ==
  FreeOrOwnedBy(multiaddrSubnetNodeId, addr, nodeId)

(***************************************************************************)
(* validate_peer_info: the peer id is free (or the caller's), and a        *)
(* multiaddr, when given, verifies and is free (or the caller's).          *)
(***************************************************************************)
ValidatePeerInfo(nodeId, overwatchId, pi) ==
  /\ IsOwnerOfPeerOrOwnerless(nodeId, overwatchId, pi.peer_id)
  /\ pi.multiaddr # None =>
       /\ pi.multiaddr \in ValidMultiaddrs
       /\ IsOwnerOfMultiaddrOrOwnerless(nodeId, pi.multiaddr)

-----------------------------------------------------------------------------
Init ==
  /\ subnetNodesData = EmptyMap
  /\ registeredSubnetNodesData = EmptyMap
  /\ subnetNodeQueue = <<>>
  /\ peerIdSubnetNodeId = EmptyMap
  /\ bootnodePeerIdSubnetNodeId = EmptyMap
  /\ clientPeerIdSubnetNodeId = EmptyMap
  /\ multiaddrSubnetNodeId = EmptyMap
  /\ uniqueParamSubnetNodeId = EmptyMap
  /\ totalSubnetNodes = 0
  /\ totalActiveSubnetNodes = 0
  /\ totalSubnetNodeUids = 0
  /\ hotkeySubnetNodeId = EmptyMap
  /\ subnetNodeIdHotkey = EmptyMap
  /\ hotkeyOwner = EmptyMap
  /\ coldkeySubnetNodes = [c \in Coldkeys |-> EmptyMap]
  /\ Slots!SlotsInit

(***************************************************************************)
(* Registration (modelled from the spec): the next node id is taken; each  *)
(* supplied peer info is checked with validate_peer_info(subnet, id, 0,    *)
(* .), the unique tag must be free; then every index entry is inserted,    *)
(* the record enters the registered partition and the queue, and the node  *)
(* counter is incremented.  The new id owns no index entry beforehand, so  *)
(* checking all peer infos before inserting any accepts the same inputs    *)
(* as checking and inserting them one at a time.  The node runs under a   *)
(* hotkey that no node of the subnet uses, owned by the registering       *)
(* coldkey (or by no one yet); the hotkey indexes, HotkeyOwner and the     *)
(* coldkey's node set record it.                                           *)
(***************************************************************************)
RegisterSubnetNode(pi, boot, client, unique, hotkey, coldkey) ==
  LET id == totalSubnetNodeUids + 1
      rec == [peer_info |-> pi, bootnode_peer_info |-> boot,
              client_peer_info |-> client, unique |-> unique,
              non_unique |-> None, class |-> "Registered", hotkey |-> hotkey]
      owned == coldkeySubnetNodes[coldkey]
  IN
  /\ id <= MaxNodeId
  /\ hotkey \notin DOMAIN hotkeySubnetNodeId
  /\ FreeOrOwnedBy(hotkeyOwner, hotkey, coldkey)
  /\ hotkeySubnetNodeId' = MapPut(hotkeySubnetNodeId, hotkey, id)
  /\ subnetNodeIdHotkey' = MapPut(subnetNodeIdHotkey, id, hotkey)
  /\ hotkeyOwner' = MapPut(hotkeyOwner, hotkey, coldkey)
  /\ coldkeySubnetNodes' =
       [coldkeySubnetNodes EXCEPT ![coldkey] =
          MapPut(owned, Subnet, IF Subnet \in DOMAIN owned THEN owned[Subnet] \cup {id} ELSE {id})]
  /\ ValidatePeerInfo(id, 0, pi)
  /\ boot # None => ValidatePeerInfo(id, 0, boot)
  /\ client # None => ValidatePeerInfo(id, 0, client)
  /\ unique # None => FreeOrOwnedBy(uniqueParamSubnetNodeId, unique, id)
  /\ totalSubnetNodeUids' = id
  /\ registeredSubnetNodesData' = MapPut(registeredSubnetNodesData, id, rec)
  /\ subnetNodeQueue' = Append(subnetNodeQueue, id)
  /\ peerIdSubnetNodeId' = MapPut(peerIdSubnetNodeId, pi.peer_id, id)
  /\ bootnodePeerIdSubnetNodeId' = MapPutOpt(bootnodePeerIdSubnetNodeId, PeerOf(boot), id)
  /\ clientPeerIdSubnetNodeId' = MapPutOpt(clientPeerIdSubnetNodeId, PeerOf(client), id)
  /\ multiaddrSubnetNodeId' =
       MapPutOpt(MapPutOpt(MapPutOpt(multiaddrSubnetNodeId, pi.multiaddr, id),
                           AddrOf(boot), id), AddrOf(client), id)
  /\ uniqueParamSubnetNodeId' = MapPutOpt(uniqueParamSubnetNodeId, unique, id)
  /\ totalSubnetNodes' = totalSubnetNodes + 1
  /\ UNCHANGED <<subnetNodesData, totalActiveSubnetNodes, slotVars>>

(***************************************************************************)
(* Activation (modelled from the spec): the node at the head of the queue  *)
(* moves from the registered to the active partition as Idle and the       *)
(* active counter is incremented.                                          *)
(***************************************************************************)
ActivateSubnetNode ==
  /\ subnetNodeQueue # <<>>
  /\ LET id == Head(subnetNodeQueue) IN
     /\ subnetNodesData' =
          MapPut(subnetNodesData, id, [registeredSubnetNodesData[id] EXCEPT !.class = "Idle"])
     /\ registeredSubnetNodesData' = MapRemove(registeredSubnetNodesData, id)
     /\ subnetNodeQueue' = Tail(subnetNodeQueue)
     /\ totalActiveSubnetNodes' = totalActiveSubnetNodes + 1
  /\ UNCHANGED <<indexVars, totalSubnetNodes, totalSubnetNodeUids, keyVars, slotVars>>

-----------------------------------------------------------------------------
(***************************************************************************)
(* do_update_peer_id / perform_update_peer_id.  The new peer info is       *)
(* validated with node id 0 and overwatch id 0; only then are the old      *)
(* primary peer id and its multiaddr removed from their indexes, the new   *)
(* ones inserted, and the record written.                                  *)
(***************************************************************************)
UpdatePeerId(id, pi) ==
  LET old == Node(id).peer_info IN
  /\ NodeExists(id)
  /\ ValidatePeerInfo(0, 0, pi)
  /\ peerIdSubnetNodeId' = MapPut(MapRemove(peerIdSubnetNodeId, old.peer_id), pi.peer_id, id)
  /\ multiaddrSubnetNodeId' =
       MapPutOpt(MapRemoveOpt(multiaddrSubnetNodeId, old.multiaddr), pi.multiaddr, id)
  /\ WriteNode(id, [Node(id) EXCEPT !.peer_info = pi])
  /\ UNCHANGED <<subnetNodeQueue, bootnodePeerIdSubnetNodeId, clientPeerIdSubnetNodeId,
                 uniqueParamSubnetNodeId, countVars, keyVars, slotVars>>

(***************************************************************************)
(* perform_update_bootnode_peer_id and perform_update_client_peer_id have  *)
(* the same shape for an optional peer info: Some(pi) is validated with    *)
(* ids 0, the old entries (peer id in the role's index, its multiaddr) are *)
(* removed, the new ones inserted; None only removes the old entries.  In  *)
(* both cases the field is overwritten.  RoleIndex'(...) is the role's     *)
(* peer-id index after the call.                                           *)
(***************************************************************************)
\* Mutant: the new peer id is never inserted into the role's index.
OptionalPeerUpdateNoInsert(roleIdx, old, new, id) == MapRemoveOpt(roleIdx, PeerOf(old))
OptionalPeerUpdate(roleIdx, old, new, id) ==
  MapPutOpt(MapRemoveOpt(roleIdx, PeerOf(old)), PeerOf(new), id)
\* Mutant: the multiaddr is indexed to the validation caller id 0.
OptionalAddrUpdateZero(old, new, id) ==
  MapPutOpt(MapRemoveOpt(multiaddrSubnetNodeId, AddrOf(old)), AddrOf(new), 0)
OptionalAddrUpdate(old, new, id) ==
  MapPutOpt(MapRemoveOpt(multiaddrSubnetNodeId, AddrOf(old)), AddrOf(new), id)

UpdateBootnodePeerId(id, pi) ==
  LET old == Node(id).bootnode_peer_info IN
  /\ NodeExists(id)
  /\ pi # None => ValidatePeerInfo(0, 0, pi)
  /\ bootnodePeerIdSubnetNodeId' = OptionalPeerUpdate(bootnodePeerIdSubnetNodeId, old, pi, id)
  /\ multiaddrSubnetNodeId' = OptionalAddrUpdate(old, pi, id)
  /\ WriteNode(id, [Node(id) EXCEPT !.bootnode_peer_info = pi])
  /\ UNCHANGED <<subnetNodeQueue, peerIdSubnetNodeId, clientPeerIdSubnetNodeId,
                 uniqueParamSubnetNodeId, countVars, keyVars, slotVars>>

UpdateClientPeerId(id, pi) ==
  LET old == Node(id).client_peer_info IN
  /\ NodeExists(id)
  /\ pi # None => ValidatePeerInfo(0, 0, pi)
  /\ clientPeerIdSubnetNodeId' = OptionalPeerUpdate(clientPeerIdSubnetNodeId, old, pi, id)
  /\ multiaddrSubnetNodeId' = OptionalAddrUpdate(old, pi, id)
  /\ WriteNode(id, [Node(id) EXCEPT !.client_peer_info = pi])
  /\ UNCHANGED <<subnetNodeQueue, peerIdSubnetNodeId, bootnodePeerIdSubnetNodeId,
                 uniqueParamSubnetNodeId, countVars, keyVars, slotVars>>

(***************************************************************************)
(* perform_update_unique: the node's previous tag is removed from the      *)
(* index FIRST, then a new tag held by another node fails with             *)
(* UniqueParameterTaken (the transaction reverts the removal), else it is  *)
(* inserted; the field is overwritten (None clears it).                    *)
(***************************************************************************)
\* Mutant: a tag held by another node is not refused.
UniqueIndexAfterUnchecked(id, u) ==
  MapPutOpt(MapRemoveOpt(uniqueParamSubnetNodeId, Node(id).unique), u, id)
UniqueIndexAfter(id, u) ==
  LET cleared == MapRemoveOpt(uniqueParamSubnetNodeId, Node(id).unique)
  IN  IF u # None /\ u \in DOMAIN cleared /\ cleared[u] # id
      THEN None
      ELSE MapPutOpt(cleared, u, id)

UpdateUnique(id, u) ==
  /\ NodeExists(id)
  /\ UniqueIndexAfter(id, u) # None
  /\ uniqueParamSubnetNodeId' = UniqueIndexAfter(id, u)
  /\ WriteNode(id, [Node(id) EXCEPT !.unique = u])
  /\ UNCHANGED <<subnetNodeQueue, peerIdSubnetNodeId, bootnodePeerIdSubnetNodeId,
                 clientPeerIdSubnetNodeId, multiaddrSubnetNodeId, countVars, keyVars, slotVars>>

\* perform_update_non_unique: overwrite the field, no index.
UpdateNonUnique(id, t) ==
  /\ NodeExists(id)
  /\ WriteNode(id, [Node(id) EXCEPT !.non_unique = t])
  /\ UNCHANGED <<subnetNodeQueue, indexVars, countVars, keyVars, slotVars>>

(***************************************************************************)
(* graduate_class on an active node: the class moves to `next()`; a node  *)
(* that becomes a Validator is put into the election slots by the caller   *)
(* (modelled from the spec: only Validators hold slots).                   *)
(***************************************************************************)
NextClass(c) ==
  LET i == CHOOSE k \in 1..Len(Classes) : Classes[k] = c
  IN  Classes[IF i = Len(Classes) THEN i ELSE i + 1]

GraduateClass(id) ==
  LET cls == NextClass(subnetNodesData[id].class) IN
  /\ IsActive(id)
  /\ subnetNodesData' = [subnetNodesData EXCEPT ![id].class = cls]
  /\ IF cls = "Validator"
     THEN Slots!InsertNodeIntoElectionSlot(Subnet, id)
     ELSE UNCHANGED slotVars
  /\ UNCHANGED <<registeredSubnetNodesData, subnetNodeQueue, indexVars, countVars, keyVars>>

-----------------------------------------------------------------------------
(***************************************************************************)
(* common_remove_subnet_node, as far as the registry goes: the unique tag, *)
(* the primary peer id and multiaddr, and the bootnode and client peer ids *)
(* and multiaddrs of the removed record are deleted from their indexes,    *)
(* and TotalSubnetNodes is decremented.                                    *)
(***************************************************************************)
\* Mutant: the client peer id entry is left behind.
CommonRemoveIndexesKeepClient(n) ==
  /\ uniqueParamSubnetNodeId' = MapRemoveOpt(uniqueParamSubnetNodeId, n.unique)
  /\ peerIdSubnetNodeId' = MapRemove(peerIdSubnetNodeId, n.peer_info.peer_id)
  /\ bootnodePeerIdSubnetNodeId' =
       MapRemoveOpt(bootnodePeerIdSubnetNodeId, PeerOf(n.bootnode_peer_info))
  /\ UNCHANGED clientPeerIdSubnetNodeId
  /\ multiaddrSubnetNodeId' =
       MapRemoveOpt(MapRemoveOpt(MapRemoveOpt(multiaddrSubnetNodeId, n.peer_info.multiaddr),
                    AddrOf(n.bootnode_peer_info)), AddrOf(n.client_peer_info))
  /\ totalSubnetNodes' = SatDec(totalSubnetNodes)

CommonRemoveIndexes(n) ==
  /\ uniqueParamSubnetNodeId' = MapRemoveOpt(uniqueParamSubnetNodeId, n.unique)
  /\ peerIdSubnetNodeId' = MapRemove(peerIdSubnetNodeId, n.peer_info.peer_id)
  /\ bootnodePeerIdSubnetNodeId' =
       MapRemoveOpt(bootnodePeerIdSubnetNodeId, PeerOf(n.bootnode_peer_info))
  /\ clientPeerIdSubnetNodeId' =
       MapRemoveOpt(clientPeerIdSubnetNodeId, PeerOf(n.client_peer_info))
  /\ multiaddrSubnetNodeId' =
       MapRemoveOpt(MapRemoveOpt(MapRemoveOpt(multiaddrSubnetNodeId, n.peer_info.multiaddr),
                    AddrOf(n.bootnode_peer_info)), AddrOf(n.client_peer_info))
  /\ totalSubnetNodes' = SatDec(totalSubnetNodes)

(***************************************************************************)
(* The key half of common_remove_subnet_node: the hotkey is taken from the *)
(* removed record, its HotkeySubnetNodeId entry and the node's             *)
(* SubnetNodeIdHotkey entry are removed, and the node leaves the node set  *)
(* of the coldkey that HotkeyOwner names now; a set that becomes empty     *)
(* takes the subnet's entry with it.  HotkeyOwner itself is kept, so that  *)
(* the coldkey can still withdraw stake.                                   *)
(***************************************************************************)
\* Mutant: an emptied set stays in ColdkeySubnetNodes.
ColdkeyNodesKeepEmpty(m, id) ==
  IF Subnet \in DOMAIN m THEN [m EXCEPT ![Subnet] = @ \ {id}] ELSE m
ColdkeyNodesAfterRemove(m, id) ==
  IF Subnet \in DOMAIN m
  THEN IF m[Subnet] \ {id} = {} THEN MapRemove(m, Subnet)
       ELSE [m EXCEPT ![Subnet] = @ \ {id}]
  ELSE m

\* Mutant: SubnetNodeIdHotkey keeps the removed node's entry.
CommonRemoveKeysKeepIdHotkey(id, n) ==
  LET coldkey == hotkeyOwner[n.hotkey] IN
  /\ hotkeySubnetNodeId' = MapRemove(hotkeySubnetNodeId, n.hotkey)
  /\ UNCHANGED subnetNodeIdHotkey
  /\ coldkeySubnetNodes' =
       [coldkeySubnetNodes EXCEPT ![coldkey] = ColdkeyNodesAfterRemove(@, id)]
  /\ UNCHANGED hotkeyOwner

CommonRemoveKeys(id, n) ==
  LET coldkey == hotkeyOwner[n.hotkey] IN
  /\ hotkeySubnetNodeId' = MapRemove(hotkeySubnetNodeId, n.hotkey)
  /\ subnetNodeIdHotkey' = MapRemove(subnetNodeIdHotkey, id)
  /\ coldkeySubnetNodes' =
       [coldkeySubnetNodes EXCEPT ![coldkey] = ColdkeyNodesAfterRemove(@, id)]
  /\ UNCHANGED hotkeyOwner

\* Mutant: a removed Validator keeps its election slot.
RemoveActiveSubnetNodeKeepSlot(id) ==
  LET n == subnetNodesData[id] IN
  /\ IsActive(id)
  /\ subnetNodesData' = MapRemove(subnetNodesData, id)
  /\ CommonRemoveIndexes(n)
  /\ CommonRemoveKeys(id, n)
  /\ UNCHANGED slotVars
  /\ totalActiveSubnetNodes' = SatDec(totalActiveSubnetNodes)
  /\ UNCHANGED <<registeredSubnetNodesData, subnetNodeQueue, totalSubnetNodeUids>>

(***************************************************************************)
(* remove_active_subnet_node: take the record, run the common teardown,    *)
(* take a Validator out of the election slots, decrement the active        *)
(* counter.                                                                *)
(***************************************************************************)
RemoveActiveSubnetNode(id) ==
  LET n == subnetNodesData[id] IN
  /\ IsActive(id)
  /\ subnetNodesData' = MapRemove(subnetNodesData, id)
  /\ CommonRemoveIndexes(n)
  /\ CommonRemoveKeys(id, n)
  /\ IF n.class = "Validator"
     THEN Slots!RemoveNodeFromElectionSlot(Subnet, id)
     ELSE UNCHANGED slotVars
  /\ totalActiveSubnetNodes' = SatDec(totalActiveSubnetNodes)
  /\ UNCHANGED <<registeredSubnetNodesData, subnetNodeQueue, totalSubnetNodeUids>>

\* Mutant: the id stays in SubnetNodeQueue.
RemoveRegisteredSubnetNodeKeepQueued(id) ==
  LET n == registeredSubnetNodesData[id] IN
  /\ ~IsActive(id)
  /\ id \in DOMAIN registeredSubnetNodesData
  /\ registeredSubnetNodesData' = MapRemove(registeredSubnetNodesData, id)
  /\ CommonRemoveIndexes(n)
  /\ CommonRemoveKeys(id, n)
  /\ UNCHANGED <<subnetNodeQueue, subnetNodesData, totalActiveSubnetNodes,
                 totalSubnetNodeUids, slotVars>>

(***************************************************************************)
(* remove_registered_subnet_node: take the record, run the common teardown *)
(* and drop the id from SubnetNodeQueue.                                   *)
(***************************************************************************)
RemoveRegisteredSubnetNode(id) ==
  LET n == registeredSubnetNodesData[id] IN
  /\ ~IsActive(id)
  /\ id \in DOMAIN registeredSubnetNodesData
  /\ registeredSubnetNodesData' = MapRemove(registeredSubnetNodesData, id)
  /\ CommonRemoveIndexes(n)
  /\ CommonRemoveKeys(id, n)
  /\ subnetNodeQueue' = SelectSeq(subnetNodeQueue, LAMBDA x : x # id)
  /\ UNCHANGED <<subnetNodesData, totalActiveSubnetNodes, totalSubnetNodeUids, slotVars>>

\* Every do_update_* wrapper ends in Err(InvalidSubnetNodeId) when neither
\* partition holds the id, and perform_remove_subnet_node returns silently.
InvalidSubnetNodeId(id) ==
  /\ ~NodeExists(id)
  /\ UNCHANGED vars

\* perform_remove_subnet_node: active partition first, then registered.
PerformRemoveSubnetNode(id) ==
  \/ RemoveActiveSubnetNode(id)
  \/ RemoveRegisteredSubnetNode(id)

-----------------------------------------------------------------------------
\* The peer infos validate_peer_info accepts for a caller: the inputs worth
\* enumerating (any other input is rejected by the action's own guard).
Acceptable(nodeId) == {pi \in PeerInfo(Multiaddrs) : ValidatePeerInfo(nodeId, 0, pi)}

Next ==
  \/ \E pi \in Acceptable(totalSubnetNodeUids + 1),
        boot, client \in Acceptable(totalSubnetNodeUids + 1) \cup {None},
        u \in UniqueTags \cup {None}, h \in Hotkeys, c \in Coldkeys :
       RegisterSubnetNode(pi, boot, client, u, h, c)
  \/ ActivateSubnetNode
  \/ \E id \in NodeIds :
       \/ \E pi \in PeerInfo(Multiaddrs) : UpdatePeerId(id, pi)
       \/ \E pi \in PeerInfo(Multiaddrs) \cup {None} :
            UpdateBootnodePeerId(id, pi) \/ UpdateClientPeerId(id, pi)
       \/ \E u \in UniqueTags \cup {None} : UpdateUnique(id, u)
       \/ \E t \in NonUniqueTags \cup {None} : UpdateNonUnique(id, t)
       \/ GraduateClass(id)
       \/ PerformRemoveSubnetNode(id)
       \/ InvalidSubnetNodeId(id)

Spec == Init /\ [][Next]_vars

-----------------------------------------------------------------------------
(***************************************************************************)
(* The key lookups of the authorization paths.  get_subnet_node_hotkey_    *)
(* coldkey reads the hotkey from SubnetNodeIdHotkey and its coldkey from   *)
(* HotkeyOwner (None if either is missing); is_subnet_node_keys_owner      *)
(* accepts either key, is_subnet_node_coldkey only the coldkey.            *)
(***************************************************************************)
GetSubnetNodeHotkeyColdkey(id) ==
  IF id \in DOMAIN subnetNodeIdHotkey /\ subnetNodeIdHotkey[id] \in DOMAIN hotkeyOwner
  THEN <<subnetNodeIdHotkey[id], hotkeyOwner[subnetNodeIdHotkey[id]]>>
  ELSE None

IsSubnetNodeKeysOwner(id, key) ==
  LET keys == GetSubnetNodeHotkeyColdkey(id) IN
  keys # None /\ key \in {keys[1], keys[2]}

IsSubnetNodeColdkey(id, coldkey) ==
  LET keys == GetSubnetNodeHotkeyColdkey(id) IN
  keys # None /\ keys[2] = coldkey

-----------------------------------------------------------------------------
\* The multiaddrs and the peer ids a record holds, over its three roles.
AddrsOf(n) == {n.peer_info.multiaddr, AddrOf(n.bootnode_peer_info),
               AddrOf(n.client_peer_info)} \ {None}
PeerIdsOf(n) == {n.peer_info.peer_id, PeerOf(n.bootnode_peer_info),
                 PeerOf(n.client_peer_info)} \ {None}
IndexedTo(m, k, id) == k \in DOMAIN m /\ m[k] = id
ActiveValidators == {id \in DOMAIN subnetNodesData : subnetNodesData[id].class = "Validator"}

TypeOK ==
  /\ DOMAIN subnetNodesData \subseteq NodeIds
  /\ DOMAIN registeredSubnetNodesData \subseteq NodeIds
  /\ \A id \in AllNodeIds :
       Node(id) \in [peer_info : PeerInfo(Multiaddrs),
                     bootnode_peer_info : PeerInfo(Multiaddrs) \cup {None},
                     client_peer_info : PeerInfo(Multiaddrs) \cup {None},
                     unique : UniqueTags \cup {None},
                     non_unique : NonUniqueTags \cup {None},
                     class : Range(Classes),
                     hotkey : Hotkeys]
  /\ subnetNodeQueue \in Seq(NodeIds)
  /\ \A m \in {peerIdSubnetNodeId, bootnodePeerIdSubnetNodeId, clientPeerIdSubnetNodeId} :
       DOMAIN m \subseteq PeerIds /\ Range(m) \subseteq NodeIds
  /\ DOMAIN multiaddrSubnetNodeId \subseteq Multiaddrs
  /\ DOMAIN uniqueParamSubnetNodeId \subseteq UniqueTags
  /\ Range(multiaddrSubnetNodeId) \cup Range(uniqueParamSubnetNodeId) \subseteq NodeIds
  /\ {totalSubnetNodes, totalActiveSubnetNodes, totalSubnetNodeUids} \subseteq Nat
  /\ hotkeySubnetNodeId \in [DOMAIN hotkeySubnetNodeId -> NodeIds]
  /\ DOMAIN hotkeySubnetNodeId \subseteq Hotkeys
  /\ DOMAIN subnetNodeIdHotkey \subseteq NodeIds /\ Range(subnetNodeIdHotkey) \subseteq Hotkeys
  /\ DOMAIN hotkeyOwner \subseteq Hotkeys /\ Range(hotkeyOwner) \subseteq Coldkeys
  /\ \A c \in Coldkeys : DOMAIN coldkeySubnetNodes[c] \subseteq {Subnet}
                         /\ Range(coldkeySubnetNodes[c]) \subseteq SUBSET NodeIds
  /\ Slots!SlotsTypeOK

(***************************************************************************)
(* No dangling or stale index entry: every entry of every reverse index    *)
(* names a node that exists (in either partition) and currently holds that *)
(* key in that role.  Breaks if an update forgets to remove the previous   *)
(* value, or a removal (common_remove_subnet_node) misses one of the many  *)
(* entries a node may own.                                                 *)
(***************************************************************************)
IndexSound ==
  /\ \A p \in DOMAIN peerIdSubnetNodeId :
       LET id == peerIdSubnetNodeId[p] IN
       NodeExists(id) /\ Node(id).peer_info.peer_id = p
  /\ \A p \in DOMAIN bootnodePeerIdSubnetNodeId :
       LET id == bootnodePeerIdSubnetNodeId[p] IN
       NodeExists(id) /\ PeerOf(Node(id).bootnode_peer_info) = p
  /\ \A p \in DOMAIN clientPeerIdSubnetNodeId :
       LET id == clientPeerIdSubnetNodeId[p] IN
       NodeExists(id) /\ PeerOf(Node(id).client_peer_info) = p
  /\ \A a \in DOMAIN multiaddrSubnetNodeId :
       LET id == multiaddrSubnetNodeId[a] IN NodeExists(id) /\ a \in AddrsOf(Node(id))
  /\ \A u \in DOMAIN uniqueParamSubnetNodeId :
       LET id == uniqueParamSubnetNodeId[u] IN NodeExists(id) /\ Node(id).unique = u

(***************************************************************************)
(* The key indexes mirror the records: HotkeySubnetNodeId and              *)
(* SubnetNodeIdHotkey are inverse and hold exactly the hotkeys of existing *)
(* nodes, and a coldkey's ColdkeySubnetNodes entry for the subnet is       *)
(* exactly the nodes whose hotkey it owns, absent when there are none.     *)
(* Breaks if common_remove_subnet_node leaves an entry behind or drops the *)
(* wrong node from a coldkey's set.                                        *)
(***************************************************************************)
KeyIndexesExact ==
  /\ subnetNodeIdHotkey = [id \in AllNodeIds |-> Node(id).hotkey]
  /\ DOMAIN hotkeySubnetNodeId = Range(subnetNodeIdHotkey)
  /\ \A id \in AllNodeIds : hotkeySubnetNodeId[Node(id).hotkey] = id
  /\ \A c \in Coldkeys :
       LET owned == {id \in AllNodeIds : hotkeyOwner[Node(id).hotkey] = c} IN
       coldkeySubnetNodes[c] = IF owned = {} THEN EmptyMap ELSE Subnet :> owned

(***************************************************************************)
(* The authorization lookups answer from the live record: a key passes     *)
(* is_subnet_node_keys_owner for a node id exactly when the node exists    *)
(* and the key is its hotkey or that hotkey's owner, and                   *)
(* is_subnet_node_coldkey exactly for the owner.  A removed node's keys    *)
(* no longer pass, although HotkeyOwner keeps their pairing and the hotkey *)
(* may run a later node.                                                   *)
(***************************************************************************)
KeysOwnerMatchesNode ==
  \A id \in NodeIds, key \in Hotkeys \cup Coldkeys :
    /\ IsSubnetNodeKeysOwner(id, key) <=>
         NodeExists(id) /\ key \in {Node(id).hotkey, hotkeyOwner[Node(id).hotkey]}
    /\ IsSubnetNodeColdkey(id, key) <=>
         NodeExists(id) /\ key = hotkeyOwner[Node(id).hotkey]

(***************************************************************************)
(* Every peer id a node holds, in any of its three roles, is indexed to    *)
(* it in that role's index.  Together with IndexSound this is what lets    *)
(* is_owner_of_peer_or_ownerless, which only reads the indexes, see every  *)
(* claim.                                                                  *)
(***************************************************************************)
PeerIndexComplete ==
  \A id \in AllNodeIds :
    LET n == Node(id) IN
    /\ IndexedTo(peerIdSubnetNodeId, n.peer_info.peer_id, id)
    /\ n.bootnode_peer_info # None =>
         IndexedTo(bootnodePeerIdSubnetNodeId, n.bootnode_peer_info.peer_id, id)
    /\ n.client_peer_info # None =>
         IndexedTo(clientPeerIdSubnetNodeId, n.client_peer_info.peer_id, id)

(***************************************************************************)
(* A peer id is held by at most one node, whichever roles the two claims   *)
(* are in, and never by a node when an overwatch node claims it.  This is  *)
(* the guarantee is_owner_of_peer_or_ownerless must give although it only  *)
(* looks at the first index that holds the peer id.                        *)
(***************************************************************************)
PeerIdOwnedByOne ==
  /\ \A i, j \in AllNodeIds : i # j => PeerIdsOf(Node(i)) \cap PeerIdsOf(Node(j)) = {}
  /\ \A i \in AllNodeIds : PeerIdsOf(Node(i)) \cap DOMAIN OverwatchPeerIds = {}

(***************************************************************************)
(* A unique tag is held by at most one node, although perform_update_unique*)
(* removes the caller's old tag before checking the new one.               *)
(***************************************************************************)
UniqueTagOwnedByOne ==
  \A i, j \in AllNodeIds :
    i # j /\ Node(i).unique # None => Node(i).unique # Node(j).unique

(***************************************************************************)
(* A multiaddr is held by at most one node, over all roles (the spec:      *)
(* "each encoded address is claimed by at most one node").                 *)
(***************************************************************************)
AddrOwnedByOne ==
  \A i, j \in AllNodeIds : i # j => AddrsOf(Node(i)) \cap AddrsOf(Node(j)) = {}

(***************************************************************************)
(* The election slots hold exactly the active Validators, and the slot     *)
(* allocator's own index and counters stay exact, across registration,    *)
(* graduation and both removal paths.  Breaks if a removal path leaves a   *)
(* removed node electable.                                                 *)
(***************************************************************************)
ElectionSlotsAreActiveValidators ==
  /\ Range(subnetNodeElectionSlots[Subnet]) = ActiveValidators
  /\ Slots!SlotIndexExact
  /\ Slots!ElectableCountersMatch

(***************************************************************************)
(* Lifecycle bookkeeping: TotalSubnetNodes counts both partitions,         *)
(* TotalActiveSubnetNodes the active one (their saturating decrements      *)
(* never hide a drift), no id is in both partitions, and SubnetNodeQueue   *)
(* lists each registered node exactly once.                                *)
(***************************************************************************)
LifecycleBookkeeping ==
  /\ DOMAIN subnetNodesData \cap DOMAIN registeredSubnetNodesData = {}
  /\ totalSubnetNodes = Cardinality(AllNodeIds)
  /\ totalActiveSubnetNodes = Cardinality(DOMAIN subnetNodesData)
  /\ Range(subnetNodeQueue) = DOMAIN registeredSubnetNodesData
  /\ IsInjective(subnetNodeQueue)
=============================================================================
