--------------------------- MODULE ElectableNodes ---------------------------
(***************************************************************************)
(* Abstract specification of the election slot set of a subnet: what the  *)
(* allocator promises to its users.  Each subnet has a SET of node ids     *)
(* eligible to be chosen as validator; inserting adds an id, removing      *)
(* deletes exactly that id, and nothing else ever changes the set.         *)
(* Order and positions are not part of the promise.                        *)
(***************************************************************************)
CONSTANTS
  Subnets,   \* subnet ids
  NodeIds    \* subnet node ids

VARIABLE electable   \* electable[s] : the set of electable node ids of s

Init == electable = [s \in Subnets |-> {}]

Insert(s, id) == electable' = [electable EXCEPT ![s] = @ \cup {id}]

Remove(s, id) == electable' = [electable EXCEPT ![s] = @ \ {id}]

Next == \E s \in Subnets, id \in NodeIds : Insert(s, id) \/ Remove(s, id)

Spec == Init /\ [][Next]_electable
=============================================================================
