---------------------------- MODULE MCSlotsStake ----------------------------
(***************************************************************************)
(* The election-slot allocator (ElectionSlots, two subnets, four node ids) *)
(* and the account delegate stake balances (DelegateStake, two accounts   *)
(* with four free tokens, amounts 0, 1 and 3, a ledger of two entries)     *)
(* checked in one model.  The two share no storage item, so each step of  *)
(* one leaves the other's variables alone and the interleaving adds no    *)
(* behaviour to either: the reachable states are the product of theirs.   *)
(* Accounts are symmetric; the slot order is not, so node ids are not.     *)
(***************************************************************************)
EXTENDS ElectionSlots, DelegateStake, TLC

CONSTANTS a1, a2

AccountSymmetry == Permutations({a1, a2})

SlotsStakeInit == SlotsInit /\ Init

SlotsStakeNext ==
  \/ SlotsNext /\ UNCHANGED vars
  \/ Next /\ UNCHANGED slotVars

SlotsStakeSpec == SlotsStakeInit /\ [][SlotsStakeNext]_<<slotVars, vars>>
=============================================================================
