--------------------------- MODULE DelegateAccount ---------------------------
(***************************************************************************)
(* The delegate account of a subnet node (utilities/subnet_node.rs): an    *)
(* account that receives a share (rate) of the node's rewards, set or      *)
(* changed by do_update_delegate_account and checked by                    *)
(* validate_delegate_account against the node's hotkey and its coldkey    *)
(* (HotkeyOwner of the hotkey); and update_subnet_node_hotkey, which gives *)
(* a node a new hotkey.  The holder of the delegate account can hand it on *)
(* (transfer, modelled from the spec: not in these sources).               *)
(*                                                                         *)
(* Both node partitions run the same function, so the model keeps the      *)
(* node fields without the partition.  lastUpdateCall records the          *)
(* arguments and the outcome of the latest do_update_delegate_account, so  *)
(* that what a call promises can be stated; a rejected call changes        *)
(* nothing else (the dispatchable's transaction reverts).                  *)
(***************************************************************************)
EXTENDS Integers

CONSTANTS
  Nodes,      \* subnet node ids
  Accounts,   \* account ids
  Coldkey,    \* node -> HotkeyOwner of its hotkey (the owning coldkey)
  PF,         \* percentage_factor_as_u128 (100%)
  Rates,      \* rates a caller may pass
  None        \* an absent Option

ASSUME \A n \in Nodes : Coldkey[n] \in Accounts

DelegateAccounts == [account_id : Accounts, rate : Rates]

VARIABLES
  hotkey,            \* node -> hotkey
  delegateAccount,   \* node -> DelegateAccount or None
  lastUpdateCall     \* the latest do_update_delegate_account call, or None

vars == <<hotkey, delegateAccount, lastUpdateCall>>

(***************************************************************************)
(* validate_delegate_account: the account is neither the hotkey nor its    *)
(* coldkey and the rate is in (0, 100%].  The error it returns first.      *)
(***************************************************************************)
ValidateDelegateAccount(da, hk, ck) ==
  IF da.account_id = hk THEN "DelegateAccountCannotBeHotkey"
  ELSE IF da.account_id = ck THEN "DelegateAccountCannotBeColdkey"
  ELSE IF ~(da.rate <= PF /\ da.rate > 0) THEN "InvalidDelegateAccountRate"
  ELSE "Ok"

(***************************************************************************)
(* perform_update_delegate_account: the outcome of a call with an optional *)
(* account and an optional rate.  Both absent is refused by the ensure!;   *)
(* an omitted field is taken from the existing delegate account, or the    *)
(* call fails; the result is validated.  The `else` branch that would     *)
(* clear the account when both are absent follows the ensure! of the same  *)
(* condition and can never run.                                            *)
(***************************************************************************)
UpdateOutcome(n, acct, rate) ==
  LET cur == delegateAccount[n] IN
  IF acct = None /\ rate = None THEN "InvalidDelegateAccountParameters"
  ELSE IF acct = None /\ cur = None THEN "DelegateAccountIdIsNone"
  ELSE IF rate = None /\ cur = None THEN "DelegateAccountRateIsNone"
  ELSE ValidateDelegateAccount(
         [account_id |-> IF acct # None THEN acct ELSE cur.account_id,
          rate       |-> IF rate # None THEN rate ELSE cur.rate],
         hotkey[n], Coldkey[n])

\* Mutant: the omitted rate is not filled in from the existing account.
UpdatedAccountNoFill(n, acct, rate) ==
  [account_id |-> IF acct # None THEN acct ELSE delegateAccount[n].account_id,
   rate       |-> rate]

\* The delegate account a successful call stores.
UpdatedAccount(n, acct, rate) ==
  [account_id |-> IF acct # None THEN acct ELSE delegateAccount[n].account_id,
   rate       |-> IF rate # None THEN rate ELSE delegateAccount[n].rate]

-----------------------------------------------------------------------------
(***************************************************************************)
(* Registration stores a delegate account validated like an update, or     *)
(* none (modelled from the spec); every node starts with its own hotkey.   *)
(***************************************************************************)
Init ==
  /\ hotkey \in [Nodes -> Accounts]
  /\ \A n \in Nodes : hotkey[n] # Coldkey[n]
  /\ delegateAccount \in [Nodes -> DelegateAccounts \cup {None}]
  /\ \A n \in Nodes :
       delegateAccount[n] # None =>
         ValidateDelegateAccount(delegateAccount[n], hotkey[n], Coldkey[n]) = "Ok"
  /\ lastUpdateCall = None

\* do_update_delegate_account on an existing node.
DoUpdateDelegateAccount(n, acct, rate) ==
  LET result == UpdateOutcome(n, acct, rate) IN
  /\ delegateAccount' =
       IF result = "Ok"
       THEN [delegateAccount EXCEPT ![n] = UpdatedAccount(n, acct, rate)]
       ELSE delegateAccount
  /\ lastUpdateCall' = [node |-> n, account |-> acct, rate |-> rate, result |-> result]
  /\ UNCHANGED hotkey

(***************************************************************************)
(* update_subnet_node_hotkey: the hotkey field is overwritten; nothing is  *)
(* validated here.  Its caller (not in these sources) moves the hotkey     *)
(* indexes; the model lets the node take any account that is not its      *)
(* coldkey and not another node's hotkey.                                  *)
(***************************************************************************)
UpdateSubnetNodeHotkey(n, hk) ==
  /\ hk # Coldkey[n]
  /\ \A m \in Nodes \ {n} : hotkey[m] # hk
  /\ hotkey' = [hotkey EXCEPT ![n] = hk]
  /\ UNCHANGED <<delegateAccount, lastUpdateCall>>

(***************************************************************************)
(* transfer delegate account (modelled from the spec): the current holder  *)
(* names a new account; the rate is kept, nothing else is checked.         *)
(***************************************************************************)
TransferDelegateAccount(n, to) ==
  /\ delegateAccount[n] # None
  /\ delegateAccount' = [delegateAccount EXCEPT ![n].account_id = to]
  /\ UNCHANGED <<hotkey, lastUpdateCall>>

Next ==
  \/ \E n \in Nodes, a \in Accounts \cup {None}, r \in Rates \cup {None} :
       DoUpdateDelegateAccount(n, a, r)
  \/ \E n \in Nodes, a \in Accounts :
       UpdateSubnetNodeHotkey(n, a) \/ TransferDelegateAccount(n, a)

Spec == Init /\ [][Next]_vars

-----------------------------------------------------------------------------
TypeOK ==
  /\ hotkey \in [Nodes -> Accounts]
  /\ delegateAccount \in [Nodes -> DelegateAccounts \cup {None}]

(***************************************************************************)
(* No self-delegation (the spec's invariant of DelegateAccount): a node's  *)
(* delegate account is never its current hotkey nor its coldkey, whatever  *)
(* sequence of delegate updates, transfers and hotkey changes happened.    *)
(***************************************************************************)
NoSelfDelegation ==
  \A n \in Nodes : delegateAccount[n] # None =>
    /\ delegateAccount[n].account_id # hotkey[n]
    /\ delegateAccount[n].account_id # Coldkey[n]

(***************************************************************************)
(* The spec: "Passing both fields as absent clears the delegate account."  *)
(* Every call of do_update_delegate_account with neither an account nor a  *)
(* rate leaves the node without a delegate account.                        *)
(***************************************************************************)
BothAbsentClears ==
  [][lastUpdateCall' # lastUpdateCall /\ lastUpdateCall' # None
       /\ lastUpdateCall'.account = None /\ lastUpdateCall'.rate = None
       => delegateAccount'[lastUpdateCall'.node] = None]_vars
=============================================================================
