---------------------------- MODULE DelegateStake ----------------------------
(***************************************************************************)
(* Delegate stake balances of stake/delegate_account.rs: the per-account   *)
(* AccountDelegateStake, its total TotalAccountDelegateStake, and          *)
(* do_remove_delegate_balance, which moves an amount from an account's     *)
(* balance into the unbonding ledger.                                      *)
(*                                                                         *)
(* The ledger and the paths that credit a balance are outside these        *)
(* sources (the spec names them as collaborators): the model lets the      *)
(* ledger refuse an entry when an account already has MaxUnbondings of     *)
(* them, and release its oldest entry at any time.  free is the account's *)
(* token balance, which a credit draws from and a released entry returns  *)
(* to, so that conservation can be stated.  A dispatchable that returns    *)
(* Err reverts all of its writes, so a refused ledger entry undoes the     *)
(* balance decrease.                                                       *)
(***************************************************************************)
EXTENDS Integers, Sequences, FiniteSets, Functions

CONSTANTS
  Accounts,        \* account ids
  Amounts,         \* amounts a caller may pass (0 included)
  MaxUnbondings,   \* ledger entries an account may have
  Supply           \* the free balance every account starts with

VARIABLES
  accountDelegateStake,        \* AccountDelegateStake: account -> u128
  totalAccountDelegateStake,   \* TotalAccountDelegateStake
  unbonding,                   \* account -> amounts waiting in the ledger
  free                         \* account -> token balance

vars == <<accountDelegateStake, totalAccountDelegateStake, unbonding, free>>

SatSub(a, b) == IF a >= b THEN a - b ELSE 0

Init ==
  /\ accountDelegateStake = [a \in Accounts |-> 0]
  /\ totalAccountDelegateStake = 0
  /\ unbonding = [a \in Accounts |-> <<>>]
  /\ free = [a \in Accounts |-> Supply]

(***************************************************************************)
(* increase_delegate_account_balance: saturating_accrue on the account and *)
(* on the total (u128 saturation is out of the model's range).  Its        *)
(* callers are outside these sources; they move the amount from the      *)
(* account's free balance.                                                 *)
(***************************************************************************)
IncreaseDelegateAccountBalance(a, amount) ==
  /\ amount > 0
  /\ free[a] >= amount
  /\ accountDelegateStake' = [accountDelegateStake EXCEPT ![a] = @ + amount]
  /\ totalAccountDelegateStake' = totalAccountDelegateStake + amount
  /\ free' = [free EXCEPT ![a] = @ - amount]
  /\ UNCHANGED unbonding

\* Mutant: the total is not reduced.
DecreaseDelegateAccountBalanceNoTotal(a, amount) ==
  /\ accountDelegateStake' = [accountDelegateStake EXCEPT ![a] = SatSub(@, amount)]
  /\ UNCHANGED totalAccountDelegateStake

\* decrease_delegate_account_balance: saturating_reduce on both.
DecreaseDelegateAccountBalance(a, amount) ==
  /\ accountDelegateStake' = [accountDelegateStake EXCEPT ![a] = SatSub(@, amount)]
  /\ totalAccountDelegateStake' = SatSub(totalAccountDelegateStake, amount)

\* add_balance_to_unbonding_ledger (modelled from the spec): fails when full.
LedgerAccepts(a) == Len(unbonding[a]) < MaxUnbondings

\* Mutant: the decrease stays when the ledger refuses the entry.
DoRemoveDelegateBalanceNoRevert(a, amount) ==
  /\ amount > 0
  /\ accountDelegateStake[a] >= amount
  /\ DecreaseDelegateAccountBalance(a, amount)
  /\ unbonding' = IF LedgerAccepts(a)
                  THEN [unbonding EXCEPT ![a] = Append(@, amount)]
                  ELSE unbonding
  /\ UNCHANGED free

\* Mutant: the AmountZero check is dropped.
DoRemoveDelegateBalanceNoZeroCheck(a, amount) ==
  /\ accountDelegateStake[a] >= amount
  /\ DecreaseDelegateAccountBalance(a, amount)
  /\ LedgerAccepts(a)
  /\ unbonding' = [unbonding EXCEPT ![a] = Append(@, amount)]
  /\ UNCHANGED free

(***************************************************************************)
(* do_remove_delegate_balance: AmountZero, NotEnoughStakeToWithdraw, the   *)
(* balance decrease, then the ledger entry; a refused entry makes the call *)
(* fail and its decrease is reverted with it (a stuttering step).  The    *)
(* u128-to-balance conversion cannot fail for the model's amounts.         *)
(***************************************************************************)
DoRemoveDelegateBalance(a, amount) ==
  /\ amount > 0
  /\ accountDelegateStake[a] >= amount
  /\ DecreaseDelegateAccountBalance(a, amount)
  /\ LedgerAccepts(a)
  /\ unbonding' = [unbonding EXCEPT ![a] = Append(@, amount)]
  /\ UNCHANGED free

\* The ledger pays out an account's oldest entry (modelled from the spec).
ReleaseUnbonding(a) ==
  /\ unbonding[a] # <<>>
  /\ free' = [free EXCEPT ![a] = @ + Head(unbonding[a])]
  /\ unbonding' = [unbonding EXCEPT ![a] = Tail(@)]
  /\ UNCHANGED <<accountDelegateStake, totalAccountDelegateStake>>

Next ==
  \E a \in Accounts :
    \/ \E amount \in Amounts :
         IncreaseDelegateAccountBalance(a, amount) \/ DoRemoveDelegateBalance(a, amount)
    \/ ReleaseUnbonding(a)

Spec == Init /\ [][Next]_vars

-----------------------------------------------------------------------------
LedgerTotal == SumFunction([a \in Accounts |-> SumFunction(unbonding[a])])

TypeOK ==
  /\ accountDelegateStake \in [Accounts -> Nat]
  /\ free \in [Accounts -> Nat]
  /\ totalAccountDelegateStake \in Nat
  /\ \A a \in Accounts :
       Len(unbonding[a]) <= MaxUnbondings /\ \A k \in 1..Len(unbonding[a]) : unbonding[a][k] > 0

(***************************************************************************)
(* TotalAccountDelegateStake is the sum of every AccountDelegateStake: the *)
(* saturating reduce of the total never clips, and no path updates one    *)
(* without the other.                                                      *)
(***************************************************************************)
TotalMatchesSum == totalAccountDelegateStake = SumFunction(accountDelegateStake)

(***************************************************************************)
(* No stake is created or lost: every token is free, staked or waiting in  *)
(* the unbonding ledger, across removals the ledger refuses.               *)
(***************************************************************************)
StakeConserved ==
  SumFunction(free) + SumFunction(accountDelegateStake) + LedgerTotal
    = Supply * Cardinality(Accounts)
=============================================================================
