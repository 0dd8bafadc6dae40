--------------------------- MODULE MCNodeDelegate ---------------------------
(***************************************************************************)
(* The two delegate settings of a subnet node record side by side: the     *)
(* delegate account (DelegateAccount) and the delegate reward rate         *)
(* (RewardRate).  do_update_delegate_account and                           *)
(* do_update_node_delegate_reward_rate each mutate one field of the same   *)
(* SubnetNode record, and blocks pass between calls; the specification     *)
(* interleaves the steps of both, each leaving the other's variables       *)
(* alone.  Two nodes with coldkeys a1 and a2, four accounts and delegate   *)
(* rates 0 (too low), 1 and 2 (too high) against PF = 1; the reward rate   *)
(* of n1 in quarters, with rates above MaxDelegateStakePercentage and     *)
(* above 100%, a period of two blocks and a decrease limit of one quarter. *)
(***************************************************************************)
EXTENDS Integers, TLC

CONSTANTS n1, n2, a1, a2, a3, a4, None

VARIABLES hotkey, delegateAccount, lastUpdateCall, delegateRewardRate, age, recent

accountVars == <<hotkey, delegateAccount, lastUpdateCall>>
rateVars == <<delegateRewardRate, age, recent>>
vars == <<accountVars, rateVars>>

Account == INSTANCE DelegateAccount
             WITH Nodes <- {n1, n2}, Accounts <- {a1, a2, a3, a4},
                  Coldkey <- (n1 :> a1) @@ (n2 :> a2), PF <- 1, Rates <- {0, 1, 2}

Reward == INSTANCE RewardRate
            WITH Nodes <- {n1}, PF <- 4, MaxDelegateStakePercentage <- 3,
                 MaxRewardRateDecrease <- 1, NodeRewardRateUpdatePeriod <- 2,
                 Rates <- 0..5

Init == Account!Init /\ Reward!Init

Next ==
  \/ Account!Next /\ UNCHANGED rateVars
  \/ Reward!Next /\ UNCHANGED accountVars

Spec == Init /\ [][Next]_vars

\* The type invariants of both components.
TypeOK == Account!TypeOK /\ Reward!TypeOK

\* See RewardRate!RateCutPerPeriodBounded.
RateCutPerPeriodBounded == Reward!RateCutPerPeriodBounded
=============================================================================
