----------------------------- MODULE RewardRate -----------------------------
(***************************************************************************)
(* do_update_node_delegate_reward_rate of utilities/subnet_node.rs: a node *)
(* changes the share of its rewards that goes to delegators, at most once  *)
(* per NodeRewardRateUpdatePeriod blocks, and lowers it by at most         *)
(* MaxRewardRateDecrease per change.                                       *)
(*                                                                         *)
(* The code compares `block - last_delegate_reward_rate_update` with the   *)
(* period and nothing else reads the two block numbers, so the model keeps *)
(* only that age, capped at the period (every larger age behaves alike);   *)
(* time advances by Tick.  A node record may be in either partition; the   *)
(* wrapper applies the same function to whichever holds it, so the model   *)
(* keeps the fields without the partition.  recent is a history variable  *)
(* (no code keeps it): the highest rate each node held in each of the last *)
(* NodeRewardRateUpdatePeriod blocks, the current block first.             *)
(***************************************************************************)
EXTENDS Integers, Sequences, SequencesExt

CONSTANTS
  Nodes,                         \* subnet node ids
  PF,                            \* percentage_factor_as_u128 (100%)
  MaxDelegateStakePercentage,    \* MaxDelegateStakePercentage
  MaxRewardRateDecrease,         \* MaxRewardRateDecrease
  NodeRewardRateUpdatePeriod,    \* NodeRewardRateUpdatePeriod (blocks)
  Rates                          \* reward rates a caller may ask for

ASSUME NodeRewardRateUpdatePeriod \in Nat /\ Rates \subseteq Nat

VARIABLES
  delegateRewardRate,   \* node -> delegate_reward_rate
  age,                  \* node -> min(block - last update, period)
  recent                \* node -> highest rate per block, newest first

vars == <<delegateRewardRate, age, recent>>

\* The ensure! at the top of do_update_node_delegate_reward_rate.
ValidRate(r) == r <= PF /\ r <= MaxDelegateStakePercentage

(***************************************************************************)
(* A registered node starts with its registration rate and its last update *)
(* at the registration block (modelled from the spec: registration is not  *)
(* in these sources).                                                      *)
(***************************************************************************)
Init ==
  /\ delegateRewardRate \in [Nodes -> {r \in Rates : ValidRate(r)}]
  /\ age = [n \in Nodes |-> 0]
  /\ recent = [n \in Nodes |-> [j \in 1..NodeRewardRateUpdatePeriod |-> delegateRewardRate[n]]]

\* The history variable after node n's rate became new in the current block.
Recorded(n, new) == [recent EXCEPT ![n][1] = Max({@, new})]

\* Mutant: the decrease bound is compared with the wrong operand order.
PerformUpdateNodeDelegateRewardRateSwapped(n, new) ==
  LET curr == delegateRewardRate[n] IN
  /\ age[n] >= NodeRewardRateUpdatePeriod
  /\ new # curr
  /\ new < curr => new - curr <= MaxRewardRateDecrease
  /\ delegateRewardRate' = [delegateRewardRate EXCEPT ![n] = new]
  /\ age' = [age EXCEPT ![n] = 0]
  /\ recent' = Recorded(n, new)

(***************************************************************************)
(* perform_update_node_delegate_reward_rate: the update period has passed, *)
(* the rate changes, an increase is free and a decrease is at most         *)
(* MaxRewardRateDecrease; the rate and the last-update block are stored.   *)
(***************************************************************************)
PerformUpdateNodeDelegateRewardRate(n, new) ==
  LET curr == delegateRewardRate[n] IN
  /\ age[n] >= NodeRewardRateUpdatePeriod
  /\ new # curr
  /\ new < curr => curr - new <= MaxRewardRateDecrease
  /\ delegateRewardRate' = [delegateRewardRate EXCEPT ![n] = new]
  /\ age' = [age EXCEPT ![n] = 0]
  /\ recent' = Recorded(n, new)

\* Mutant: the InvalidDelegateRewardRate ensure! is dropped.
DoUpdateNodeDelegateRewardRateUnchecked(n, new) ==
  PerformUpdateNodeDelegateRewardRate(n, new)

\* do_update_node_delegate_reward_rate
DoUpdateNodeDelegateRewardRate(n, new) ==
  /\ ValidRate(new)
  /\ PerformUpdateNodeDelegateRewardRate(n, new)

\* A new block.
Tick ==
  /\ age' = [n \in Nodes |-> Min({age[n] + 1, NodeRewardRateUpdatePeriod})]
  /\ recent' = [n \in Nodes |->
                  <<delegateRewardRate[n]>> \o SubSeq(recent[n], 1, NodeRewardRateUpdatePeriod - 1)]
  /\ UNCHANGED delegateRewardRate

Next ==
  \/ \E n \in Nodes, r \in Rates : DoUpdateNodeDelegateRewardRate(n, r)
  \/ Tick

Spec == Init /\ [][Next]_vars

-----------------------------------------------------------------------------
TypeOK ==
  /\ delegateRewardRate \in [Nodes -> 0..PF]
  /\ age \in [Nodes -> 0..NodeRewardRateUpdatePeriod]
  /\ recent \in [Nodes -> [1..NodeRewardRateUpdatePeriod -> 0..PF]]

(***************************************************************************)
(* What the period and the decrease limit promise delegators together: in *)
(* any NodeRewardRateUpdatePeriod consecutive blocks a node's rate ends at *)
(* most MaxRewardRateDecrease below the highest rate it held in them, so a *)
(* cut cannot be split into several smaller ones.  It depends on the age   *)
(* guard, its reset on every change and the direction of the decrease     *)
(* check together.                                                         *)
(***************************************************************************)
RateCutPerPeriodBounded ==
  \A n \in Nodes :
    delegateRewardRate[n] + MaxRewardRateDecrease >= Max(ToSet(recent[n]))
=============================================================================
