------------------------------ MODULE BurnRate ------------------------------
(***************************************************************************)
(* The registration burn-rate controller of utilities/subnet_node.rs and   *)
(* the fixed-point helpers of utilities/math.rs it uses.                   *)
(*                                                                         *)
(* Per subnet, NodeRegistrationsThisEpoch counts registrations and         *)
(* CurrentNodeBurnRate is the share of the base burn a registration pays. *)
(* Once per epoch the scheduler calls update_burn_rate_for_epoch for every *)
(* subnet with one shared WeightMeter; a subnet the meter cannot pay for   *)
(* is skipped (its counter is kept) until a later epoch.                   *)
(*                                                                         *)
(* Rates are fixed-point numbers with denominator PF, the stand-in for     *)
(* PERCENTAGE_FACTOR = 10^18: every quotient truncates exactly as U256     *)
(* division does, only at a coarser grain.                                 *)
(***************************************************************************)
EXTENDS Integers, FiniteSets

CONSTANTS
  Subnets,                 \* subnet ids
  PF,                      \* percentage factor (1.0)
  MinNodeBurnRate,         \* MinNodeBurnRate
  MaxNodeBurnRate,         \* MaxNodeBurnRate
  BaseBurnAmount,          \* base_burn_amount()
  Target,                  \* TargetNodeRegistrationsPerEpoch: subnet -> count
  Alpha,                   \* NodeBurnRateAlpha: subnet -> fixed point
  MaxRegistrations,        \* bound on registrations per epoch in the model
  Budgets                  \* weight budgets (in update calls) a scheduler may grant

ASSUME PF > 0 /\ 0 <= MinNodeBurnRate /\ MinNodeBurnRate <= MaxNodeBurnRate
ASSUME \A s \in Subnets : Target[s] \in Nat /\ Alpha[s] \in Nat

VARIABLES
  nodeRegistrationsThisEpoch,  \* subnet -> registrations since the last update
  currentNodeBurnRate,         \* subnet -> rate
  weightMeter,                 \* update calls the epoch's meter can still pay for
  pending                      \* subnets the scheduler has not yet visited this epoch

vars == <<nodeRegistrationsThisEpoch, currentNodeBurnRate, weightMeter, pending>>

MinOf(a, b) == IF a <= b THEN a ELSE b
MaxOf(a, b) == IF a >= b THEN a ELSE b
SatSub(a, b) == IF a >= b THEN a - b ELSE 0

\* Mutant: rounds half up, as HALF_PERCENT suggests it might.
PercentMulRoundHalf(x, y) ==
  IF x = 0 \/ y = 0 THEN 0 ELSE (x * y + PF \div 2) \div PF

(***************************************************************************)
(* percent_mul: 0 when either operand is 0, else x * y / PF truncated.     *)
(* The U256 guard `x > (U256::MAX - HALF_PERCENT) / y` cannot hold for two *)
(* u128 operands, and the u128 saturation cannot trigger for rates and     *)
(* amounts of the model, so both are left out.                             *)
(***************************************************************************)
PercentMul(x, y) == IF x = 0 \/ y = 0 THEN 0 ELSE (x * y) \div PF

\* percent_div: 0 when either operand is 0, else x * PF / y truncated.
PercentDiv(x, y) == IF x = 0 \/ y = 0 THEN 0 ELSE (x * PF) \div y

\* Mutant: the ratio is taken in whole numbers, without the factor.
CalculateTargetBurnRateWholeRatio(registrations, target) ==
  IF registrations = 0 THEN MinNodeBurnRate
  ELSE IF registrations >= target THEN MaxNodeBurnRate
  ELSE MinNodeBurnRate + (MaxNodeBurnRate - MinNodeBurnRate) * (registrations \div target)

(***************************************************************************)
(* calculate_target_burn_rate: min for no registrations, max at or above   *)
(* target, else min + percent_mul(max - min, percent_div(reg, target)).    *)
(***************************************************************************)
CalculateTargetBurnRate(registrations, target) ==
  IF registrations = 0 THEN MinNodeBurnRate
  ELSE IF registrations >= target THEN MaxNodeBurnRate
  ELSE MinNodeBurnRate +
         PercentMul(SatSub(MaxNodeBurnRate, MinNodeBurnRate),
                    PercentDiv(registrations, target))

\* The EMA step of update_burn_rate_for_epoch, before and after the clamp.
BlendedRate(s) ==
  PercentMul(CalculateTargetBurnRate(nodeRegistrationsThisEpoch[s], Target[s]), Alpha[s])
    + PercentMul(currentNodeBurnRate[s], SatSub(PF, Alpha[s]))

\* `new_burn_rate.max(min_rate).min(max_rate)`
NewBurnRate(s) == MinOf(MaxOf(BlendedRate(s), MinNodeBurnRate), MaxNodeBurnRate)

\* calculate_burn_amount
CalculateBurnAmount(s) == PercentMul(BaseBurnAmount, currentNodeBurnRate[s])

-----------------------------------------------------------------------------
(* The storage default of CurrentNodeBurnRate is not in these sources: any *)
(* rate in [min, max] may be the one a subnet starts with.                 *)
Init ==
  /\ nodeRegistrationsThisEpoch = [s \in Subnets |-> 0]
  /\ currentNodeBurnRate \in [Subnets -> MinNodeBurnRate..MaxNodeBurnRate]
  /\ weightMeter \in Budgets
  /\ pending = Subnets

\* record_registration: saturating increment (bounded by the model).
RecordRegistration(s) ==
  /\ nodeRegistrationsThisEpoch[s] < MaxRegistrations
  /\ nodeRegistrationsThisEpoch' = [nodeRegistrationsThisEpoch EXCEPT ![s] = @ + 1]
  /\ UNCHANGED <<currentNodeBurnRate, weightMeter, pending>>

\* Mutant: the weight-meter check is dropped.
UpdateBurnRateForEpochUnmetered(s) ==
  /\ s \in pending
  /\ pending' = pending \ {s}
  /\ currentNodeBurnRate' = [currentNodeBurnRate EXCEPT ![s] = NewBurnRate(s)]
  /\ nodeRegistrationsThisEpoch' = [nodeRegistrationsThisEpoch EXCEPT ![s] = 0]
  /\ weightMeter' = weightMeter - 1

(***************************************************************************)
(* update_burn_rate_for_epoch for subnet s.  When the meter cannot pay     *)
(* reads_writes(9, 2) the call returns at once and leaves the counter and  *)
(* the rate as they are; otherwise it consumes exactly that weight, stores *)
(* the clamped EMA and resets the counter.                                 *)
(***************************************************************************)
UpdateBurnRateForEpoch(s) ==
  /\ s \in pending
  /\ pending' = pending \ {s}
  /\ IF weightMeter >= 1
     THEN /\ currentNodeBurnRate' = [currentNodeBurnRate EXCEPT ![s] = NewBurnRate(s)]
          /\ nodeRegistrationsThisEpoch' = [nodeRegistrationsThisEpoch EXCEPT ![s] = 0]
          /\ weightMeter' = weightMeter - 1
     ELSE UNCHANGED <<currentNodeBurnRate, nodeRegistrationsThisEpoch, weightMeter>>

\* The scheduler starts the next epoch once every subnet was visited, with a
\* fresh budget (modelled from the spec: the scheduler is not in these sources).
NextEpoch ==
  /\ pending = {}
  /\ pending' = Subnets
  /\ weightMeter' \in Budgets
  /\ UNCHANGED <<nodeRegistrationsThisEpoch, currentNodeBurnRate>>

Next ==
  \/ \E s \in Subnets : RecordRegistration(s) \/ UpdateBurnRateForEpoch(s)
  \/ NextEpoch

Spec == Init /\ [][Next]_vars

-----------------------------------------------------------------------------
TypeOK ==
  /\ nodeRegistrationsThisEpoch \in [Subnets -> 0..MaxRegistrations]
  /\ currentNodeBurnRate \in [Subnets -> Nat]
  /\ weightMeter \in Nat
  /\ pending \subseteq Subnets

(***************************************************************************)
(* Each epoch step moves the rate toward its target and never past it: the *)
(* stored rate lies between the previous rate and the target rate, up to  *)
(* the one unit the two truncating percent_mul terms may lose.  Rounding   *)
(* that overshoots (or a wrong weight) would let the rate oscillate.      *)
(***************************************************************************)
StepWithinHull ==
  [][\A s \in Subnets :
       currentNodeBurnRate'[s] # currentNodeBurnRate[s] =>
         LET tgt == CalculateTargetBurnRate(nodeRegistrationsThisEpoch[s], Target[s])
             prev == currentNodeBurnRate[s]
         IN  currentNodeBurnRate'[s] \in (MinOf(prev, tgt) - 1)..MaxOf(prev, tgt)
    ]_vars

(***************************************************************************)
(* The target rate the next update of each subnet will use, computed by    *)
(* calculate_target_burn_rate from the registrations counted so far,       *)
(* against the exact linear interpolation min + (max - min) * reg / target *)
(* (reg capped at target): never above it, and at most 1 + (max - min)/PF  *)
(* units below it (two truncations).  One more registration never lowers   *)
(* it.                                                                     *)
(***************************************************************************)
ExactTimesTargetPF(r, t) ==
  PF * (MinNodeBurnRate * t + (MaxNodeBurnRate - MinNodeBurnRate) * r)

TargetRateAccurate ==
  \A s \in Subnets :
    LET r    == nodeRegistrationsThisEpoch[s]
        t    == Target[s]
        code == CalculateTargetBurnRate(r, t)
    IN  /\ t > 0 =>
             /\ code * t * PF <= ExactTimesTargetPF(MinOf(r, t), t)
             /\ ExactTimesTargetPF(MinOf(r, t), t)
                  < (PF * (code + 1) + (MaxNodeBurnRate - MinNodeBurnRate)) * t
        /\ code <= CalculateTargetBurnRate(r + 1, t)
=============================================================================
