------------------------ MODULE AdaptiveQueueProofs ------------------------
(***************************************************************************)
(* The adaptive controller for every configuration that validateConfig     *)
(* accepts.  BoundedStep leads from one permitted percentage to another    *)
(* because the target it heads for is permitted too (Clamp), and it never  *)
(* leaves the interval between the two.                                    *)
(***************************************************************************)
EXTENDS AdaptiveQueue, TLAPS

Permitted == MinimumPercent .. MaximumPercent

USE PercentAssumption, StepAssumption, SampleAssumption, TargetAssumption

(* Whatever the ratio, the target is a permitted percentage.               *)
LEMMA TargetIsPermitted ==
  ASSUME NEW o \in Outcomes
  PROVE  TargetPercent(o) \in Permitted
<1>1. ASSUME NEW v \in Int PROVE Clamp(v) \in Permitted
  BY DEF Clamp, Permitted
<1>2. Ratio(o) \in Int
  <2>1. o.purchased \in Nat /\ o.failed \in Nat
    BY DEF Outcomes
  <2>2. CASE o.purchased > 0
    <3>1. \A a \in Int, b \in Nat \ {0} : a \div b \in Int
      OBVIOUS
    <3>2. 100 * o.failed + o.purchased - 1 \in Int /\ o.purchased \in Nat \ {0}
      BY <2>1, <2>2
    <3> QED
      BY <2>2, <3>1, <3>2 DEF Ratio
  <2>3. CASE ~(o.purchased > 0)
    BY <2>3 DEF Ratio
  <2> QED
    BY <2>2, <2>3
<1> QED
  BY <1>1, <1>2 DEF TargetPercent

(* A step ends between where it starts and the target, and is bounded.     *)
LEMMA StepIsBounded ==
  ASSUME NEW c \in Int, NEW t \in Int
  PROVE  /\ BoundedStep(c, t) \in Int
         /\ c <= t => c <= BoundedStep(c, t) /\ BoundedStep(c, t) <= t
         /\ t <= c => t <= BoundedStep(c, t) /\ BoundedStep(c, t) <= c
         /\ BoundedStep(c, t) <= c + MaximumStepPercent
         /\ BoundedStep(c, t) >= c - MaximumStepPercent
         /\ BoundedStep(c, t) = c => t = c
BY DEF BoundedStep

-----------------------------------------------------------------------------
Invariant == /\ TypeOK
             /\ PercentStaysInRange
             /\ StatusIsTrue
             /\ recent \in Outcomes
             /\ refresh.step = "stored" /\ refresh.reason = "stable" => refresh.target = percent

(* What a store does.                                                      *)
LEMMA AdjustIsAStep ==
  ASSUME Invariant, Adjust
  PROVE  /\ refresh'.step = "stored"
         /\ refresh'.target \in Permitted
         /\ refresh'.reason \in {"stable", "applied"}
         /\ refresh'.reason = "stable" => refresh'.target = percent'
         /\ percent' = BoundedStep(percent, refresh'.target)
         /\ percent' \in Permitted
         /\ refresh' \in [step : {"stored"}, target : Int, reason : {"stable", "applied"}]
<1> DEFINE t == TargetPercent(recent)
<1>1. percent \in Permitted /\ percent \in Int /\ t \in Permitted /\ t \in Int
  BY TargetIsPermitted DEF Invariant, PercentStaysInRange, Permitted
<1>2. percent' = BoundedStep(percent, t)
  BY DEF Adjust
<1>3. refresh' = [step |-> "stored", target |-> t,
                  reason |-> IF percent' = percent THEN "stable" ELSE "applied"]
  BY DEF Adjust
<1> HIDE DEF t
<1>4. percent' \in Permitted /\ (percent' = percent => t = percent)
  <2>1. \/ percent <= t /\ percent <= percent' /\ percent' <= t
        \/ t <= percent /\ t <= percent' /\ percent' <= percent
    <3>1. percent <= t \/ t <= percent
      BY <1>1
    <3> QED
      BY <1>1, <1>2, <3>1, StepIsBounded
  <2>2. percent' \in Int /\ (percent' = percent => t = percent)
    BY <1>1, <1>2, StepIsBounded
  <2> QED
    BY <1>1, <2>1, <2>2 DEF Permitted
<1> QED
  BY <1>1, <1>2, <1>3, <1>4

LEMMA InvariantIsInductive == Invariant /\ [Next]_vars => Invariant'
<1> SUFFICES ASSUME Invariant, [Next]_vars PROVE Invariant'
  OBVIOUS
<1> USE DEF Invariant, TypeOK, PercentStaysInRange, StatusIsTrue
<1>1. CASE ReadRequests
  BY <1>1 DEF ReadRequests, Idle
<1>2. CASE SkipOnRequests \/ SkipOnPurchases
  BY <1>2 DEF SkipOnRequests, SkipOnPurchases, Skip, Idle
<1>3. CASE Adjust
  BY <1>3, AdjustIsAStep DEF Adjust, Permitted
<1>4. CASE Publish
  BY <1>4 DEF Publish, Shown, Idle
<1>5. CASE OutcomesMove
  BY <1>5 DEF OutcomesMove
<1>6. CASE UNCHANGED vars
  BY <1>6 DEF vars
<1> QED
  BY <1>1, <1>2, <1>3, <1>4, <1>5, <1>6 DEF Next

LEMMA InvariantHolds == Spec => []Invariant
<1>1. Init => Invariant
  BY DEF Init, Idle, Invariant, TypeOK, PercentStaysInRange, StatusIsTrue
<1> QED
  BY <1>1, InvariantIsInductive, PTL DEF Spec

(* Joins never see a percentage outside the configured limits, in whatever *)
(* order statistics come, fail or contradict each other.                   *)
THEOREM PercentInRange == Spec => []PercentStaysInRange
<1>1. Invariant => PercentStaysInRange
  BY DEF Invariant
<1> QED
  BY <1>1, InvariantHolds, PTL

(* Between two refreshes the status agrees with what joins see, and a      *)
(* percentage called stable has reached its target.                        *)
THEOREM StatusTruthful == Spec => []StatusIsTrue
<1>1. Invariant => StatusIsTrue
  BY DEF Invariant
<1> QED
  BY <1>1, InvariantHolds, PTL

(* No refresh overshoots its target or exceeds the maximum step.           *)
THEOREM RefreshApproaches == Spec => StepsApproachTheTarget
<1> DEFINE A == percent' # percent =>
       \/ percent < percent' /\ percent' <= refresh'.target
            /\ percent' <= percent + MaximumStepPercent
       \/ percent > percent' /\ percent' >= refresh'.target
            /\ percent' >= percent - MaximumStepPercent
<1>1. ASSUME Invariant, [Next]_vars PROVE [A]_vars
  <2>1. CASE Adjust
    <3>1. percent \in Int /\ refresh'.target \in Int
      BY <1>1, <2>1, AdjustIsAStep DEF Invariant, TypeOK, Permitted
    <3>2. percent' = BoundedStep(percent, refresh'.target)
      BY <1>1, <2>1, AdjustIsAStep
    <3>3. /\ percent <= refresh'.target => percent <= percent' /\ percent' <= refresh'.target
          /\ refresh'.target <= percent => refresh'.target <= percent' /\ percent' <= percent
          /\ percent' <= percent + MaximumStepPercent
          /\ percent' >= percent - MaximumStepPercent
          /\ percent' \in Int
      BY <3>1, <3>2, StepIsBounded
    <3> QED
      BY <3>1, <3>3
  <2>2. CASE ~Adjust
    BY <1>1, <2>2 DEF Next, ReadRequests, SkipOnRequests, SkipOnPurchases, Skip,
                      Publish, OutcomesMove, vars
  <2> QED
    BY <2>1, <2>2
<1> QED
  BY <1>1, InvariantHolds, PTL DEF Spec, StepsApproachTheTarget
=============================================================================
