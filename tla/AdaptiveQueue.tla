--------------------------- MODULE AdaptiveQueue ---------------------------
(***************************************************************************)
(* The adaptive controller of one server process, when it is enabled.      *)
(* Refresh reads two sets of statistics, moves the waiting-buffer          *)
(* percentage a bounded step towards its target and then brings the status *)
(* up to date.  Joins read the percentage and operators the status at any  *)
(* moment in between.                                                      *)
(***************************************************************************)
EXTENDS Integers

CONSTANTS BasePercent, MinimumPercent, MaximumPercent, MaximumStepPercent,
          MinimumCheckoutOutcomes,
          NoTarget,
          MaxOutcomes  \* bound: outcomes of a kind in the window

(* validateConfig.                                                         *)
ASSUME PercentAssumption == /\ MinimumPercent \in Nat
                            /\ BasePercent \in Nat
                            /\ MaximumPercent \in Nat
                            /\ MinimumPercent <= BasePercent
                            /\ BasePercent <= MaximumPercent
ASSUME StepAssumption == MaximumStepPercent \in 1 .. MaximumPercent
ASSUME SampleAssumption == MinimumCheckoutOutcomes \in Nat \ {0} /\ MaxOutcomes \in Nat
ASSUME TargetAssumption == NoTarget \notin Int

VARIABLES percent,   \* PercentSource.value
          snapshot,  \* Controller.snapshot
          refresh,   \* how far Refresh is
          recent     \* checkout outcomes in the window, as Prometheus has them

vars == <<percent, snapshot, refresh, recent>>

(* failed: cancelled and expired checkouts.                                *)
Outcomes == [purchased : 0 .. MaxOutcomes, failed : 0 .. MaxOutcomes]

Idle == [step |-> "idle", target |-> NoTarget, reason |-> "none"]

Init == /\ percent = BasePercent
        /\ snapshot = [current |-> BasePercent, target |-> NoTarget, reason |-> "not_evaluated"]
        /\ refresh = Idle
        /\ recent \in Outcomes

-----------------------------------------------------------------------------
Clamp(value) == IF value < MinimumPercent THEN MinimumPercent
                ELSE IF value > MaximumPercent THEN MaximumPercent
                ELSE value

(* Failed invitations to expect per purchase, in percent and rounded up.   *)
Ratio(o) == IF o.purchased > 0 THEN (100 * o.failed + o.purchased - 1) \div o.purchased
                               ELSE MaximumPercent

TargetPercent(o) == Clamp(Ratio(o))

MutOnlyUpwards(current, target) ==
  IF target > current + MaximumStepPercent THEN current + MaximumStepPercent ELSE target
MutAlwaysAStep(current, target) ==
  IF target > current THEN current + MaximumStepPercent
  ELSE IF target < current THEN current - MaximumStepPercent
  ELSE target
BoundedStep(current, target) ==
  IF target > current + MaximumStepPercent THEN current + MaximumStepPercent
  ELSE IF target < current - MaximumStepPercent THEN current - MaximumStepPercent
  ELSE target

Enough(o) == o.purchased + o.failed >= MinimumCheckoutOutcomes

(* recordSkipped, which ends the refresh.                                  *)
Skip(reason) == /\ snapshot' = [current |-> percent, target |-> NoTarget, reason |-> reason]
                /\ refresh' = Idle
                /\ UNCHANGED <<percent, recent>>

ReadRequests == /\ refresh = Idle
                /\ refresh' = [Idle EXCEPT !.step = "requests"]
                /\ UNCHANGED <<percent, snapshot, recent>>

SkipOnRequests == /\ refresh = Idle
                  /\ \E reason \in {"metrics_unavailable", "insufficient_http_samples",
                                    "http_reliability_below_minimum"} : Skip(reason)

(* The percentage is stored before the status is updated.                  *)
Adjust == /\ refresh.step = "requests"
          /\ Enough(recent)
          /\ LET target == TargetPercent(recent)
             IN  /\ percent' = BoundedStep(percent, target)
                 /\ refresh' = [step |-> "stored", target |-> target,
                      reason |-> IF percent' = percent THEN "stable" ELSE "applied"]
          /\ UNCHANGED <<snapshot, recent>>

SkipOnPurchases == /\ refresh.step = "requests"
                   /\ \/ Skip("metrics_unavailable")
                      \/ ~Enough(recent) /\ Skip("insufficient_purchase_samples")

Shown(current, target) == current

Publish == /\ refresh.step = "stored"
           /\ snapshot' = [current |-> Shown(percent, refresh.target),
                           target |-> refresh.target, reason |-> refresh.reason]
           /\ refresh' = Idle
           /\ UNCHANGED <<percent, recent>>

(* Checkouts end, and old ones leave the window.                           *)
OutcomesMove == /\ recent' \in Outcomes
                /\ UNCHANGED <<percent, snapshot, refresh>>

Next == \/ ReadRequests \/ SkipOnRequests
        \/ Adjust \/ SkipOnPurchases
        \/ Publish \/ OutcomesMove

Spec == Init /\ [][Next]_vars

(* The ticker goes on, and the statistics are good enough again and again. *)
FairSpec == Spec /\ WF_vars(ReadRequests) /\ SF_vars(Adjust) /\ WF_vars(Publish)

-----------------------------------------------------------------------------
(* The percentage and the status are numbers; a target is there between    *)
(* the store and the publication, and it is one the limits allow.          *)
TypeOK ==
  /\ percent \in Int
  /\ snapshot.current \in Int
  /\ snapshot.target \in Int \cup {NoTarget}
  /\ refresh \in [step : {"idle", "requests", "stored"}, target : Int \cup {NoTarget},
                  reason : {"none", "stable", "applied"}]
  /\ refresh.step # "stored" => refresh.target = NoTarget
  /\ refresh.step = "stored" => refresh.target \in MinimumPercent .. MaximumPercent

(* Whatever the statistics say, joins see a percentage the operator        *)
(* allowed.                                                                *)
PercentStaysInRange == percent \in MinimumPercent .. MaximumPercent

(* Between two refreshes the status shows the percentage joins see, and    *)
(* "stable" is said only of a percentage that has reached its target.      *)
StatusIsTrue ==
  refresh.step # "stored" =>
    /\ snapshot.current = percent
    /\ snapshot.reason = "stable" => snapshot.target = percent
    /\ snapshot.reason = "applied" => snapshot.target \in MinimumPercent .. MaximumPercent

(* A refresh moves the percentage towards its target, never past it and    *)
(* never by more than the step.                                            *)
StepsApproachTheTarget ==
  [][percent' # percent =>
       \/ percent < percent' /\ percent' <= refresh'.target
            /\ percent' <= percent + MaximumStepPercent
       \/ percent > percent' /\ percent' >= refresh'.target
            /\ percent' >= percent - MaximumStepPercent]_vars

(* While the outcomes in the window stay the same, the percentage comes to *)
(* rest at what they call for.                                             *)
PercentSettles ==
  \A o \in Outcomes : Enough(o) =>
    (<>[](recent = o) => <>[](percent = TargetPercent(o)))
=============================================================================
