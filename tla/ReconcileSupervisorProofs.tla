---------------------- MODULE ReconcileSupervisorProofs ----------------------
(***************************************************************************)
(* A product is in one transaction at a time and no work that was cut      *)
(* short is forgotten, for any number of products, supervisors and         *)
(* failures and every bound on a cycle.                                    *)
(*                                                                         *)
(* The argument: a cycle that met no failure remembers in moreWork that a  *)
(* product it visited was left with work.  Work at a visited product only  *)
(* grows when something falls due, and then the cycle is no longer as      *)
(* young as the last lapse.                                                *)
(***************************************************************************)
EXTENDS ReconcileSupervisor, TLAPS

Parts == {"step", "product", "seen", "since", "processed", "excluded", "moreWork", "failed"}

IsCycle(c) == /\ DOMAIN c = Parts
              /\ c.moreWork \in BOOLEAN /\ c.failed \in BOOLEAN

Shape == /\ DOMAIN cycles = Supervisors
         /\ \A s \in Supervisors : IsCycle(cycles[s])

LeavesNothing(c) == ~c.failed /\ c.since = lapses /\ ~c.moreWork

Accounted == \A s \in Supervisors :
  LeavesNothing(cycles[s]) => \A p \in cycles[s].excluded : due[p] = 0

IInv == TypeOK /\ Shape /\ Accounted

-----------------------------------------------------------------------------
(* One supervisor goes on, and what is due at most shrinks.                *)
LEMMA CycleStep ==
  ASSUME IInv, NEW s \in Supervisors, NEW c, IsCycle(c),
         cycles' = [cycles EXCEPT ![s] = c], UNCHANGED lapses, UNCHANGED busy,
         due' \in [Products -> Nat], \A p \in Products : due'[p] <= due[p],
         c.step \in {"selecting", "looking", "reconciling", "sleeping"},
         c.product \in Products \cup {NoProduct},
         c.product \in Products <=> c.step = "reconciling",
         c.product = NoProduct \/ Unlocked(c.product),
         c.since \in 0 .. lapses, c.excluded \subseteq Products,
         LeavesNothing(c) => \A p \in c.excluded : due'[p] = 0
  PROVE  IInv'
<1>1. /\ DOMAIN cycles' = Supervisors /\ cycles'[s] = c
      /\ \A r \in Supervisors : r # s => cycles'[r] = cycles[r]
  BY DEF IInv, Shape
<1>2. Shape'
  BY <1>1 DEF IInv, Shape
<1>3. TypeOK'
  <2>1. due' \in [Products -> Nat] /\ lapses' \in Nat /\ busy' \subseteq Products
    BY DEF IInv, TypeOK
  <2>2. ASSUME NEW r \in Supervisors
        PROVE  /\ cycles'[r].step \in {"selecting", "looking", "reconciling", "sleeping"}
               /\ cycles'[r].product \in Products \cup {NoProduct}
               /\ cycles'[r].product \in Products <=> cycles'[r].step = "reconciling"
               /\ cycles'[r].product \notin busy'
               /\ cycles'[r].since \in 0 .. lapses'
               /\ cycles'[r].excluded \subseteq Products
    <3>1. NoProduct \notin busy
      BY ProductAssumption DEF IInv, TypeOK
    <3> QED
      BY <1>1, <3>1 DEF IInv, TypeOK, Unlocked
  <2>3. ASSUME NEW r \in Supervisors, NEW q \in Supervisors \ {r}, cycles'[r].product # NoProduct
        PROVE  cycles'[q].product # cycles'[r].product
    <3>1. CASE r = s
      BY <1>1, <2>3, <3>1 DEF Unlocked
    <3>2. CASE q = s
      BY <1>1, <2>3, <3>2 DEF Unlocked
    <3>3. CASE r # s /\ q # s
      BY <1>1, <2>3, <3>3 DEF IInv, TypeOK
    <3> QED
      BY <3>1, <3>2, <3>3
  <2> QED
    BY <2>1, <2>2, <2>3 DEF TypeOK
<1>4. Accounted'
  <2> SUFFICES ASSUME NEW r \in Supervisors, ~cycles'[r].failed,
                      cycles'[r].since = lapses, ~cycles'[r].moreWork,
                      NEW p \in cycles'[r].excluded
               PROVE  due'[p] = 0
    BY DEF Accounted, LeavesNothing
  <2>1. CASE r = s
    BY <1>1, <2>1 DEF LeavesNothing
  <2>2. CASE r # s
    <3>1. cycles'[r] = cycles[r] /\ p \in Products
      BY <1>1, <2>2 DEF IInv, TypeOK
    <3>2. due[p] = 0
      BY <3>1 DEF IInv, Accounted, LeavesNothing
    <3>3. due'[p] <= due[p] /\ due'[p] \in Nat
      BY <3>1
    <3> QED
      BY <3>2, <3>3
  <2> QED
    BY <2>1, <2>2
<1> QED
  BY <1>2, <1>3, <1>4 DEF IInv

(* A supervisor starts over, or goes to sleep.                             *)
LEMMA RestStep ==
  ASSUME IInv, NEW s \in Supervisors, NEW c \in {Started, Sleeping},
         cycles' = [cycles EXCEPT ![s] = c],
         UNCHANGED <<due, order, busy, lapses>>
  PROVE  IInv'
<1>1. /\ IsCycle(c) /\ c.step \in {"selecting", "sleeping"} /\ c.product = NoProduct
      /\ c.since \in {0, lapses} /\ c.excluded = {}
  BY DEF IsCycle, Parts, Started, Sleeping, Fresh
<1>2. lapses \in Nat /\ due \in [Products -> Nat]
  BY DEF IInv, TypeOK
<1>3. c.since \in 0 .. lapses
  BY <1>1, <1>2
<1>4. /\ UNCHANGED due /\ UNCHANGED busy /\ UNCHANGED lapses
      /\ due' \in [Products -> Nat] /\ \A p \in Products : due'[p] <= due[p]
  BY <1>2
<1>5. /\ c.step \in {"selecting", "looking", "reconciling", "sleeping"}
      /\ c.product \in Products <=> c.step = "reconciling"
      /\ c.excluded \subseteq Products
  BY <1>1, ProductAssumption
<1>6. LeavesNothing(c) => \A p \in c.excluded : due'[p] = 0
  BY <1>1
<1> QED
  BY <1>1, <1>3, <1>4, <1>5, <1>6, CycleStep

LEMMA LookStep ==
  ASSUME IInv, NEW s \in Supervisors, Look(s)
  PROVE  IInv'
<1>1. PICK seen :
      /\ cycles' = [cycles EXCEPT ![s].step = "looking", ![s].seen = seen]
      /\ cycles[s].step = "selecting"
      /\ UNCHANGED due /\ UNCHANGED busy /\ UNCHANGED lapses
  BY DEF Look
<1> DEFINE c == [cycles[s] EXCEPT !.step = "looking", !.seen = seen]
<1>2. IsCycle(cycles[s]) /\ DOMAIN cycles = Supervisors
  BY DEF IInv, Shape
<1>3. cycles' = [cycles EXCEPT ![s] = c]
  BY <1>1, <1>2
<1>4. /\ IsCycle(c) /\ c.step = "looking" /\ c.product = cycles[s].product
      /\ c.since = cycles[s].since /\ c.excluded = cycles[s].excluded
      /\ c.failed = cycles[s].failed /\ c.moreWork = cycles[s].moreWork
  BY <1>2 DEF IsCycle, Parts
<1> HIDE DEF c
<1>5. cycles[s].product = NoProduct
  BY <1>1 DEF IInv, TypeOK
<1>6. due' \in [Products -> Nat] /\ \A p \in Products : due'[p] <= due[p]
  BY <1>1 DEF IInv, TypeOK
<1>7. c.since \in 0 .. lapses /\ c.excluded \subseteq Products
  BY <1>4 DEF IInv, TypeOK
<1>8. LeavesNothing(c) => \A p \in c.excluded : due'[p] = 0
  BY <1>1, <1>4 DEF IInv, Accounted, LeavesNothing
<1> QED
  BY <1>1, <1>3, <1>4, <1>5, <1>6, <1>7, <1>8, ProductAssumption, CycleStep

LEMMA LockStep ==
  ASSUME IInv, NEW s \in Supervisors, Lock(s)
  PROVE  IInv'
<1>1. PICK p \in Products :
        /\ Unlocked(p)
        /\ cycles' = [cycles EXCEPT ![s].step = "reconciling", ![s].product = p,
                                    ![s].seen = << >>]
  BY DEF Lock
<1>2. UNCHANGED due /\ UNCHANGED busy /\ UNCHANGED lapses
  BY DEF Lock
<1>3. IsCycle(cycles[s]) /\ DOMAIN cycles = Supervisors
  BY DEF IInv, Shape
<1> DEFINE c == [cycles[s] EXCEPT !.step = "reconciling", !.product = p, !.seen = << >>]
<1>4. cycles' = [cycles EXCEPT ![s] = c]
  BY <1>1, <1>3
<1>5. /\ IsCycle(c) /\ c.step = "reconciling" /\ c.product = p
      /\ c.since = cycles[s].since /\ c.excluded = cycles[s].excluded
      /\ c.failed = cycles[s].failed /\ c.moreWork = cycles[s].moreWork
  BY <1>3 DEF IsCycle, Parts
<1> HIDE DEF c
<1>6. due' \in [Products -> Nat] /\ \A q \in Products : due'[q] <= due[q]
  BY <1>2 DEF IInv, TypeOK
<1>7. c.since \in 0 .. lapses /\ c.excluded \subseteq Products
  BY <1>5 DEF IInv, TypeOK
<1>8. LeavesNothing(c) => \A q \in c.excluded : due'[q] = 0
  BY <1>2, <1>5 DEF IInv, Accounted, LeavesNothing
<1> QED
  BY <1>1, <1>2, <1>4, <1>5, <1>6, <1>7, <1>8, CycleStep

(* What a visit leaves behind, whether it succeeds or fails.               *)
LEMMA VisitedFields ==
  ASSUME IInv, NEW s \in Supervisors, cycles[s].step = "reconciling"
  PROVE  LET v == Visited(s)
         IN  /\ IsCycle(v) /\ v.step = "selecting" /\ v.product = NoProduct
             /\ v.since = cycles[s].since /\ v.since \in 0 .. lapses
             /\ v.excluded = cycles[s].excluded \cup {cycles[s].product}
             /\ v.excluded \subseteq Products
             /\ v.failed = cycles[s].failed /\ v.moreWork = cycles[s].moreWork
             /\ cycles[s].product \in Products
<1> DEFINE n == cycles[s].processed + 1
           x == cycles[s].excluded \cup {cycles[s].product}
           v == [cycles[s] EXCEPT !.step = "selecting", !.product = NoProduct,
                                  !.processed = n, !.excluded = x]
<1>1. IsCycle(cycles[s])
  BY DEF IInv, Shape
<1>2. Visited(s) = v
  BY <1>1 DEF Visited, IsCycle, Parts
<1> HIDE DEF n, x
<1>3. /\ IsCycle(v) /\ v.step = "selecting" /\ v.product = NoProduct
      /\ v.since = cycles[s].since /\ v.excluded = x
      /\ v.failed = cycles[s].failed /\ v.moreWork = cycles[s].moreWork
  BY <1>1 DEF IsCycle, Parts
<1> HIDE DEF v
<1>4. /\ cycles[s].product \in Products /\ cycles[s].since \in 0 .. lapses
      /\ x \subseteq Products
  BY DEF IInv, TypeOK, x
<1> QED
  BY <1>2, <1>3, <1>4 DEF x

LEMMA ReconcileStep ==
  ASSUME IInv, NEW s \in Supervisors, Reconcile(s)
  PROVE  IInv'
<1>1. PICK p, left, more, v :
        /\ p = cycles[s].product /\ left = due[p] - Transitions(p)
        /\ more = MoreWork(s, left) /\ v = Visited(s)
  OBVIOUS
<1>2. /\ cycles[s].step = "reconciling"
      /\ due' = [due EXCEPT ![p] = left]
      /\ cycles' = [cycles EXCEPT ![s] = [v EXCEPT !.moreWork = more]]
      /\ UNCHANGED busy /\ UNCHANGED lapses
  BY <1>1 DEF Reconcile
<1>3. /\ IsCycle(v) /\ v.step = "selecting" /\ v.product = NoProduct
      /\ v.since = cycles[s].since /\ v.since \in 0 .. lapses
      /\ v.excluded = cycles[s].excluded \cup {p} /\ v.excluded \subseteq Products
      /\ v.failed = cycles[s].failed /\ p \in Products
  BY <1>1, <1>2, VisitedFields
<1>4. more \in BOOLEAN /\ (~more => ~cycles[s].moreWork /\ ~ (left > 0))
  BY <1>1 DEF MoreWork
<1> DEFINE c == [v EXCEPT !.moreWork = more]
<1>5. /\ IsCycle(c) /\ c.step = "selecting" /\ c.product = NoProduct
      /\ c.since = v.since /\ c.excluded = v.excluded
      /\ c.failed = v.failed /\ c.moreWork = more
  BY <1>3, <1>4 DEF IsCycle, Parts
<1>6. cycles' = [cycles EXCEPT ![s] = c]
  BY <1>2
<1> HIDE DEF c
<1>7. due \in [Products -> Nat] /\ due[p] \in Nat /\ left \in Nat /\ left <= due[p]
  BY <1>1, <1>3, BoundAssumption DEF IInv, TypeOK, Transitions
<1>8. /\ due' \in [Products -> Nat] /\ due'[p] = left
      /\ \A q \in Products : q # p => due'[q] = due[q]
  BY <1>2, <1>3, <1>7
<1>9. \A q \in Products : due'[q] <= due[q]
  BY <1>7, <1>8
<1>10. LeavesNothing(c) => \A q \in c.excluded : due'[q] = 0
  <2> SUFFICES ASSUME LeavesNothing(c), NEW q \in c.excluded PROVE due'[q] = 0
    OBVIOUS
  <2>1. ~more /\ LeavesNothing(cycles[s])
    BY <1>3, <1>4, <1>5 DEF LeavesNothing
  <2>2. left = 0
    BY <1>4, <1>7, <2>1
  <2>3. CASE q = p
    BY <1>8, <2>2, <2>3
  <2>4. CASE q \in cycles[s].excluded /\ q # p
    BY <1>8, <2>1, <2>4 DEF IInv, Accounted, TypeOK
  <2> QED
    BY <1>3, <1>5, <2>3, <2>4
<1>11. /\ c.step \in {"selecting", "looking", "reconciling", "sleeping"}
       /\ c.product \in Products <=> c.step = "reconciling"
       /\ c.since \in 0 .. lapses /\ c.excluded \subseteq Products
  BY <1>3, <1>5, ProductAssumption
<1> QED
  BY <1>2, <1>5, <1>6, <1>8, <1>9, <1>10, <1>11, CycleStep

LEMMA FailStep ==
  ASSUME IInv, NEW s \in Supervisors, Fail(s)
  PROVE  IInv'
<1>1. PICK v : v = Visited(s)
  OBVIOUS
<1>2. /\ cycles[s].step = "reconciling"
      /\ cycles' = [cycles EXCEPT ![s] = [v EXCEPT !.failed = TRUE]]
      /\ UNCHANGED due /\ UNCHANGED busy /\ UNCHANGED lapses
  BY <1>1 DEF Fail
<1>3. /\ IsCycle(v) /\ v.step = "selecting" /\ v.product = NoProduct
      /\ v.since \in 0 .. lapses /\ v.excluded \subseteq Products
  BY <1>1, <1>2, VisitedFields
<1> DEFINE c == [v EXCEPT !.failed = TRUE]
<1>4. /\ IsCycle(c) /\ c.step = "selecting" /\ c.product = NoProduct
      /\ c.since = v.since /\ c.excluded = v.excluded /\ c.failed
  BY <1>3 DEF IsCycle, Parts
<1>5. cycles' = [cycles EXCEPT ![s] = c]
  BY <1>2
<1> HIDE DEF c
<1>6. due' \in [Products -> Nat] /\ \A p \in Products : due'[p] <= due[p]
  BY <1>2 DEF IInv, TypeOK
<1>7. LeavesNothing(c) => \A p \in c.excluded : due'[p] = 0
  BY <1>4 DEF LeavesNothing
<1>8. /\ c.step \in {"selecting", "looking", "reconciling", "sleeping"}
      /\ c.product \in Products <=> c.step = "reconciling"
      /\ c.since \in 0 .. lapses /\ c.excluded \subseteq Products
  BY <1>3, <1>4, ProductAssumption
<1> QED
  BY <1>2, <1>4, <1>5, <1>6, <1>7, <1>8, CycleStep

(* Requests and the clock change no cycle.                                 *)
LEMMA OutsideStep ==
  ASSUME IInv, NEW p \in Products, BeginRequest(p) \/ Commit(p) \/ RollBack(p) \/ Lapse(p)
  PROVE  IInv'
<1>1. UNCHANGED cycles
  BY DEF BeginRequest, Commit, RollBack, Lapse
<1>2. Shape'
  BY <1>1 DEF IInv, Shape
<1>3. CASE BeginRequest(p) \/ RollBack(p)
  <2>1. /\ UNCHANGED due /\ UNCHANGED lapses
        /\ (busy' = busy \cup {p} /\ Unlocked(p)) \/ busy' = busy \ {p}
    BY <1>3 DEF BeginRequest, RollBack
  <2>2. TypeOK'
    BY <1>1, <2>1 DEF IInv, TypeOK, Unlocked
  <2>3. Accounted'
    BY <1>1, <2>1 DEF IInv, Accounted, LeavesNothing
  <2> QED
    BY <1>2, <2>2, <2>3 DEF IInv
<1>4. CASE Commit(p)
  <2>1. /\ due' = [due EXCEPT ![p] = 0] /\ busy' = busy \ {p} /\ UNCHANGED lapses
    BY <1>4 DEF Commit
  <2>2. TypeOK'
    BY <1>1, <2>1 DEF IInv, TypeOK
  <2>3. Accounted'
    BY <1>1, <2>1 DEF IInv, TypeOK, Accounted, LeavesNothing
  <2> QED
    BY <1>2, <2>2, <2>3 DEF IInv
<1>5. CASE Lapse(p)
  <2>1. /\ due' = [due EXCEPT ![p] = @ + 1] /\ lapses' = lapses + 1 /\ UNCHANGED busy
        /\ lapses \in Nat
    BY <1>5 DEF Lapse, IInv, TypeOK
  <2>2. \A s \in Supervisors : cycles[s].since \in 0 .. lapses' /\ cycles[s].since # lapses'
    BY <2>1 DEF IInv, TypeOK
  <2>3. due' \in [Products -> Nat]
    BY <2>1 DEF IInv, TypeOK
  <2>4. TypeOK'
    BY <1>1, <2>1, <2>2, <2>3 DEF IInv, TypeOK
  <2>5. Accounted'
    BY <1>1, <2>2 DEF Accounted, LeavesNothing
  <2> QED
    BY <1>2, <2>4, <2>5 DEF IInv
<1> QED
  BY <1>3, <1>4, <1>5

LEMMA NextKeepsIInv == IInv /\ [Next]_vars => IInv'
<1> SUFFICES ASSUME IInv, [Next]_vars PROVE IInv'
  OBVIOUS
<1>1. ASSUME NEW s \in Supervisors, Work(s) \/ LoseDatabase(s) \/ Restart(s)
      PROVE  IInv'
  <2>1. CASE Look(s) \/ Lock(s) \/ Reconcile(s) \/ Fail(s)
    BY <2>1, LookStep, LockStep, ReconcileStep, FailStep
  <2>2. CASE Empty(s) \/ Exhausted(s)
    BY <2>2, RestStep DEF Empty, Exhausted, Afterwards
  <2>3. CASE Wake(s) \/ LoseDatabase(s) \/ Restart(s)
    BY <2>3, RestStep DEF Wake, LoseDatabase, Restart
  <2> QED
    BY <1>1, <2>1, <2>2, <2>3 DEF Work
<1>2. CASE UNCHANGED vars
  BY <1>2 DEF vars, IInv, TypeOK, Shape, Accounted, LeavesNothing
<1> QED
  BY <1>1, <1>2, OutsideStep DEF Next

THEOREM InvariantHolds == Spec => []IInv
<1>1. Init => IInv
  <2> SUFFICES ASSUME Init PROVE IInv
    OBVIOUS
  <2>1. /\ cycles = [s \in Supervisors |-> Fresh] /\ lapses = 0 /\ busy = {}
        /\ due = [p \in Products |-> 0]
    BY DEF Init
  <2>2. /\ IsCycle(Fresh) /\ Fresh.step = "selecting" /\ Fresh.product = NoProduct
        /\ Fresh.since = 0 /\ Fresh.excluded = {}
    BY DEF Fresh, IsCycle, Parts
  <2>3. \A s \in Supervisors : cycles[s] = Fresh
    BY <2>1
  <2>4. Shape /\ Accounted
    BY <2>1, <2>2, <2>3 DEF Shape, Accounted
  <2>5. TypeOK
    BY <2>1, <2>2, <2>3, ProductAssumption DEF TypeOK
  <2> QED
    BY <2>4, <2>5 DEF IInv
<1>2. IInv /\ [Next]_vars => IInv'
  BY NextKeepsIInv
<1> QED
  BY <1>1, <1>2, PTL DEF Spec

(* FOR UPDATE SKIP LOCKED: a product is in one transaction at a time, and  *)
(* a supervisor holds one exactly while it reconciles it.                  *)
THEOREM TypeCorrect == Spec => []TypeOK
<1>1. IInv => TypeOK
  BY DEF IInv
<1> QED
  BY <1>1, InvariantHolds, PTL

(* runLoop does not go to sleep on work that BatchSize cut short.          *)
THEOREM WorkIsResumed == Spec => UnfinishedWorkIsResumed
<1>1. ASSUME IInv, NEW s \in Supervisors, Empty(s), cycles'[s].step = "sleeping",
             ~cycles[s].failed, cycles[s].since = lapses
      PROVE  \A p \in cycles[s].excluded : due[p] = 0
  <2>1. DOMAIN cycles = Supervisors /\ Started.step = "selecting"
    BY <1>1 DEF IInv, Shape, Started, Fresh
  <2>2. ~cycles[s].moreWork
    BY <1>1, <2>1 DEF Empty, Afterwards
  <2> QED
    BY <1>1, <2>2 DEF IInv, Accounted, LeavesNothing
<1>2. IInv /\ [Next]_vars =>
        [\A s \in Supervisors :
           Empty(s) /\ cycles'[s].step = "sleeping" /\ ~cycles[s].failed
             /\ cycles[s].since = lapses
           => \A p \in cycles[s].excluded : due[p] = 0]_vars
  BY <1>1
<1> QED
  BY <1>2, InvariantHolds, PTL DEF Spec, UnfinishedWorkIsResumed
=============================================================================
