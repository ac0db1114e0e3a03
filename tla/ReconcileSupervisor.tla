------------------------ MODULE ReconcileSupervisor ------------------------
(***************************************************************************)
(* The reconciliation loops of the server processes.  Each one goes        *)
(* through the products that have work, a bounded number per cycle and a   *)
(* bounded number of transitions per product, and then sleeps or starts    *)
(* over at once.  Requests lock the same products, deadlines lapse all the *)
(* while, and the reconciliation of some products fails whenever it is     *)
(* tried.                                                                  *)
(*                                                                         *)
(* What a reconciliation does to a product is ProductQueue's matter; here  *)
(* it counts how many transitions are due.                                 *)
(***************************************************************************)
EXTENDS Integers, Sequences, FiniteSets

CONSTANTS Products,
          NoProduct,              \* the zero ProductID
          Poisoned,               \* products whose reconciliation always fails
          Supervisors,            \* one per server process
          BatchSize,              \* ReconciliationBatchSize
          MaxReconciledProducts,  \* products per cycle
          MaxLapses               \* bound: how often anything falls due

ASSUME ProductAssumption == NoProduct \notin Products /\ Poisoned \subseteq Products
ASSUME BoundAssumption == /\ BatchSize \in Nat \ {0}
                          /\ MaxReconciledProducts \in Nat \ {0}
                          /\ MaxLapses \in Nat
(* The code does not see to this.  A product that fails keeps its          *)
(* updated_at and comes first again, so with as many of them as a cycle    *)
(* visits the worker would never reach another product.                    *)
ASSUME PoisonAssumption == Cardinality(Poisoned) < MaxReconciledProducts

VARIABLES due,     \* transitions a product is due
          order,   \* the products by updated_at, p.id
          busy,    \* products a request has locked
          cycles,  \* where each supervisor is in reconcileCycle
          lapses   \* how often anything fell due

vars == <<due, order, busy, cycles, lapses>>

(* since, which no action looks at: how much had lapsed when it started.   *)
Fresh == [step |-> "selecting", product |-> NoProduct, seen |-> << >>, since |-> 0,
          processed |-> 0, excluded |-> {}, moreWork |-> FALSE, failed |-> FALSE]
Started == [Fresh EXCEPT !.since = lapses]
Sleeping == [Fresh EXCEPT !.step = "sleeping"]

Init == /\ due = [p \in Products |-> 0]
        /\ order \in [1 .. Cardinality(Products) -> Products]
        /\ \A p \in Products : \E i \in DOMAIN order : order[i] = p
        /\ busy = {}
        /\ cycles = [s \in Supervisors |-> Fresh]
        /\ lapses = 0

Unlocked(p) == p \notin busy /\ \A s \in Supervisors : cycles[s].product # p

(* updated_at becomes the time of this transaction.                        *)
Touched(p) == Append(SelectSeq(order, LAMBDA q : q # p), p)

-----------------------------------------------------------------------------
(***************************************************************************)
(* selectEligibleProduct.  The statement sees the products as they were    *)
(* when it began and locks the first one nobody holds; that one may have   *)
(* been settled in between, and the check of its new version may or may    *)
(* not notice, since the attempts are still read as they were.             *)
(***************************************************************************)
MutExcludesNothing(s, p) == due[p] > 0
Eligible(s, p) == due[p] > 0 /\ p \notin cycles[s].excluded

Look(s) ==
  /\ cycles[s].step = "selecting"
  /\ cycles[s].processed < MaxReconciledProducts
  /\ cycles' = [cycles EXCEPT ![s].step = "looking",
                              ![s].seen = SelectSeq(order, LAMBDA p : Eligible(s, p))]
  /\ UNCHANGED <<due, order, busy, lapses>>

Lock(s) ==
  /\ cycles[s].step = "looking"
  /\ \E p \in Products :
       LET seen == cycles[s].seen
       IN  /\ Unlocked(p)
           /\ \E i \in DOMAIN seen :
                /\ seen[i] = p
                /\ \A j \in 1 .. (i - 1) : ~Unlocked(seen[j]) \/ due[seen[j]] = 0
           /\ cycles' = [cycles EXCEPT ![s].step = "reconciling",
                                       ![s].product = p, ![s].seen = << >>]
  /\ UNCHANGED <<due, order, busy, lapses>>

(***************************************************************************)
(* reconcileLockedProductBounded, under the lock.                          *)
(***************************************************************************)
Transitions(p) == IF due[p] < BatchSize THEN due[p] ELSE BatchSize

MutForgetsMoreWork(s, left) == FALSE
MoreWork(s, left) == cycles[s].moreWork \/ left > 0

Visited(s) == [cycles[s] EXCEPT !.step = "selecting", !.product = NoProduct,
                 !.processed = @ + 1, !.excluded = @ \cup {cycles[s].product}]

Reconcile(s) ==
  /\ cycles[s].step = "reconciling"
  /\ LET p == cycles[s].product
         left == due[p] - Transitions(p)
     IN  /\ p \notin Poisoned
         /\ due' = [due EXCEPT ![p] = left]
         /\ order' = IF Transitions(p) > 0 THEN Touched(p) ELSE order
         /\ cycles' = [cycles EXCEPT ![s] = [Visited(s) EXCEPT !.moreWork = MoreWork(s, left)]]
  /\ UNCHANGED <<busy, lapses>>

(* The transaction rolls back; ReconcileNextProduct still says which       *)
(* product it was, and the cycle goes on without it.                       *)
Fail(s) ==
  /\ cycles[s].step = "reconciling"
  /\ cycles' = [cycles EXCEPT ![s] = [Visited(s) EXCEPT !.failed = TRUE]]
  /\ UNCHANGED <<due, order, busy, lapses>>

-----------------------------------------------------------------------------
(***************************************************************************)
(* runLoop.                                                                *)
(***************************************************************************)
MutRetriesAtOnce(s, immediate) == IF immediate \/ cycles[s].failed THEN Started ELSE Sleeping
Afterwards(s, immediate) == IF immediate /\ ~cycles[s].failed THEN Started ELSE Sleeping

(* Nothing eligible is left, or everything that is, is locked.             *)
Empty(s) ==
  /\ cycles[s].step = "looking"
  /\ \A i \in DOMAIN cycles[s].seen :
       LET p == cycles[s].seen[i] IN ~Unlocked(p) \/ due[p] = 0
  /\ cycles' = [cycles EXCEPT ![s] = Afterwards(s, cycles[s].moreWork)]
  /\ UNCHANGED <<due, order, busy, lapses>>

(* The bound on products per cycle.                                        *)
Exhausted(s) ==
  /\ cycles[s].step = "selecting"
  /\ cycles[s].processed = MaxReconciledProducts
  /\ cycles' = [cycles EXCEPT ![s] = Afterwards(s, TRUE)]
  /\ UNCHANGED <<due, order, busy, lapses>>

(* The database fails before a product is selected.                        *)
LoseDatabase(s) ==
  /\ cycles[s].step = "looking"
  /\ cycles' = [cycles EXCEPT ![s] = Sleeping]
  /\ UNCHANGED <<due, order, busy, lapses>>

(* The interval's timer fires.                                             *)
Wake(s) ==
  /\ cycles[s].step = "sleeping"
  /\ cycles' = [cycles EXCEPT ![s] = Started]
  /\ UNCHANGED <<due, order, busy, lapses>>

(* The process is restarted; a transaction it had open rolls back.         *)
Restart(s) ==
  /\ cycles[s].step # "selecting"
  /\ cycles' = [cycles EXCEPT ![s] = Started]
  /\ UNCHANGED <<due, order, busy, lapses>>

-----------------------------------------------------------------------------
(***************************************************************************)
(* Requests and the clock.                                                 *)
(***************************************************************************)
BeginRequest(p) ==
  /\ Unlocked(p)
  /\ busy' = busy \cup {p}
  /\ UNCHANGED <<due, order, cycles, lapses>>

(* A request reconciles without a limit.                                   *)
Commit(p) ==
  /\ p \in busy \ Poisoned
  /\ due' = [due EXCEPT ![p] = 0]
  /\ order' = Touched(p)
  /\ busy' = busy \ {p}
  /\ UNCHANGED <<cycles, lapses>>

RollBack(p) ==
  /\ p \in busy
  /\ busy' = busy \ {p}
  /\ UNCHANGED <<due, order, cycles, lapses>>

Lapse(p) ==
  /\ lapses < MaxLapses
  /\ lapses' = lapses + 1
  /\ due' = [due EXCEPT ![p] = @ + 1]
  /\ UNCHANGED <<order, busy, cycles>>

Work(s) == \/ Look(s) \/ Lock(s) \/ Reconcile(s) \/ Fail(s)
           \/ Empty(s) \/ Exhausted(s) \/ Wake(s)

Next == \/ \E s \in Supervisors : Work(s) \/ LoseDatabase(s) \/ Restart(s)
        \/ \E p \in Products : BeginRequest(p) \/ Commit(p) \/ RollBack(p) \/ Lapse(p)

Spec == Init /\ [][Next]_vars

(***************************************************************************)
(* Fairness.  The loops go on, requests end, and from some time on the     *)
(* database fails nobody but the poisoned products.  (A failure that       *)
(* leaves the same state as the regular step counts as the regular step.)  *)
(***************************************************************************)
Trouble(s) == /\ \/ Fail(s) /\ cycles[s].product \notin Poisoned
                 \/ LoseDatabase(s)
                 \/ Restart(s)
              /\ ~(Reconcile(s) \/ Empty(s) \/ Wake(s))

FairSpec == /\ Spec
            /\ \A s \in Supervisors : WF_vars(Work(s))
            /\ \A p \in Products : WF_vars(Commit(p) \/ RollBack(p))
            /\ <>[][/\ \A s \in Supervisors : ~Trouble(s)
                    /\ \A p \in Products \ Poisoned : ~RollBack(p) \/ Commit(p)]_vars

-----------------------------------------------------------------------------
(* A product is in at most one transaction, of a supervisor or of a        *)
(* request, and no cycle began in the future.                              *)
TypeOK ==
  /\ due \in [Products -> Nat] /\ lapses \in Nat /\ busy \subseteq Products
  /\ \A s \in Supervisors :
       /\ cycles[s].step \in {"selecting", "looking", "reconciling", "sleeping"}
       /\ cycles[s].product \in Products \cup {NoProduct}
       /\ cycles[s].product \in Products <=> cycles[s].step = "reconciling"
       /\ cycles[s].product \notin busy
       /\ cycles[s].since \in 0 .. lapses
       /\ cycles[s].excluded \subseteq Products
       /\ \A r \in Supervisors \ {s} :
            cycles[s].product # NoProduct => cycles[r].product # cycles[s].product

(* The worker gets round to every product it is able to reconcile, though  *)
(* others fail in every cycle and come first each time.                    *)
HealthyProductsSettle ==
  \A p \in Products \ Poisoned : (due[p] > 0) ~> (due[p] = 0)

(* When nothing more falls due the loops come to rest: starting over at    *)
(* once is for cycles that got something done, and a product that fails    *)
(* for ever does not keep a processor busy.                                *)
SupervisorsRest ==
  \A s \in Supervisors : []<>(cycles[s].step = "sleeping")

(* A batch that was cut short is resumed at once: a cycle that met no      *)
(* error does not end in sleep while a product it visited has work left,   *)
(* unless that fell due in the meantime.                                   *)
UnfinishedWorkIsResumed ==
  [][\A s \in Supervisors :
       Empty(s) /\ cycles'[s].step = "sleeping" /\ ~cycles[s].failed
         /\ cycles[s].since = lapses
       => \A p \in cycles[s].excluded : due[p] = 0]_vars
=============================================================================
