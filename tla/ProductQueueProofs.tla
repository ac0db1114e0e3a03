------------------------- MODULE ProductQueueProofs -------------------------
(***************************************************************************)
(* The invariants of one product's queue, for every number of users, keys, *)
(* attempts and units of stock, every time to live and every batch limit.  *)
(*                                                                         *)
(* The argument: whatever the order of the transactions, each one starts   *)
(* from a good product and leaves a good product (QueueTransactionProofs), *)
(* and the clock only shortens deadlines.  "Good" is the conjunction of    *)
(* the invariants: none of them is inductive alone.  The counter stays     *)
(* right only because the attempts selected are disjoint, the order only   *)
(* because a newcomer meets a settled line, and so on.                     *)
(***************************************************************************)
EXTENDS ProductQueue, QueueTransactionProofs

AdjustmentsOK == adjustments \in [AdjustmentKeys -> Adjustment]

Invariant == Good(product) /\ AdjustmentsOK

(* The parts of the invariant are the properties ProductQueue states.      *)
LEMMA InvariantImplies ==
  ASSUME Invariant
  PROVE  /\ TypeOK
         /\ ReservedMatchesHolders
         /\ FirstComeFirstServed
         /\ ActiveAttemptIsLatest
         /\ JoinKeyNamesOneAttempt
         /\ InvitationsAreAnnounced
<1> USE DEF Invariant, Good
<1>1. TypeOK
  <2>1. product.reserved \in 0 .. MaxStock
    <3>1. product.stock \in 0 .. MaxStock /\ product.reserved \in 0 .. product.stock
      BY Fields DEF Consistent
    <3> QED
      BY <3>1, BoundAssumption
  <2>2. product.failed \in {FALSE}
    BY DEF WellFormed
  <2> QED
    BY <2>1, <2>2 DEF TypeOK, WellFormed, AdjustmentsOK
<1>2. ReservedMatchesHolders
  BY DEF ReservedMatchesHolders
<1>3. FirstComeFirstServed
  BY DEF FirstComeFirstServed, InOrder, State
<1>4. ActiveAttemptIsLatest
  BY DEF ActiveAttemptIsLatest, ActiveIsLatest, State
<1>5. JoinKeyNamesOneAttempt
  BY DEF JoinKeyNamesOneAttempt, KeysDistinct
<1>6. InvitationsAreAnnounced
  BY DEF InvitationsAreAnnounced, InvitedAnnounced, State
<1> QED
  BY <1>1, <1>2, <1>3, <1>4, <1>5, <1>6

LEMMA InitGood == Init => Invariant /\ Remembers(product)
<1> SUFFICES ASSUME Init PROVE Invariant /\ Remembers(product)
  OBVIOUS
<1>1. Good(product) /\ Remembers(product)
  BY FreshIsGood, StockAssumption DEF Init
<1>2. AdjustmentsOK
  BY DEF Init, AdjustmentsOK, Adjustment
<1> QED
  BY <1>1, <1>2 DEF Invariant

(* The clock moves no attempt.                                             *)
LEMMA TickKeeps ==
  ASSUME Good(product), Tick
  PROVE  /\ Good(product')
         /\ AtRest(product) => Keeps(product, product')
<1> DEFINE p == product
           later == [i \in DOMAIN p.attempts |-> Elapsed(p.attempts[i])]
<1>1. product' = [p EXCEPT !.attempts = later]
  BY DEF Tick, Good, WellFormed
<1>2. ASSUME NEW i \in DOMAIN p.attempts
      PROVE  /\ later[i] \in Attempt
             /\ later[i].user = p.attempts[i].user /\ later[i].key = p.attempts[i].key
             /\ later[i].state = p.attempts[i].state /\ later[i].ref = p.attempts[i].ref
             /\ p.attempts[i].left = 0 => later[i] = p.attempts[i]
  <2> DEFINE n == IF p.attempts[i].left > 0 THEN p.attempts[i].left - 1 ELSE 0
  <2>1. p.attempts[i] \in Attempt
    BY Fields DEF Good
  <2>2. later[i] = [p.attempts[i] EXCEPT !.left = n]
    BY DEF Elapsed
  <2>3. n \in Nat /\ (p.attempts[i].left = 0 => n = p.attempts[i].left)
    BY <2>1 DEF Attempt
  <2> HIDE DEF later, n
  <2> QED
    BY <2>1, <2>2, <2>3 DEF Attempt
<1>3. DOMAIN later = DOMAIN p.attempts /\ later = [i \in DOMAIN p.attempts |-> later[i]]
  OBVIOUS
<1> HIDE DEF later
<1> QED
  BY <1>1, <1>2, <1>3, TimePasses

(* A request leaves a settled product, or writes nothing to it.            *)
LEMMA RequestSettles ==
  ASSUME Invariant, Request
  PROVE  /\ product' = product \/ Settled(product')
         /\ AdjustmentsOK'
<1> USE DEF Invariant
<1>1. CASE \E u \in Users, k \in Keys : Join(u, k)
  <2>1. PICK u \in Users, k \in Keys : Join(u, k)
    BY <1>1
  <2>2. PICK percent \in Percents : Commit(JoinTx(product, u, k, percent))
    BY <2>1 DEF Join
  <2>3. percent \in Nat
    BY WorkerAssumption
  <2> QED
    BY <2>1, <2>2, <2>3, JoinSettles DEF Join, Commit, AdjustmentsOK
<1>2. CASE \E i \in DOMAIN product.attempts, u \in Users : StartCheckout(i, u)
  BY <1>2, StartCheckoutSettles DEF StartCheckout, Commit, AdjustmentsOK
<1>3. CASE \E u \in Users : Cancel(u)
  BY <1>3, CancelSettles DEF Cancel, Commit, AdjustmentsOK
<1>4. CASE FindCurrent
  BY <1>4, FullReconcileKeepsNames DEF FindCurrent, Commit, AdjustmentsOK
<1>5. CASE \E k \in AdjustmentKeys, d \in Deltas : AdjustStock(k, d)
  <2>1. PICK k \in AdjustmentKeys, d \in Deltas : AdjustStock(k, d)
    BY <1>5
  <2>2. d \in Int
    BY StockAssumption
  <2>3. AdjustmentsOK'
    BY <2>1 DEF AdjustStock, AdjustmentsOK, Adjustment
  <2>4. product' = product \/ Settled(product')
    BY <2>1, <2>2, AdjustSettles DEF AdjustStock, Commit
  <2> QED
    BY <2>3, <2>4
<1>6. CASE \E i \in DOMAIN product.attempts, ref \in References :
             ApplyPayment(i, "succeeded", ref)
  <2>1. PICK i \in DOMAIN product.attempts, ref \in References :
          ApplyPayment(i, "succeeded", ref)
    BY <1>6
  <2>2. Settled(PaymentTx(product, i, "succeeded", ref, {}))
    BY PaymentSettles
  <2> QED
    BY <2>1, <2>2 DEF ApplyPayment, Commit, AdjustmentsOK
<1>7. CASE \E i \in DOMAIN product.attempts : ApplyPayment(i, "failed", NoReference)
  <2>1. PICK i \in DOMAIN product.attempts : ApplyPayment(i, "failed", NoReference)
    BY <1>7
  <2>2. Settled(PaymentTx(product, i, "failed", NoReference, {}))
    BY PaymentSettles
  <2> QED
    BY <2>1, <2>2 DEF ApplyPayment, Commit, AdjustmentsOK
<1> QED
  BY <1>1, <1>2, <1>3, <1>4, <1>5, <1>6, <1>7 DEF Request

LEMMA NextKeepsInvariant == Invariant /\ [Next]_vars => Invariant'
<1> SUFFICES ASSUME Invariant, [Next]_vars PROVE Invariant'
  OBVIOUS
<1>1. CASE Request
  BY <1>1, RequestSettles DEF Settled, Invariant
<1>2. CASE WorkerReconcile
  <2>1. BatchLimit \in Nat
    BY WorkerAssumption
  <2> QED
    BY <1>2, <2>1, ReconcileKeepsGood
    DEF WorkerReconcile, Commit, Invariant, AdjustmentsOK
<1>3. CASE Tick
  BY <1>3, TickKeeps DEF Tick, Invariant, AdjustmentsOK
<1>4. CASE UNCHANGED vars
  BY <1>4 DEF vars, Invariant, AdjustmentsOK
<1> QED
  BY <1>1, <1>2, <1>3, <1>4 DEF Next

THEOREM InvariantHolds == Spec => []Invariant
<1>1. Init => Invariant
  BY InitGood
<1>2. Invariant /\ [Next]_vars => Invariant'
  BY NextKeepsInvariant
<1> QED
  BY <1>1, <1>2, PTL DEF Spec

(* The committed product is always well formed, its attempts numbered      *)
(* without a gap (the CHECK constraints and the sequence column).          *)
THEOREM TypeCorrect == Spec => []TypeOK
<1>1. Invariant => TypeOK
  BY InvariantImplies
<1> QED
  BY <1>1, InvariantHolds, PTL

(* ErrReservedInvariant is never raised by reconcileLockedProductBounded.  *)
THEOREM ReservationsMatch == Spec => []ReservedMatchesHolders
<1>1. Invariant => ReservedMatchesHolders
  BY InvariantImplies
<1> QED
  BY <1>1, InvariantHolds, PTL

(* The queue is first come, first served.                                  *)
THEOREM ServedInOrder == Spec => []FirstComeFirstServed
<1>1. Invariant => FirstComeFirstServed
  BY InvariantImplies
<1> QED
  BY <1>1, InvariantHolds, PTL

(* A user has at most one active attempt, and it is the latest one.        *)
THEOREM OneActiveAttempt == Spec => []ActiveAttemptIsLatest
<1>1. Invariant => ActiveAttemptIsLatest
  BY InvariantImplies
<1> QED
  BY <1>1, InvariantHolds, PTL

(* A join key names one attempt of its user.                               *)
THEOREM JoinIsIdempotent == Spec => []JoinKeyNamesOneAttempt
<1>1. Invariant => JoinKeyNamesOneAttempt
  BY InvariantImplies
<1> QED
  BY <1>1, InvariantHolds, PTL

(* Every invitation has its outbox row, and nobody else has one.           *)
THEOREM EveryInvitationAnnounced == Spec => []InvitationsAreAnnounced
<1>1. Invariant => InvitationsAreAnnounced
  BY InvariantImplies
<1> QED
  BY <1>1, InvariantHolds, PTL

(* A request that writes leaves nothing to reconcile.                      *)
THEOREM RequestsSettle == Spec => RequestsLeaveNoWork
<1>1. Invariant /\ [Next]_vars =>
        [Request /\ product' # product => ~HasReconciliationWork(product')]_vars
  <2> SUFFICES ASSUME Invariant, Request, product' # product
               PROVE  ~HasReconciliationWork(product')
    OBVIOUS
  <2> QED
    BY RequestSettles DEF Settled
<1> QED
  BY <1>1, InvariantHolds, PTL DEF Spec, RequestsLeaveNoWork

-----------------------------------------------------------------------------
(***************************************************************************)
(* The history of the product.                                             *)
(***************************************************************************)
LEMMA RequestFollows ==
  ASSUME Invariant, Remembers(product), Request
  PROVE  Follows(product, product') /\ Remembers(product')
<1> USE DEF Invariant
<1>1. Keeps(product, product') => Follows(product, product') /\ Remembers(product')
  BY KeepsRemembering DEF Keeps
<1>2. CASE \E u \in Users, k \in Keys : Join(u, k)
  BY <1>1, <1>2, JoinKeeps DEF Join, Commit
<1>3. CASE \E i \in DOMAIN product.attempts, u \in Users : StartCheckout(i, u)
  BY <1>1, <1>3, StartCheckoutKeeps DEF StartCheckout, Commit
<1>4. CASE \E u \in Users : Cancel(u)
  BY <1>1, <1>4, CancelKeeps DEF Cancel, Commit
<1>5. CASE FindCurrent
  BY <1>1, <1>5, ReconcileKeeps DEF FindCurrent, Commit
<1>6. CASE \E k \in AdjustmentKeys, d \in Deltas : AdjustStock(k, d)
  <2>1. PICK k \in AdjustmentKeys, d \in Deltas : AdjustStock(k, d)
    BY <1>6
  <2>2. d \in Int
    BY StockAssumption
  <2>3. CASE UNCHANGED product
    BY <1>1, <2>3, KeepsAttempts
  <2>4. CASE ~AdjustmentRejected(product, d) /\ Commit(AdjustTx(product, d))
    BY <1>1, <2>2, <2>4, AdjustKeeps DEF Commit
  <2> QED
    BY <2>1, <2>3, <2>4 DEF AdjustStock
<1>7. CASE \E i \in DOMAIN product.attempts, ref \in References :
             ApplyPayment(i, "succeeded", ref)
  BY <1>7, PaymentRemembers DEF ApplyPayment, Commit
<1>8. CASE \E i \in DOMAIN product.attempts : ApplyPayment(i, "failed", NoReference)
  BY <1>8, PaymentRemembers DEF ApplyPayment, Commit
<1> QED
  BY <1>2, <1>3, <1>4, <1>5, <1>6, <1>7, <1>8 DEF Request

LEMMA NextFollows ==
  ASSUME Invariant, Remembers(product), Next
  PROVE  Follows(product, product') /\ Remembers(product')
<1>1. CASE Request
  BY <1>1, RequestFollows
<1>2. CASE WorkerReconcile
  <2>1. Keeps(product, product')
    BY <1>2, WorkerAssumption, ReconcileBoundedKeeps DEF WorkerReconcile, Commit, Invariant
  <2> QED
    BY <2>1, KeepsRemembering DEF Keeps
<1>3. CASE Tick
  <2>1. Keeps(product, product')
    BY <1>3, TickKeeps DEF Invariant, Remembers
  <2> QED
    BY <2>1, KeepsRemembering DEF Keeps
<1> QED
  BY <1>1, <1>2, <1>3 DEF Next

(* The memory of a product is never lost.                                  *)
THEOREM MemoryHolds == Spec => [](Invariant /\ Remembers(product))
<1>1. Init => Remembers(product)
  BY InitGood
<1>2. Invariant /\ Remembers(product) /\ [Next]_vars => Remembers(product')
  BY NextFollows DEF vars
<1>3. Remembers(product)' <=> Remembers(product')
  BY DEF Remembers, AtRest, ReferencesDistinct, Unreferenced, Bought, InState
<1> QED
  BY <1>1, <1>2, <1>3, InvariantHolds, PTL DEF Spec

(* A payment reference buys one attempt of the product, whatever events,   *)
(* retries and transactions mention it: applySucceededPayment's search for *)
(* another owner suffices, since it runs under the product's lock.         *)
THEOREM ReferencesBuyOnce == Spec => []ReferenceBuysOnce
<1>1. Remembers(product) => ReferenceBuysOnce
  BY DEF Remembers, ReferencesDistinct, ReferenceBuysOnce, Bought
<1> QED
  BY <1>1, MemoryHolds, PTL

(* A purchase, a cancellation and an expiry are final: no transaction      *)
(* writes an attempt in a terminal state, and no deadline is left on it.   *)
THEOREM EndsAreFinal == Spec => EndedAttemptsNeverChange
<1>1. Invariant /\ Remembers(product) /\ [Next]_vars =>
        [\A i \in DOMAIN product.attempts :
           State(i) \in Terminal => product'.attempts[i] = product.attempts[i]]_vars
  BY NextFollows DEF Follows, State
<1> QED
  BY <1>1, MemoryHolds, PTL DEF Spec, EndedAttemptsNeverChange

(* A reservation whose deadline has passed can only expire, whichever      *)
(* transaction finds it: each one reconciles before it looks.              *)
THEOREM DeadlinesHold == Spec => DeadlinesAreHard
<1>1. Invariant /\ Remembers(product) /\ [Next]_vars =>
        [\A i \in Due(product) :
           \/ product'.attempts[i] = product.attempts[i]
           \/ product'.attempts[i].state = ExpiredState(product.attempts[i])]_vars
  BY NextFollows DEF Follows
<1> QED
  BY <1>1, MemoryHolds, PTL DEF Spec, DeadlinesAreHard
-----------------------------------------------------------------------------
(***************************************************************************)
(* The stock.                                                              *)
(***************************************************************************)
Sold == InState(product, {"purchased"})

(* Every count below is of a finite set: there are as many adjustments as  *)
(* requests so far.                                                        *)
Ledger == /\ IsFiniteSet(UnitsAdded) /\ IsFiniteSet(UnitsRemoved)
          /\ StockIsConserved

(* The units of one adjustment.                                            *)
LEMMA UnitsOf ==
  ASSUME NEW k, NEW d \in Int
  PROVE  /\ IsFiniteSet({k} \X (1 .. d))
         /\ Cardinality({k} \X (1 .. d)) = IF d > 0 THEN d ELSE 0
<1>1. IsFiniteSet(1 .. d) /\ Cardinality(1 .. d) = IF d > 0 THEN d ELSE 0
  BY FS_Interval
<1>2. IsFiniteSet({k}) /\ Cardinality({k}) = 1
  BY FS_Singleton
<1>3. /\ IsFiniteSet({k} \X (1 .. d))
      /\ Cardinality({k} \X (1 .. d)) = Cardinality({k}) * Cardinality(1 .. d)
  BY <1>1, <1>2, FS_Product
<1> HIDE DEF Cardinality
<1> QED
  BY <1>1, <1>2, <1>3

(* An adjustment that is applied adds its units once, or removes them.     *)
LEMMA AppliedUnits ==
  ASSUME AdjustmentsOK, NEW k \in AdjustmentKeys, NEW d \in Int,
         adjustments[k] = NoAdjustment,
         adjustments' = [adjustments EXCEPT ![k] = [status |-> "applied", delta |-> d]],
         IsFiniteSet(UnitsAdded), IsFiniteSet(UnitsRemoved)
  PROVE  /\ IsFiniteSet(UnitsAdded') /\ IsFiniteSet(UnitsRemoved')
         /\ Cardinality(UnitsAdded') = Cardinality(UnitsAdded) + (IF d > 0 THEN d ELSE 0)
         /\ Cardinality(UnitsRemoved') = Cardinality(UnitsRemoved) + (IF -d > 0 THEN -d ELSE 0)
<1> DEFINE A == {k} \X (1 .. d)
           R == {k} \X (1 .. -d)
<1>1. k \notin Applied /\ Applied' = Applied \cup {k}
  BY DEF AdjustmentsOK, Applied, NoAdjustment
<1>2. /\ adjustments'[k].delta = d
      /\ \A j \in Applied : adjustments'[j].delta = adjustments[j].delta
  BY <1>1 DEF AdjustmentsOK
<1>3. UnitsAdded' = UnitsAdded \cup A /\ UnitsAdded \cap A = {}
  BY <1>1, <1>2 DEF UnitsAdded
<1>4. UnitsRemoved' = UnitsRemoved \cup R /\ UnitsRemoved \cap R = {}
  BY <1>1, <1>2 DEF UnitsRemoved
<1>5. IsFiniteSet(A) /\ Cardinality(A) = IF d > 0 THEN d ELSE 0
  BY UnitsOf
<1>6. -d \in Int
  OBVIOUS
<1>7. IsFiniteSet(R) /\ Cardinality(R) = IF -d > 0 THEN -d ELSE 0
  BY <1>6, UnitsOf
<1> HIDE DEF A, R
<1>8. /\ IsFiniteSet(UnitsAdded \cup A)
      /\ Cardinality(UnitsAdded \cup A) = Cardinality(UnitsAdded) + Cardinality(A)
  BY <1>3, <1>5, FS_Union, DisjointCardinality
<1>9. /\ IsFiniteSet(UnitsRemoved \cup R)
      /\ Cardinality(UnitsRemoved \cup R) = Cardinality(UnitsRemoved) + Cardinality(R)
  BY <1>4, <1>7, FS_Union, DisjointCardinality
<1> QED
  BY <1>3, <1>4, <1>5, <1>7, <1>8, <1>9

(* Whatever writes neither the stock nor a purchase leaves the ledger.     *)
LEMMA LedgerStays ==
  ASSUME Ledger, product'.stock = product.stock, Bought(product') = Bought(product),
         UNCHANGED <<UnitsAdded, UnitsRemoved>>
  PROVE  Ledger'
BY DEF Ledger, StockIsConserved, Bought, InState

LEMMA AdjustmentsStay ==
  UNCHANGED adjustments => UNCHANGED <<UnitsAdded, UnitsRemoved>>
BY DEF UnitsAdded, UnitsRemoved, Applied

LEMMA RequestKeepsLedger ==
  ASSUME Invariant, Remembers(product), Ledger, Request
  PROVE  Ledger'
<1> USE DEF Invariant
<1>1. ASSUME Keeps(product, product'), product'.stock = product.stock, UNCHANGED adjustments
      PROVE  Ledger'
  BY <1>1, KeepsWhatWasBought, LedgerStays, AdjustmentsStay
<1>2. CASE \E u \in Users, k \in Keys : Join(u, k)
  BY <1>1, <1>2, JoinKeeps, JoinKeepsStock DEF Join, Commit
<1>3. CASE \E i \in DOMAIN product.attempts, u \in Users : StartCheckout(i, u)
  BY <1>1, <1>3, StartCheckoutKeeps, StartCheckoutKeepsStock DEF StartCheckout, Commit
<1>4. CASE \E u \in Users : Cancel(u)
  BY <1>1, <1>4, CancelKeeps, CancelKeepsStock DEF Cancel, Commit
<1>5. CASE FindCurrent
  BY <1>1, <1>5, ReconcileKeeps, FullReconcileKeepsNames DEF FindCurrent, Commit
<1>6. CASE \E k \in AdjustmentKeys, d \in Deltas : AdjustStock(k, d)
  <2>1. PICK k \in AdjustmentKeys, d \in Deltas : AdjustStock(k, d)
    BY <1>6
  <2>2. d \in Int /\ adjustments[k] = NoAdjustment
    BY <2>1, StockAssumption DEF AdjustStock
  <2>3. CASE /\ adjustments' = [adjustments EXCEPT ![k] = [status |-> "rejected", delta |-> d]]
             /\ UNCHANGED product
    <3>1. Applied' = Applied /\ \A j \in Applied : adjustments'[j] = adjustments[j]
      BY <2>2, <2>3 DEF Applied, AdjustmentsOK, NoAdjustment
    <3>2. UNCHANGED <<UnitsAdded, UnitsRemoved>>
      BY <3>1 DEF UnitsAdded, UnitsRemoved
    <3> QED
      BY <2>3, <3>2, LedgerStays
  <2>4. CASE /\ ~AdjustmentRejected(product, d)
             /\ adjustments' = [adjustments EXCEPT ![k] = [status |-> "applied", delta |-> d]]
             /\ Commit(AdjustTx(product, d))
    <3>1. product'.stock = product.stock + d /\ Bought(product') = Bought(product)
      BY <2>2, <2>4, AdjustKeeps, AdjustWritesStock, KeepsWhatWasBought DEF Commit
    <3>2. /\ IsFiniteSet(UnitsAdded') /\ IsFiniteSet(UnitsRemoved')
          /\ Cardinality(UnitsAdded') = Cardinality(UnitsAdded) + (IF d > 0 THEN d ELSE 0)
          /\ Cardinality(UnitsRemoved')
               = Cardinality(UnitsRemoved) + (IF -d > 0 THEN -d ELSE 0)
      BY <2>2, <2>4, AppliedUnits DEF Ledger
    <3>3. product.stock \in Nat /\ Cardinality(Sold) \in Nat
      BY Fields, AttemptSets DEF Good, Sold, InState
    <3>4. Cardinality(UnitsAdded) \in Nat /\ Cardinality(UnitsRemoved) \in Nat
      BY FS_CardinalityType DEF Ledger
    <3>5. Sold' = Sold
      BY <3>1 DEF Sold, Bought, InState
    <3>6. /\ InitialStock \in Int
          /\ product.stock + Cardinality(Sold) + Cardinality(UnitsRemoved)
               = InitialStock + Cardinality(UnitsAdded)
      BY StockAssumption, BoundAssumption DEF Ledger, StockIsConserved, Sold
    <3>7. product'.stock + Cardinality(Sold') + Cardinality(UnitsRemoved')
            = InitialStock + Cardinality(UnitsAdded')
      BY <2>2, <3>1, <3>2, <3>3, <3>4, <3>5, <3>6
    <3> QED
      BY <3>2, <3>7 DEF Ledger, StockIsConserved, Sold
  <2> QED
    BY <2>1, <2>3, <2>4 DEF AdjustStock
<1>7. ASSUME NEW i \in DOMAIN product.attempts, NEW outcome \in {"succeeded", "failed"}, NEW ref,
             outcome = "succeeded" => ref \in References, ApplyPayment(i, outcome, ref)
      PROVE  Ledger'
  <2>1. product' = PaymentTx(product, i, outcome, ref, {}) /\ UNCHANGED adjustments
    BY <1>7 DEF ApplyPayment, Commit
  <2>2. \/ /\ product'.stock = product.stock - 1
           /\ i \notin Bought(product) /\ Bought(product') = Bought(product) \cup {i}
        \/ product'.stock = product.stock /\ Bought(product') = Bought(product)
    BY <1>7, <2>1, PaymentWritesStock
  <2>3. CASE product'.stock = product.stock /\ Bought(product') = Bought(product)
    BY <2>1, <2>3, LedgerStays, AdjustmentsStay
  <2>4. CASE /\ product'.stock = product.stock - 1
             /\ i \notin Bought(product) /\ Bought(product') = Bought(product) \cup {i}
    <3>1. Sold = Bought(product) /\ Sold' = Bought(product')
      BY DEF Sold, Bought, InState
    <3>2. IsFiniteSet(Sold) /\ Cardinality(Sold) \in Nat
      BY AttemptSets DEF Good, Sold, InState
    <3>3. Cardinality(Sold') = Cardinality(Sold) + 1
      BY <2>4, <3>1, <3>2, FS_AddElement
    <3>4. product.stock \in Nat /\ Cardinality(UnitsRemoved) \in Nat
      BY Fields, FS_CardinalityType DEF Good, Ledger
    <3>5. UNCHANGED <<UnitsAdded, UnitsRemoved>>
      BY <2>1, AdjustmentsStay
    <3>6. product'.stock + Cardinality(Sold') + Cardinality(UnitsRemoved)
            = product.stock + Cardinality(Sold) + Cardinality(UnitsRemoved)
      BY <2>4, <3>2, <3>3, <3>4
    <3> QED
      BY <3>5, <3>6 DEF Ledger, StockIsConserved, Sold
  <2> QED
    BY <2>2, <2>3, <2>4
<1> QED
  BY <1>2, <1>3, <1>4, <1>5, <1>6, <1>7 DEF Request

(* Nothing is sold twice or lost, however often a payment, an adjustment   *)
(* or their retries arrive: the units in stock and those sold are the      *)
(* units there ever were.                                                  *)
THEOREM StockConserved == Spec => []StockIsConserved
<1>1. Init => Ledger
  <2> SUFFICES ASSUME Init PROVE Ledger
    OBVIOUS
  <2>1. UnitsAdded = {} /\ UnitsRemoved = {}
    BY DEF Init, UnitsAdded, UnitsRemoved, Applied, NoAdjustment
  <2>2. product.stock = InitialStock /\ InState(product, {"purchased"}) = {}
    BY DEF Init, InState
  <2>3. InitialStock \in Int
    BY StockAssumption, BoundAssumption
  <2> QED
    BY <2>1, <2>2, <2>3, FS_EmptySet DEF Ledger, StockIsConserved
<1>2. Invariant /\ Remembers(product) /\ Ledger /\ [Next]_vars => Ledger'
  <2> SUFFICES ASSUME Invariant, Remembers(product), Ledger, [Next]_vars PROVE Ledger'
    OBVIOUS
  <2>1. CASE Request
    BY <2>1, RequestKeepsLedger
  <2>2. CASE WorkerReconcile
    <3>1. Keeps(product, product') /\ product'.stock = product.stock
      BY <2>2, WorkerAssumption, ReconcileBoundedKeeps, ReconciledFields
      DEF WorkerReconcile, Commit, Invariant, Good
    <3> QED
      BY <2>2, <3>1, KeepsWhatWasBought, LedgerStays, AdjustmentsStay DEF WorkerReconcile
  <2>3. CASE Tick
    <3>1. Keeps(product, product') /\ product'.stock = product.stock
      BY <2>3, TickKeeps DEF Tick, Invariant, Remembers, Good, WellFormed
    <3> QED
      BY <2>3, <3>1, KeepsWhatWasBought, LedgerStays, AdjustmentsStay DEF Tick
  <2>4. CASE UNCHANGED vars
    BY <2>4, LedgerStays, AdjustmentsStay DEF vars, Bought, InState
  <2> QED
    BY <2>1, <2>2, <2>3, <2>4 DEF Next
<1>3. Ledger => StockIsConserved
  BY DEF Ledger
<1> QED
  BY <1>1, <1>2, <1>3, MemoryHolds, PTL DEF Spec
=============================================================================
