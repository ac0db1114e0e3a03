---------------------------- MODULE ProductQueue ----------------------------
(***************************************************************************)
(* One product's reservation queue over time: users, the payment provider, *)
(* the seller and the background worker run transactions against it while  *)
(* the database clock runs.                                                *)
(*                                                                         *)
(* The product row's lock makes each transaction one step.  What is left   *)
(* to interleave is the order of the transactions, and where the deadlines *)
(* fall between them.  A process that crashes inside a transaction rolls   *)
(* back, which is a step that changes nothing.                             *)
(***************************************************************************)
EXTENDS QueueTransaction

CONSTANTS AdjustmentKeys,   \* idempotency keys of stock adjustments
          Deltas,           \* stock deltas the seller asks for
          InitialStock,     \* allocatable_stock of the new product
          Percents,         \* waiting-buffer percentages in force at a join
          BatchLimit        \* transition limit of one worker transaction

ASSUME StockAssumption == /\ Deltas \subseteq Int \ {0}
                          /\ InitialStock \in 0 .. MaxStock
ASSUME WorkerAssumption == /\ BatchLimit \in Nat \ {0}
                           /\ Percents \subseteq Nat

VARIABLES product,      \* the products row, its queue_attempts and outbox rows
          adjustments   \* inventory_adjustments, by idempotency key

vars == <<product, adjustments>>

NoAdjustment == [status |-> "none", delta |-> 0]

Adjustment == {NoAdjustment} \cup [status : {"applied", "rejected"}, delta : Deltas]

Init ==
  /\ \E enabled \in BOOLEAN :
       product = [stock |-> InitialStock, reserved |-> 0, next |-> 1,
                  enabled |-> enabled, attempts |-> << >>, outbox |-> {},
                  failed |-> FALSE]
  /\ adjustments = [k \in AdjustmentKeys |-> NoAdjustment]

(* withLockedProduct: commit, unless the operation returned an error.      *)
Commit(t) == /\ ~t.failed
             /\ product' = t

Join(u, k) ==
  /\ \E percent \in Percents : Commit(JoinTx(product, u, k, percent))
  /\ UNCHANGED adjustments

StartCheckout(i, u) ==
  /\ Commit(StartCheckoutTx(product, i, u))
  /\ UNCHANGED adjustments

Cancel(u) ==
  /\ Commit(CancelTx(product, u))
  /\ UNCHANGED adjustments

(* FindCurrent and FindActiveByUser: a read that reconciles first.         *)
FindCurrent ==
  /\ Commit(Reconcile(product))
  /\ UNCHANGED adjustments

(* A new key is decided once; a repeated key, with the same payload or     *)
(* another, is answered from the stored row.                               *)
AdjustStock(k, delta) ==
  /\ adjustments[k] = NoAdjustment
  /\ \/ /\ AdjustmentRejected(product, delta)
        /\ adjustments' = [adjustments EXCEPT ![k] = [status |-> "rejected", delta |-> delta]]
        /\ UNCHANGED product
     \/ /\ ~AdjustmentRejected(product, delta)
        /\ adjustments' = [adjustments EXCEPT ![k] = [status |-> "applied", delta |-> delta]]
        /\ Commit(AdjustTx(product, delta))

(* A payment event for an attempt, at any time and any number of times.    *)
ApplyPayment(i, outcome, ref) ==
  /\ Commit(PaymentTx(product, i, outcome, ref, {}))
  /\ UNCHANGED adjustments

(* ReconcileNextProduct, when it selects this product.                     *)
WorkerReconcile ==
  /\ HasReconciliationWork(product)
  /\ Commit(ReconcileBounded(product, BatchLimit))
  /\ UNCHANGED adjustments

(* clock_timestamp(): every pending deadline comes one tick nearer.        *)
Elapsed(a) == [a EXCEPT !.left = IF a.left > 0 THEN a.left - 1 ELSE 0]

Tick ==
  /\ Holders(product) # Due(product)
  /\ product' = [product EXCEPT !.attempts =
       [i \in DOMAIN product.attempts |-> Elapsed(product.attempts[i])]]
  /\ UNCHANGED adjustments

Request ==
  \/ \E u \in Users, k \in Keys : Join(u, k)
  \/ \E i \in DOMAIN product.attempts, u \in Users : StartCheckout(i, u)
  \/ \E u \in Users : Cancel(u)
  \/ FindCurrent
  \/ \E k \in AdjustmentKeys, d \in Deltas : AdjustStock(k, d)
  \/ \E i \in DOMAIN product.attempts, ref \in References :
       ApplyPayment(i, "succeeded", ref)
  \/ \E i \in DOMAIN product.attempts : ApplyPayment(i, "failed", NoReference)

Next == Request \/ WorkerReconcile \/ Tick

Spec == Init /\ [][Next]_vars

(* The clock runs, and the worker returns to a product that has work.      *)
FairSpec == Spec /\ WF_vars(Tick) /\ WF_vars(WorkerReconcile)

-----------------------------------------------------------------------------
(***************************************************************************)
(* Invariants.                                                             *)
(***************************************************************************)
State(i) == product.attempts[i].state

(* The committed product is well formed: attempts are numbered without a   *)
(* gap from 1 and no transaction commits after an internal error.          *)
TypeOK ==
  /\ product \in [stock : 0 .. MaxStock, reserved : 0 .. MaxStock,
                  next : 1 .. MaxSequence, enabled : BOOLEAN,
                  attempts : [1 .. (product.next - 1) -> Attempt],
                  outbox : SUBSET (1 .. (product.next - 1)), failed : {FALSE}]
  /\ adjustments \in [AdjustmentKeys -> Adjustment]

(* The stored reservation counter equals the number of invited and         *)
(* checkout attempts and never exceeds the stock, whatever mix of joins,   *)
(* expiries, cancellations, purchases and stock changes ran: the check     *)
(* that would raise ErrReservedInvariant in reconcileLockedProductBounded  *)
(* never fires.                                                            *)
ReservedMatchesHolders == Consistent(product)

(* First come, first served: nobody behind a waiting attempt has been      *)
(* given a reservation, been sold out or bought; they wait too, or left    *)
(* by cancelling.  createAttempt must not hand a checkout to a newcomer    *)
(* while promoteWaitingAttempt still owes one to somebody else.            *)
FirstComeFirstServed ==
  \A i, j \in DOMAIN product.attempts :
    i < j /\ State(i) = "waiting" => State(j) \in {"waiting", "cancelled"}

(* A user's active attempt is the last one the user made, so there is at   *)
(* most one, and Cancel, which looks at latestAttemptForUser only, always  *)
(* reaches it.                                                             *)
ActiveAttemptIsLatest ==
  \A i, j \in DOMAIN product.attempts :
    /\ i < j
    /\ product.attempts[i].user = product.attempts[j].user
    => State(i) \notin Active

(* An idempotency key names one attempt of its user, for ever: findReplay  *)
(* has one answer.                                                         *)
JoinKeyNamesOneAttempt ==
  \A i, j \in DOMAIN product.attempts :
    /\ product.attempts[i].user = product.attempts[j].user
    /\ product.attempts[i].key = product.attempts[j].key
    => i = j

(* Everyone who is invited out of the line has an invitation to be         *)
(* notified of, and nobody who is still in it has one.                     *)
InvitationsAreAnnounced ==
  \A i \in DOMAIN product.attempts :
    /\ State(i) = "invited" => i \in product.outbox
    /\ State(i) \in {"waiting", "sold_out"} => i \notin product.outbox

(* The units that applied adjustments added or removed, one by one.        *)
Applied == {k \in AdjustmentKeys : adjustments[k].status = "applied"}
UnitsAdded == UNION {{k} \X (1 .. adjustments[k].delta) : k \in Applied}
UnitsRemoved == UNION {{k} \X (1 .. -adjustments[k].delta) : k \in Applied}

(* Nothing is sold twice or lost: the stock and what was sold account for  *)
(* the initial stock and the applied adjustments, each counted once.       *)
(* applySucceededPayment takes one unit for a purchase, and AdjustStock    *)
(* moves the stock once for a key, however often it is repeated.           *)
StockIsConserved ==
  product.stock + Cardinality(InState(product, {"purchased"})) + Cardinality(UnitsRemoved)
    = InitialStock + Cardinality(UnitsAdded)

(* A payment reference buys one attempt.                                   *)
ReferenceBuysOnce ==
  \A i, j \in InState(product, {"purchased"}) :
    product.attempts[i].ref = product.attempts[j].ref => i = j

-----------------------------------------------------------------------------
(***************************************************************************)
(* What a step may never do.                                               *)
(***************************************************************************)
(* A request that writes to the product leaves it settled: no reservation  *)
(* past its deadline, nobody waiting for stock that is free, nobody        *)
(* waiting for stock that is gone.  The limit requests reconcile with is   *)
(* large enough, and no later write of the request frees or exhausts stock *)
(* without a second reconciliation.                                        *)
RequestsLeaveNoWork ==
  [][Request /\ product' # product => ~HasReconciliationWork(product')]_vars

(* A purchase, a cancellation, an expiry is final.                         *)
EndedAttemptsNeverChange ==
  [][\A i \in DOMAIN product.attempts :
       State(i) \in Terminal =>
         product'.attempts[i] = product.attempts[i]]_vars

(* A reservation whose deadline has passed can only expire: no late start  *)
(* of a checkout, no late payment and no late cancellation uses it, even   *)
(* if the worker has not come round.                                       *)
DeadlinesAreHard ==
  [][\A i \in Due(product) :
       \/ product'.attempts[i] = product.attempts[i]
       \/ product'.attempts[i].state = ExpiredState(product.attempts[i])]_vars

-----------------------------------------------------------------------------
(***************************************************************************)
(* Liveness.                                                               *)
(***************************************************************************)
(* Nobody waits for ever: the deadlines of those in front run out, the     *)
(* worker notices, and the line moves or is sold out.                      *)
NobodyWaitsForever ==
  \A i \in 1 .. (MaxSequence - 1) :
    (i \in Waiting(product)) ~> (i \notin Waiting(product))

(* No reservation is held for ever by a user who went away.                *)
ReservationsEnd ==
  \A i \in 1 .. (MaxSequence - 1) :
    (i \in Holders(product)) ~> (i \notin Holders(product))
=============================================================================
