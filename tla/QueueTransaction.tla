-------------------------- MODULE QueueTransaction --------------------------
(***************************************************************************)
(* What one database transaction does to one product and its queue.        *)
(*                                                                         *)
(* Every operation of QueueAttemptRepository takes the product row FOR     *)
(* UPDATE, reads the clock, reads the attempts, and runs to its commit or  *)
(* rollback without another transaction touching the product.  It is       *)
(* therefore an operator from the product before to the product after.     *)
(* The operators have no variables: ProductQueue runs them on one product, *)
(* modules about several products run them on each.                        *)
(*                                                                         *)
(* A product is a record:                                                  *)
(*   stock      allocatable_stock                                          *)
(*   reserved   the stored reservation counter                             *)
(*   next       next_queue_sequence                                        *)
(*   enabled    queue_enabled                                              *)
(*   attempts   a function from queue_sequence to attempts                 *)
(*   outbox     sequences of the attempts with a queue.invited outbox row  *)
(*   failed     the transaction met an internal error and must roll back   *)
(* An attempt's "left" is the time to the deadline of the state it is in:  *)
(* now.Before(deadline) is left > 0.  It is 0 when no deadline applies.    *)
(***************************************************************************)
EXTENDS Integers, FiniteSets

CONSTANTS Users,          \* external user ids
          Keys,           \* idempotency keys of join requests
          References,     \* payment references, of one provider
          NoReference,    \* accepted_payment_reference IS NULL
          InvitationTTL,  \* invitationTTL, in clock ticks
          CheckoutTTL,    \* checkoutTTL, in clock ticks
          MaxStock,       \* stands for math.MaxInt32 in AdjustStock
          MaxSequence     \* stands for math.MaxInt64 in NextQueueSequence

ASSUME TTLAssumption == /\ InvitationTTL \in Nat \ {0}
                        /\ CheckoutTTL \in Nat \ {0}
ASSUME BoundAssumption == /\ MaxStock \in Nat
                          /\ MaxSequence \in Nat \ {0}
ASSUME ReferenceAssumption == NoReference \notin References

Reserving == {"invited", "checkout"}
Active == {"waiting"} \cup Reserving
Terminal == {"purchased", "invite_expired", "checkout_expired",
             "payment_failed", "cancelled", "sold_out"}

Attempt == [user : Users, key : Keys, state : Active \cup Terminal,
            left : Nat, ref : References \cup {NoReference}]

(***************************************************************************)
(* Reading a locked product.                                               *)
(***************************************************************************)
InState(t, S) == {i \in DOMAIN t.attempts : t.attempts[i].state \in S}
Holders(t) == InState(t, Reserving)
Waiting(t) == InState(t, {"waiting"})
Due(t) == {i \in Holders(t) : t.attempts[i].left = 0}
OfUser(t, u) == {i \in DOMAIN t.attempts : t.attempts[i].user = u}
MutWaitingIsNotActive(t, u) == InState(t, Reserving) \cap OfUser(t, u)
ActiveOf(t, u) == InState(t, Active) \cap OfUser(t, u)

(* The first n members of S in queue order: a loop over the attempts that  *)
(* stops when its budget is spent.                                         *)
FirstN(S, n) == {i \in S : Cardinality({j \in S : j < i}) < n}

Smaller(a, b) == IF a < b THEN a ELSE b

(* The check at the head of every reconciliation: ErrReservedInvariant.    *)
Consistent(t) == /\ t.reserved = Cardinality(Holders(t))
                 /\ t.reserved \in 0 .. t.stock

MutIgnoresFreeStock(t) == Due(t) # {} \/ (Waiting(t) # {} /\ t.stock = 0)
HasReconciliationWork(t) ==
  \/ Due(t) # {}
  \/ Waiting(t) # {} /\ (t.stock = 0 \/ t.stock - t.reserved > 0)

(***************************************************************************)
(* Writing one attempt.                                                    *)
(***************************************************************************)
Moved(a, state, left) == [a EXCEPT !.state = state, !.left = left]

ExpiredState(a) ==
  IF a.state = "invited" THEN "invite_expired" ELSE "checkout_expired"

(***************************************************************************)
(* Reconciliation: release the reservations whose deadline has passed,     *)
(* then sell the line out or invite from its head, at most limit           *)
(* transitions in all.                                                     *)
(***************************************************************************)
ToExpire(t, limit) == FirstN(Due(t), limit)

Budget(t, limit) == limit - Cardinality(ToExpire(t, limit))
StillHeld(t, limit) == t.reserved - Cardinality(ToExpire(t, limit))

ToSellOut(t, limit) ==
  IF t.stock = 0 THEN FirstN(Waiting(t), Budget(t, limit)) ELSE {}

ToInvite(t, limit) ==
  IF t.stock = 0 THEN {}
  ELSE FirstN(Waiting(t),
              Smaller(Budget(t, limit), t.stock - StillHeld(t, limit)))

(* Inviting an attempt and recording its notification are one write.       *)
MutAnnouncesOne(t, invited) == t.outbox \cup FirstN(invited, 1)
Announced(t, invited) == t.outbox \cup invited

ReconcileBounded(t, limit) ==
  LET expired == ToExpire(t, limit)
      soldOut == ToSellOut(t, limit)
      invited == ToInvite(t, limit)
  IN  [t EXCEPT
        !.failed = @ \/ ~Consistent(t),
        !.reserved = StillHeld(t, limit) + Cardinality(invited),
        !.outbox = Announced(t, invited),
        !.attempts = [i \in DOMAIN t.attempts |->
          CASE i \in expired ->
                 Moved(t.attempts[i], ExpiredState(t.attempts[i]), 0)
            [] i \in soldOut -> Moved(t.attempts[i], "sold_out", 0)
            [] i \in invited -> Moved(t.attempts[i], "invited", InvitationTTL)
            [] OTHER -> t.attempts[i]]]

(* Requests reconcile with a limit taken from the number of rows they      *)
(* loaded: the active attempts and at most two more, which never move.     *)
Reconcile(t) == ReconcileBounded(t, 2 * Cardinality(InState(t, Active)) + 1)

(***************************************************************************)
(* Join.                                                                   *)
(***************************************************************************)
MutReplaysActiveOnly(t, u, k) == \E i \in ActiveOf(t, u) : t.attempts[i].key = k
Replayed(t, u, k) == \E i \in OfUser(t, u) : t.attempts[i].key = k

Effective(t, i) == \/ t.attempts[i].state = "waiting"
                   \/ t.attempts[i].state \in Reserving /\ t.attempts[i].left > 0

WaitingCapacity(stock, percent) == (stock * percent + 99) \div 100

(* Extend the queue by one attempt, which reserves iff it enters checkout. *)
MutReusesSequence(t, u, k, state, left) ==
  [t EXCEPT
    !.reserved = IF state = "checkout" THEN @ + 1 ELSE @,
    !.attempts = [i \in DOMAIN @ \cup {t.next} |->
      IF i = t.next THEN [user |-> u, key |-> k, state |-> state,
                          left |-> left, ref |-> NoReference]
      ELSE @[i]]]
Appended(t, u, k, state, left) ==
  [t EXCEPT
    !.next = @ + 1,
    !.reserved = IF state = "checkout" THEN @ + 1 ELSE @,
    !.attempts = [i \in DOMAIN @ \cup {t.next} |->
      IF i = t.next THEN [user |-> u, key |-> k, state |-> state,
                          left |-> left, ref |-> NoReference]
      ELSE @[i]]]

CreateAttempt(t, u, k, percent) ==
  CASE t.next = MaxSequence -> [t EXCEPT !.failed = TRUE]
    [] t.next # MaxSequence /\ t.reserved < t.stock ->
         Appended(t, u, k, "checkout", CheckoutTTL)
    [] t.next # MaxSequence /\ t.reserved >= t.stock ->
         IF Cardinality(Waiting(t)) < WaitingCapacity(t.stock, percent)
         THEN Appended(t, u, k, "waiting", 0)
         ELSE t                                        \* ErrQueueFull

(* A user whose attempt is past its deadline is reconciled before being    *)
(* taken for a newcomer.                                                   *)
Refreshed(t, u) == IF ActiveOf(t, u) = {} THEN t ELSE Reconcile(t)

MutAdmitsUnreconciled(t, u, k, percent) ==
  IF ActiveOf(t, u) # {} \/ ~t.enabled \/ t.stock = 0 THEN t
  ELSE CreateAttempt(t, u, k, percent)
AdmitTx(t, u, k, percent) ==
  IF ActiveOf(t, u) # {} \/ ~t.enabled THEN t
  ELSE LET r == Reconcile(t)
       IN  IF r.stock = 0 THEN r ELSE CreateAttempt(r, u, k, percent)

JoinTx(t, u, k, percent) ==
  IF Replayed(t, u, k) \/ \E i \in ActiveOf(t, u) : Effective(t, i)
  THEN t
  ELSE AdmitTx(Refreshed(t, u), u, k, percent)

(***************************************************************************)
(* StartCheckout.                                                          *)
(***************************************************************************)
MutReservesAgain(t, i, u) ==
  LET r == Reconcile(t)
  IN  IF r.attempts[i].user = u /\ r.attempts[i].state = "invited"
      THEN [r EXCEPT !.attempts[i] = Moved(@, "checkout", CheckoutTTL),
                     !.reserved = @ + 1]
      ELSE r
MutRestartsDeadline(t, i, u) ==
  LET r == Reconcile(t)
  IN  IF r.attempts[i].user = u /\ r.attempts[i].state \in Reserving
      THEN [r EXCEPT !.attempts[i] = Moved(@, "checkout", CheckoutTTL)]
      ELSE r
StartCheckoutTx(t, i, u) ==
  LET r == Reconcile(t)
  IN  IF r.attempts[i].user = u /\ r.attempts[i].state = "invited"
      THEN [r EXCEPT !.attempts[i] = Moved(@, "checkout", CheckoutTTL)]
      ELSE r

(***************************************************************************)
(* Cancel, of the user's latest attempt.                                   *)
(***************************************************************************)
Latest(t, u) == {i \in OfUser(t, u) : \A j \in OfUser(t, u) : j <= i}

(* End an attempt; a reservation it held is given back.                    *)
Released(t, i, state) ==
  LET holds == i \in Holders(t)
  IN  [t EXCEPT !.attempts[i] = Moved(@, state, 0),
                !.reserved = IF holds THEN @ - 1 ELSE @,
                !.failed = @ \/ (holds /\ t.reserved <= 0)]

MutCancelsEnded(t, u) == Latest(t, u) \ InState(t, {"purchased"})
Cancellable(t, u) == Latest(t, u) \cap InState(t, Active)
ToCancel(t, u) == CHOOSE i \in Cancellable(t, u) : TRUE

MutCancelStrandsStock(t, u) ==
  LET r == Reconcile(t)
  IN  IF Cancellable(r, u) = {} THEN r
      ELSE Released(r, ToCancel(r, u), "cancelled")
CancelTx(t, u) ==
  LET r == Reconcile(t)
  IN  IF Cancellable(r, u) = {} THEN r
      ELSE Reconcile(Released(r, ToCancel(r, u), "cancelled"))

(***************************************************************************)
(* AdjustStock.  The reservations are those stored, due ones included.     *)
(***************************************************************************)
AdjustmentRejected(t, delta) == \/ t.stock + delta < 0
                                \/ t.stock + delta > MaxStock
                                \/ t.stock + delta < t.reserved

AdjustTx(t, delta) == Reconcile([t EXCEPT !.stock = @ + delta])

(***************************************************************************)
(* Payments.  A succeeded payment buys only from checkout, and only when   *)
(* no other attempt owns its reference; taken holds the references owned   *)
(* by attempts of other products.                                          *)
(***************************************************************************)
OwnedReferences(t) == {t.attempts[i].ref : i \in InState(t, {"purchased"})}

ReferenceFree(t, ref, taken) == ref \notin taken \cup OwnedReferences(t)

PaymentCode(t, i, outcome, ref, taken) ==
  LET state == t.attempts[i].state
  IN  IF outcome = "succeeded"
      THEN CASE state = "purchased" /\ t.attempts[i].ref = ref -> "already_accepted"
             [] state = "checkout" /\ ReferenceFree(t, ref, taken) -> "accepted"
             [] OTHER -> "compensation_required"
      ELSE CASE state = "checkout" -> "accepted"
             [] state = "purchased" -> "ignored_purchase_final"
             [] state \in {"waiting", "invited"} -> "invalid_transition"
             [] OTHER -> "ignored_terminal"

MutSellsForFree(t, i, ref) ==
  [t EXCEPT !.attempts[i] = [Moved(@, "purchased", 0) EXCEPT !.ref = ref],
            !.reserved = @ - 1,
            !.failed = @ \/ t.stock <= 0 \/ t.reserved <= 0]
Purchased(t, i, ref) ==
  [t EXCEPT !.attempts[i] = [Moved(@, "purchased", 0) EXCEPT !.ref = ref],
            !.stock = @ - 1,
            !.reserved = @ - 1,
            !.failed = @ \/ t.stock <= 0 \/ t.reserved <= 0]

MutPaysBeforeExpiring(t, i, outcome, ref, taken) ==
  IF PaymentCode(t, i, outcome, ref, taken) # "accepted" THEN Reconcile(t)
  ELSE IF outcome = "succeeded" THEN Reconcile(Purchased(t, i, ref))
  ELSE Reconcile(Released(t, i, "payment_failed"))
PaymentTx(t, i, outcome, ref, taken) ==
  LET r == Reconcile(t)
  IN  IF PaymentCode(r, i, outcome, ref, taken) # "accepted" THEN r
      ELSE IF outcome = "succeeded" THEN Reconcile(Purchased(r, i, ref))
      ELSE Reconcile(Released(r, i, "payment_failed"))
=============================================================================
