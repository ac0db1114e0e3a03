---------------------------- MODULE PaymentInbox ----------------------------
(***************************************************************************)
(* The payment inbox: a provider reports what became of a payment, as      *)
(* often as it likes, to any of the server's handlers, and each event is   *)
(* to take effect once.                                                    *)
(*                                                                         *)
(* A handler runs ProcessPayment in up to three transactions: it claims    *)
(* the event's row for the length of a lease, applies the event to the     *)
(* product and stores the answer, and, if that failed, schedules a retry.  *)
(* Between them other handlers run, leases run out, and the handler may    *)
(* crash or be told of a failure although its transaction committed.       *)
(***************************************************************************)
EXTENDS QueueTransaction

CONSTANTS Products,        \* product ids
          Events,          \* event ids, of one provider
          Commands,        \* what the provider reports, see Command
          Handlers,        \* concurrent requests, in one process or several
          NoHandler,       \* claim_token IS NULL
          LeaseTTL,        \* paymentClaimLease, in clock ticks
          RetryBackoff,    \* paymentRetryBackoff, in clock ticks
          InitialStock,    \* allocatable_stock of each product
          Percent,         \* the waiting-buffer percentage
          BatchLimit       \* transition limit of one worker transaction

(* A PaymentCommand.  An attempt is named by its product and sequence; one *)
(* that was never created stands for an id that does not exist.            *)
Command == [product : Products, attempt : Nat,
            outcome : {"succeeded", "failed"}, ref : References \cup {NoReference}]

ASSUME CommandAssumption ==
  /\ Commands \subseteq Command
  /\ \A c \in Commands : c.outcome = "failed" <=> c.ref = NoReference
ASSUME HandlerAssumption == NoHandler \notin Handlers
ASSUME TimingAssumption == /\ LeaseTTL \in Nat \ {0}
                           /\ RetryBackoff \in Nat \ {0}
ASSUME QueueAssumption == /\ InitialStock \in 0 .. MaxStock
                          /\ Percent \in Nat
                          /\ BatchLimit \in Nat \ {0}

VARIABLES products,       \* products and their attempts
          inbox,          \* payment_inbox, by event id
          compensations,  \* events with a payment.compensation_required row
          handlers        \* where each handler is in ProcessPayment

vars == <<products, inbox, compensations, handlers>>

NoRow == [status |-> "none"]
Idle == [step |-> "idle"]

Init ==
  /\ products = [p \in Products |->
       [stock |-> InitialStock, reserved |-> 0, next |-> 1, enabled |-> TRUE,
        attempts |-> << >>, outbox |-> {}, failed |-> FALSE]]
  /\ inbox = [e \in Events |-> NoRow]
  /\ compensations = {}
  /\ handlers = [h \in Handlers |-> Idle]

Concluded == {"completed", "rejected"}
Known(c) == c.attempt \in DOMAIN products[c.product].attempts

-----------------------------------------------------------------------------
(***************************************************************************)
(* ClaimPayment.  A delivery that conflicts with the recorded command,     *)
(* repeats a concluded one, or comes during a lease or a backoff is        *)
(* answered from the row and writes nothing.                               *)
(***************************************************************************)
MutOnlyRetries(row, c) == /\ row.status = "retry"
                          /\ row.command = c
                          /\ row.left = 0
Reclaimable(row, c) == /\ row.status \in {"processing", "retry"}
                       /\ row.command = c
                       /\ row.left = 0

Deliver(h, e, c) ==
  /\ handlers[h] = Idle
  /\ inbox[e] = NoRow \/ Reclaimable(inbox[e], c)
  /\ inbox' = [inbox EXCEPT ![e] =
       [status |-> "processing", command |-> c, token |-> h,
        left |-> LeaseTTL, code |-> "none"]]
  /\ handlers' = [handlers EXCEPT ![h] = [step |-> "claimed", event |-> e]]
  /\ UNCHANGED <<products, compensations>>

(***************************************************************************)
(* lockAndValidatePaymentClaim.  A token is drawn for each claim and a     *)
(* handler has one claim at a time, so the handler stands for its token.   *)
(* The lease itself is not looked at: until another handler takes the row, *)
(* a late handler may still conclude it.                                   *)
(***************************************************************************)
MutTrustsItsClaim(h) == handlers[h].step # "idle"
ClaimHolds(h) == /\ handlers[h].step # "idle"
                 /\ inbox[handlers[h].event].status = "processing"
                 /\ inbox[handlers[h].event].token = h

EventOf(h) == handlers[h].event
CommandOf(h) == inbox[EventOf(h)].command

(* References that buy an attempt of another product.                      *)
MutEachProductAlone(p) == {}
TakenElsewhere(p) == UNION {OwnedReferences(products[q]) : q \in Products \ {p}}

(* completeWithCompensation and completePayment, in the same transaction   *)
(* as the product's change.                                                *)
MutForgetsCompensation(e, code) == {}
Compensation(e, code) == IF code = "compensation_required" THEN {e} ELSE {}

Conclude(e, code) ==
  /\ inbox' = [inbox EXCEPT
       ![e].status = IF code \in {"attempt_not_found", "invalid_transition"}
                     THEN "rejected" ELSE "completed",
       ![e].code = code, ![e].left = 0, ![e].token = NoHandler]
  /\ compensations' = compensations \cup Compensation(e, code)

(* The handler learns that its transaction committed, or is told it failed. *)
Answered(h) ==
  \/ handlers' = [handlers EXCEPT ![h] = Idle]
  \/ handlers' = [handlers EXCEPT ![h].step = "failed"]

(***************************************************************************)
(* ProcessPaymentClaim.                                                    *)
(***************************************************************************)
RejectUnknown(h) ==
  /\ handlers[h].step = "claimed" /\ ClaimHolds(h) /\ ~Known(CommandOf(h))
  /\ Conclude(EventOf(h), "attempt_not_found")
  /\ Answered(h)
  /\ UNCHANGED products

Apply(h) ==
  /\ handlers[h].step = "claimed" /\ ClaimHolds(h) /\ Known(CommandOf(h))
  /\ LET c == CommandOf(h)
         taken == TakenElsewhere(c.product)
         t == products[c.product]
         after == PaymentTx(t, c.attempt, c.outcome, c.ref, taken)
     IN  /\ ~after.failed
         /\ products' = [products EXCEPT ![c.product] = after]
         /\ Conclude(EventOf(h), PaymentCode(Reconcile(t), c.attempt, c.outcome, c.ref, taken))
  /\ Answered(h)

(* The purchase that owns the reference committed after this transaction   *)
(* looked for it: the unique index refuses the update and all is undone.   *)
MeetUniqueIndex(h) ==
  /\ handlers[h].step = "claimed" /\ ClaimHolds(h) /\ Known(CommandOf(h))
  /\ LET c == CommandOf(h)
         r == Reconcile(products[c.product])
     IN  /\ c.outcome = "succeeded"
         /\ PaymentCode(r, c.attempt, c.outcome, c.ref, {}) = "accepted"
         /\ c.ref \in TakenElsewhere(c.product)
  /\ handlers' = [handlers EXCEPT ![h].step = "conflict"]
  /\ UNCHANGED <<products, inbox, compensations>>

(* The second transaction of such a claim compensates, whatever it finds.  *)
MutConflictReleases(h) ==
  /\ handlers[h].step = "conflict" /\ ClaimHolds(h)
  /\ products' = [products EXCEPT ![CommandOf(h).product] =
       Released(Reconcile(@), CommandOf(h).attempt, "payment_failed")]
  /\ Conclude(EventOf(h), "compensation_required")
  /\ Answered(h)
CompensateConflict(h) ==
  /\ handlers[h].step = "conflict" /\ ClaimHolds(h)
  /\ products' = [products EXCEPT ![CommandOf(h).product] = Reconcile(@)]
  /\ Conclude(EventOf(h), "compensation_required")
  /\ Answered(h)

(* ErrStaleClaim.                                                          *)
Superseded(h) ==
  /\ handlers[h].step \in {"claimed", "conflict"} /\ ~ClaimHolds(h)
  /\ handlers' = [handlers EXCEPT ![h] = Idle]
  /\ UNCHANGED <<products, inbox, compensations>>

(* The transaction fails and rolls back.                                   *)
Fail(h) ==
  /\ handlers[h].step \in {"claimed", "conflict"}
  /\ handlers' = [handlers EXCEPT ![h].step = "failed"]
  /\ UNCHANGED <<products, inbox, compensations>>

(* RetryPaymentClaim, which writes only under the claim it was given.      *)
MutReopens(h) == handlers[h].step = "failed"
MayReschedule(h) == ClaimHolds(h)
ScheduleRetry(h) ==
  /\ handlers[h].step = "failed"
  /\ inbox' = IF MayReschedule(h)
              THEN [inbox EXCEPT ![EventOf(h)].status = "retry",
                                 ![EventOf(h)].left = RetryBackoff,
                                 ![EventOf(h)].token = NoHandler]
              ELSE inbox
  /\ handlers' = [handlers EXCEPT ![h] = Idle]
  /\ UNCHANGED <<products, compensations>>

(* The process dies, or the request's context is cancelled.                *)
Crash(h) ==
  /\ handlers[h] # Idle
  /\ handlers' = [handlers EXCEPT ![h] = Idle]
  /\ UNCHANGED <<products, inbox, compensations>>

-----------------------------------------------------------------------------
(***************************************************************************)
(* The queue goes on meanwhile, and time passes.                           *)
(***************************************************************************)
QueueTransactions(t) ==
  {JoinTx(t, u, k, Percent) : u \in Users, k \in Keys}
  \cup {StartCheckoutTx(t, i, u) : i \in DOMAIN t.attempts, u \in Users}
  \cup {CancelTx(t, u) : u \in Users}
  \cup {Reconcile(t)}
  \cup (IF HasReconciliationWork(t) THEN {ReconcileBounded(t, BatchLimit)} ELSE {})

Queue(p) ==
  /\ \E t \in QueueTransactions(products[p]) :
       /\ ~t.failed
       /\ products' = [products EXCEPT ![p] = t]
  /\ UNCHANGED <<inbox, compensations, handlers>>

Sooner(n) == IF n > 0 THEN n - 1 ELSE 0

Aged(t) == [t EXCEPT !.attempts =
  [i \in DOMAIN t.attempts |-> [t.attempts[i] EXCEPT !.left = Sooner(@)]]]

Tick ==
  /\ \/ \E p \in Products : Holders(products[p]) # Due(products[p])
     \/ \E e \in Events : inbox[e] # NoRow /\ inbox[e].left > 0
  /\ products' = [p \in Products |-> Aged(products[p])]
  /\ inbox' = [e \in Events |->
       IF inbox[e] = NoRow THEN NoRow ELSE [inbox[e] EXCEPT !.left = Sooner(@)]]
  /\ UNCHANGED <<compensations, handlers>>

Handle(h) ==
  \/ \E e \in Events, c \in Commands : Deliver(h, e, c)
  \/ RejectUnknown(h)
  \/ Apply(h)
  \/ MeetUniqueIndex(h)
  \/ CompensateConflict(h)
  \/ Superseded(h)
  \/ Fail(h)
  \/ ScheduleRetry(h)
  \/ Crash(h)

Next == \/ \E h \in Handlers : Handle(h)
        \/ \E p \in Products : Queue(p)
        \/ Tick

Spec == Init /\ [][Next]_vars

-----------------------------------------------------------------------------
(***************************************************************************)
(* Fairness.  Nothing in the server returns to a recorded event by itself: *)
(* the provider has to deliver it again until it gets an answer that is    *)
(* not 202.  A transaction that is tried again and again succeeds at last. *)
(***************************************************************************)
Redelivered(e) == \E h \in Handlers : inbox[e] # NoRow /\ Deliver(h, e, inbox[e].command)

Processed(e) == \E h \in Handlers :
  /\ handlers[h] # Idle /\ EventOf(h) = e
  /\ RejectUnknown(h) \/ Apply(h) \/ CompensateConflict(h)

HandlerReturns(h) == Superseded(h) \/ ScheduleRetry(h)

FairSpec ==
  /\ Spec
  /\ WF_vars(Tick)
  /\ \A e \in Events : SF_vars(Redelivered(e)) /\ SF_vars(Processed(e))
  /\ \A h \in Handlers : WF_vars(HandlerReturns(h))

-----------------------------------------------------------------------------
(***************************************************************************)
(* Invariants.                                                             *)
(***************************************************************************)
Codes == {"none", "accepted", "already_accepted", "compensation_required",
          "ignored_purchase_final", "ignored_terminal", "invalid_transition",
          "attempt_not_found"}

Row == [status : {"processing", "retry"} \cup Concluded, command : Commands,
        token : Handlers \cup {NoHandler}, left : Nat, code : Codes]

(* A row has a claim token exactly while it is processing and an answer    *)
(* exactly when it is concluded, as the CHECK constraints of payment_inbox *)
(* demand; every reservation counter stays true to its attempts.           *)
TypeOK ==
  /\ \A p \in Products : /\ Consistent(products[p])
                         /\ ~products[p].failed
                         /\ DOMAIN products[p].attempts = 1 .. (products[p].next - 1)
  /\ inbox \in [Events -> {NoRow} \cup Row]
  /\ \A e \in Events : inbox[e] # NoRow =>
       /\ inbox[e].token # NoHandler <=> inbox[e].status = "processing"
       /\ inbox[e].code # "none" <=> inbox[e].status \in Concluded
  /\ compensations \subseteq Events
  /\ handlers \in [Handlers -> {Idle} \cup
       [step : {"claimed", "conflict", "failed"}, event : Events]]

IsConcluded(e) == inbox[e].status \in Concluded

Ended(p, i, state, ref) == /\ i \in DOMAIN products[p].attempts
                           /\ products[p].attempts[i].state = state
                           /\ products[p].attempts[i].ref = ref

(* The events that ended attempt i of p by being accepted.                 *)
AcceptedFor(p, i) ==
  {e \in Events : /\ IsConcluded(e) /\ inbox[e].code = "accepted"
                  /\ inbox[e].command.product = p /\ inbox[e].command.attempt = i}

(* Payments take effect once: an attempt is purchased, or failed to be     *)
(* paid for, through exactly one accepted event, and that event reported   *)
(* exactly this, whatever was redelivered, retried, superseded or crashed  *)
(* and however often a committed transaction was reported as failed.       *)
EveryPaymentAppliesOnce ==
  \A p \in Products : \A i \in DOMAIN products[p].attempts :
    /\ Cardinality(AcceptedFor(p, i)) =
         IF products[p].attempts[i].state \in {"purchased", "payment_failed"}
         THEN 1 ELSE 0
    /\ \A e \in AcceptedFor(p, i) :
         Ended(p, i, IF inbox[e].command.outcome = "succeeded"
                     THEN "purchased" ELSE "payment_failed",
               inbox[e].command.ref)

(* No money is kept for nothing: a succeeded payment for an attempt that   *)
(* exists either bought that attempt or is owed a compensation, never      *)
(* neither and never both, and compensations are owed for nothing else.    *)
EveryPaymentBuysOrIsReturned ==
  /\ \A e \in Events :
       /\ IsConcluded(e) /\ inbox[e].code # "attempt_not_found"
       /\ inbox[e].command.outcome = "succeeded"
       => IF e \in compensations
          THEN inbox[e].code = "compensation_required"
          ELSE Ended(inbox[e].command.product, inbox[e].command.attempt,
                     "purchased", inbox[e].command.ref)
  /\ \A e \in compensations :
       IsConcluded(e) /\ inbox[e].command.outcome = "succeeded"

(* A payment reference buys one attempt in the whole shop, although each   *)
(* product is locked on its own and two purchases with one reference can   *)
(* both miss each other when they look for its owner.                      *)
ReferenceBuysOneAttempt ==
  \A p, q \in Products :
    \A i \in InState(products[p], {"purchased"}), j \in InState(products[q], {"purchased"}) :
      products[p].attempts[i].ref = products[q].attempts[j].ref => p = q /\ i = j

(***************************************************************************)
(* What a step may never do.                                               *)
(***************************************************************************)
(* The answer to an event is final: replayStoredPayment gives every later  *)
(* delivery the same one, and no late handler or retry reopens the row.    *)
AnswersAreFinal ==
  [][\A e \in Events : IsConcluded(e) => inbox'[e] = inbox[e]]_vars

(***************************************************************************)
(* Refinement: each product of the shop is a ProductQueue whose stock      *)
(* nobody adjusts.                                                         *)
(***************************************************************************)
Queues(p) == INSTANCE ProductQueue WITH
  product <- products[p], adjustments <- << >>,
  AdjustmentKeys <- {}, Deltas <- {}, Percents <- {Percent}

(* Seen from one product, the inbox with its claims, retries, crashes and  *)
(* conflicts is a provider that applies payments to ProductQueue: what is  *)
(* proved of ProductQueue holds of every product here.                     *)
EachProductIsAProductQueue ==
  /\ \A p \in Products : Queues(p)!Init
  /\ [][\A p \in Products : Queues(p)!Next \/ UNCHANGED products[p]]_vars

(***************************************************************************)
(* Liveness.                                                               *)
(***************************************************************************)
(* An event that was recorded gets its answer, through crashes, lost       *)
(* answers, retries and takeovers, if the provider goes on delivering it.  *)
EveryEventConcludes ==
  \A e \in Events : (inbox[e] # NoRow) ~> IsConcluded(e)
=============================================================================
