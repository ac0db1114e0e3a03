----------------------------- MODULE DemoPayment -----------------------------
(***************************************************************************)
(* The demo payment: a user's request to pay for an attempt, in the place  *)
(* of a payment provider.                                                  *)
(*                                                                         *)
(* CompleteDemo looks the user's current attempt up, reports a payment to  *)
(* the inbox under an event id made of the attempt and the request's       *)
(* idempotency key, and looks the attempt up again for its answer.  These  *)
(* are transactions of their own, between which the rest of the shop, and  *)
(* other requests for the same attempt, go on.  Nobody delivers a demo     *)
(* event again but the user.                                               *)
(***************************************************************************)
EXTENDS PaymentInbox

(* An event id, and a payment reference: the digest of its attempt and the *)
(* idempotency key of the request.                                         *)
DemoToken == [product : Products, attempt : Nat, key : STRING]

VARIABLES calls,     \* where each handler is in CompleteDemo
          answered   \* what the requests with a token have been answered

demoVars == <<vars, calls, answered>>

NoCall == [step |-> "idle"]

DemoInit == /\ Init
            /\ calls = [h \in Handlers |-> NoCall]
            /\ answered = [e \in Events |-> {}]

CommandFor(e) == [product |-> e.product, attempt |-> e.attempt,
                  outcome |-> "succeeded", ref |-> e]

(* demoPaymentStateError *)
StateError(state) ==
  IF state \in {"invite_expired", "checkout_expired", "sold_out"} THEN "gone" ELSE "invalid"

Answer(h, answer) ==
  /\ calls' = [calls EXCEPT ![h] = NoCall]
  /\ answered' = [answered EXCEPT ![calls[h].event] = @ \cup {answer}]

Proceed(h, step) ==
  /\ calls' = [calls EXCEPT ![h].step = step]
  /\ UNCHANGED answered

(* FindCurrent: the user's active attempt, or else the latest one.         *)
Current(t, u) == IF ActiveOf(t, u) # {} THEN ActiveOf(t, u) ELSE Latest(t, u)

Seen(e, t) == IF Current(t, t.attempts[e.attempt].user) = {e.attempt}
              THEN t.attempts[e.attempt].state ELSE "other"

Looks(h, e) == /\ products' = [products EXCEPT ![e.product] = Reconcile(@)]
               /\ UNCHANGED <<inbox, compensations, handlers>>

-----------------------------------------------------------------------------
(* The user of an attempt asks for it to be paid for.                      *)
Request(h, e) ==
  /\ calls[h] = NoCall /\ handlers[h] = Idle
  /\ e.attempt \in DOMAIN products[e.product].attempts
  /\ calls' = [calls EXCEPT ![h] = [step |-> "find", event |-> e, status |-> 0]]
  /\ UNCHANGED <<vars, answered>>

Find(h) ==
  /\ calls[h].step = "find"
  /\ Looks(h, calls[h].event)
  /\ LET state == Seen(calls[h].event, products'[calls[h].event.product])
     IN  \/ state = "other" /\ Answer(h, "attempt_not_found")
         \/ state = "purchased" /\ Answer(h, "purchased")
         \/ state = "checkout" /\ Proceed(h, "pay")
         \/ state \notin {"other", "purchased", "checkout"} /\ Answer(h, StateError(state))

(* Process, which is ProcessPayment of the inbox: its answer is in the row *)
(* already, somebody else is at it, or the handler claims the row.         *)
Paid(h, status) == /\ calls' = [calls EXCEPT ![h].step = "look", ![h].status = status]
                   /\ UNCHANGED answered

Pay(h) ==
  /\ calls[h].step = "pay"
  /\ LET e == calls[h].event
     IN  \/ inbox[e].status \in Concluded /\ Paid(h, 200) /\ UNCHANGED vars
         \/ /\ inbox[e].status \in {"processing", "retry"} /\ inbox[e].left > 0
            /\ Paid(h, 202) /\ UNCHANGED vars
         \/ Deliver(h, e, CommandFor(e)) /\ Proceed(h, "paying")

Process(h) ==
  /\ calls[h].step = "paying"
  /\ \/ /\ Apply(h) \/ CompensateConflict(h) \/ MeetUniqueIndex(h) \/ Fail(h)
        /\ IF handlers'[h] = Idle THEN Paid(h, 200) ELSE UNCHANGED <<calls, answered>>
     \/ /\ ScheduleRetry(h) \/ Superseded(h) \/ Crash(h)
        /\ Answer(h, "error")

Look(h) ==
  /\ calls[h].step = "look"
  /\ Looks(h, calls[h].event)
  /\ LET state == Seen(calls[h].event, products'[calls[h].event.product])
     IN  \/ state = "other" /\ Answer(h, "attempt_not_found")
         \/ state = "purchased" /\ Answer(h, "purchased")
         \/ state = "checkout" /\ calls[h].status = 202 /\ Answer(h, "processing")
         \/ /\ state \notin {"other", "purchased"}
            /\ state = "checkout" => calls[h].status # 202
            /\ Answer(h, StateError(state))

CompleteDemo(h) == Find(h) \/ Pay(h) \/ Process(h) \/ Look(h)

DemoNext ==
  \/ \E h \in Handlers : CompleteDemo(h) \/ \E e \in Events : Request(h, e)
  \/ \E p \in Products : Queue(p) /\ UNCHANGED <<calls, answered>>
  \/ Tick /\ UNCHANGED <<calls, answered>>

DemoSpec == DemoInit /\ [][DemoNext]_demoVars

-----------------------------------------------------------------------------
(* A demo payment is idempotent: the request that was answered with the    *)
(* purchase gets that answer whenever it is repeated with its key, or at   *)
(* worst an error that tells it to repeat it once more.                    *)
DemoPaymentIsIdempotent ==
  [][\A e \in Events : "purchased" \in answered[e] =>
       answered'[e] \subseteq answered[e] \cup {"error"}]_demoVars
=============================================================================
