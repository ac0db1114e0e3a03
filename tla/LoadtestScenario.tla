-------------------------- MODULE LoadtestScenario --------------------------
(***************************************************************************)
(* A load test from its generated data to its verdict.                     *)
(*                                                                         *)
(* k6 plays the users of data.json: each joins the products assigned to it *)
(* and then acts on what its polls show until the attempt has ended as     *)
(* planned or otherwise, and reports that in one event.  Requests fail,    *)
(* answers get lost, deadlines pass between a poll and the request made on *)
(* its strength.  Then the verifier reads the tables, in one statement     *)
(* after another, and judges the run by its own checks.  There are two     *)
(* judges, then: k6's outcome thresholds and the verifier, with no data in *)
(* common but the events.                                                  *)
(***************************************************************************)
EXTENDS QueueTransaction

CONSTANTS Products,         \* product ids
          ProductsPerUser,  \* assignments of each user
          QueueCapacity,    \* how many users may be assigned to a product
          InitialStocks,    \* MinStock .. MaxStock
          Percents,         \* waiting-buffer percentages in force at a join
          BatchLimit        \* transition limit of one worker transaction

(* Config.Validate                                                         *)
Validate ==
  /\ ProductsPerUser \in 1 .. Cardinality(Products)
  /\ QueueCapacity \in 1 .. 1000
  /\ Cardinality(Users) * ProductsPerUser <= Cardinality(Products) * QueueCapacity
  /\ InitialStocks \subseteq 1 .. MaxStock
ASSUME ConfigAssumption == Validate

(* An assignment has a join key and a payment of its own.                  *)
ASSUME ScenarioAssumption == /\ Users \subseteq Keys \cap References
                             /\ MaxSequence > Cardinality(Users)
                             /\ Percents \subseteq Nat /\ BatchLimit \in Nat \ {0}

Pairs == Users \X Products
UserOf(q) == q[1]
ProductOf(q) == q[2]

VARIABLES data,      \* data.json: the plan of each pair, the initial stocks
          products,  \* products and their attempts
          trail,     \* what the timestamp columns of the attempts tell
          inbox,     \* payment_inbox, by pair
          items,     \* where k6 is with each pair
          read,      \* the products as Verify has read them
          verdict    \* VerificationResult.Passed

vars == <<data, products, trail, inbox, items, read, verdict>>

-----------------------------------------------------------------------------
(***************************************************************************)
(* GenerateData and Seed.                                                  *)
(***************************************************************************)
Expected == [purchase |-> "purchased", cancel |-> "cancelled", ttl |-> "checkout_expired"]
Plans == DOMAIN Expected
Assigned == {q \in Pairs : data.plan[q] # "none"}

(* selectProduct: any of the candidates, which have capacity left.         *)
Fits(chosen) ==
  \A p \in Products : Cardinality({q \in chosen : ProductOf(q) = p}) <= QueueCapacity

(* generateUsers; a draw that leads nowhere is repeated.                   *)
Drawn(outcomes) ==
  {plan \in [Pairs -> outcomes \cup {"none"}] :
     LET chosen == {q \in Pairs : plan[q] # "none"}
     IN  /\ Fits(chosen)
         /\ \A u \in Users : Cardinality({q \in chosen : UserOf(q) = u}) = ProductsPerUser}

GenerateData ==
  \E plan \in Drawn(Plans) \cup Drawn({"poll"}), stock \in [Products -> InitialStocks] :
    data = [plan |-> plan, stock |-> stock]

NotRead == [p \in Products |-> [stock |-> 0, reserved |-> 0, next |-> 0]]
Unplayed == [step |-> "new", entry |-> "none", sent |-> FALSE, event |-> "none"]

Init == /\ GenerateData
        /\ products = [p \in Products |->
             [stock |-> data.stock[p], reserved |-> 0, next |-> 1, enabled |-> TRUE,
              attempts |-> << >>, outbox |-> {}, failed |-> FALSE]]
        /\ trail = [p \in Products |-> [started |-> {}, late |-> {}]]
        /\ inbox = [q \in Pairs |-> "none"]
        /\ items = [q \in Pairs |-> Unplayed]
        /\ read = NotRead
        /\ verdict = "none"

-----------------------------------------------------------------------------
(***************************************************************************)
(* The server.  started: attempts with a checkout_started_at; late: those  *)
(* whose terminal_at is not before the deadline they had.  invited_at is   *)
(* set by a promotion, which the outbox records, and by a checkout.        *)
(***************************************************************************)
Put(p, t) ==
  /\ ~t.failed
  /\ products' = [products EXCEPT ![p] = t]
  /\ trail' = [trail EXCEPT
       ![p].started = @ \cup InState(t, {"checkout"}),
       ![p].late = @ \cup (Due(products[p]) \cap InState(t, Terminal))]

AttemptsOf(q) == OfUser(products[ProductOf(q)], UserOf(q))
StateIn(t, q) == t.attempts[CHOOSE i \in OfUser(t, UserOf(q)) : TRUE].state

Worker(p) ==
  /\ HasReconciliationWork(products[p])
  /\ Put(p, ReconcileBounded(products[p], BatchLimit))
  /\ UNCHANGED <<data, inbox, items, read, verdict>>

Aged(t) == [t EXCEPT !.attempts = [i \in DOMAIN t.attempts |->
  [t.attempts[i] EXCEPT !.left = IF @ > 0 THEN @ - 1 ELSE 0]]]

Tick ==
  /\ \E p \in Products : Holders(products[p]) # Due(products[p])
  /\ products' = [p \in Products |-> Aged(products[p])]
  /\ UNCHANGED <<data, trail, inbox, items, read, verdict>>

-----------------------------------------------------------------------------
(***************************************************************************)
(* k6, one pair at a time.  emitOutcome: the pair is done with.            *)
(***************************************************************************)
Emits(q, outcome) ==
  items' = [items EXCEPT ![q] = [Unplayed EXCEPT !.step = "done", !.event = outcome]]

(* The request, and a second one with the same key, which finds the first. *)
Joined(q) ==
  {JoinTx(products[ProductOf(q)], UserOf(q), UserOf(q), percent) : percent \in Percents}

Join(q) ==
  /\ items[q].step = "new" /\ q \in Assigned
  /\ \E t \in Joined(q) :
         /\ Put(ProductOf(q), t)
         /\ IF OfUser(t, UserOf(q)) # {}
            THEN items' = [items EXCEPT ![q].step = "act", ![q].entry = StateIn(t, q)]
            ELSE Emits(q, IF t.stock = 0 THEN "sold_out" ELSE "queue_rejected")
  /\ UNCHANGED <<data, inbox, read, verdict>>

(* A join is not repeated, though it may have been made.                   *)
LoseJoin(q) ==
  /\ items[q].step = "new" /\ q \in Assigned
  /\ \/ \E t \in Joined(q) : Put(ProductOf(q), t)
     \/ UNCHANGED <<products, trail>>
  /\ Emits(q, "unresolved")
  /\ UNCHANGED <<data, inbox, read, verdict>>

Acting(q, state) == items[q].step = "act" /\ items[q].entry = state

(* The request is answered, and with what.                                 *)
Answered(q, entry, sent) ==
  items' = [items EXCEPT ![q].step = "poll", ![q].entry = entry, ![q].sent = sent]

(* An answer of another kind, or none: nothing is noted.                   *)
Unanswered(q) == items' = [items EXCEPT ![q].step = "poll"]

AttemptOf(q) == CHOOSE i \in AttemptsOf(q) : TRUE

StartCheckout(q) ==
  /\ Acting(q, "invited") /\ data.plan[q] \in Plans
  /\ LET t == StartCheckoutTx(products[ProductOf(q)], AttemptOf(q), UserOf(q))
     IN  /\ Put(ProductOf(q), t)
         /\ \/ StateIn(t, q) = "checkout" /\ Answered(q, "checkout", FALSE)
            \/ Unanswered(q)
  /\ UNCHANGED <<data, inbox, read, verdict>>

Cancel(q) ==
  /\ Acting(q, "checkout") /\ ~items[q].sent /\ data.plan[q] = "cancel"
  /\ Put(ProductOf(q), CancelTx(products[ProductOf(q)], UserOf(q)))
  /\ Answered(q, "checkout", TRUE) \/ Unanswered(q)
  /\ UNCHANGED <<data, inbox, read, verdict>>

(* completePayment: 200 and accepted, or 202, which nobody follows up.     *)
MutTakesItForPaid(q) == Emits(q, "purchased")
Paid(q) == Answered(q, "checkout", TRUE)

(* A row that is claimed or waits for its retry may be claimed again only  *)
(* when the lease or the backoff is over, which is left to chance.         *)
ApplyPayment(q) ==
  /\ inbox[q] \in {"none", "open"}
  /\ LET t == products[ProductOf(q)]
         code == PaymentCode(Reconcile(t), AttemptOf(q), "succeeded", UserOf(q), {})
     IN  /\ Put(ProductOf(q), PaymentTx(t, AttemptOf(q), "succeeded", UserOf(q), {}))
         /\ inbox' = [inbox EXCEPT ![q] = code]
         /\ (code = "accepted" /\ Paid(q)) \/ Unanswered(q)

Pay(q) ==
  /\ Acting(q, "checkout") /\ ~items[q].sent /\ data.plan[q] = "purchase"
  /\ \/ ApplyPayment(q)
     \/ /\ inbox[q] \in {"none", "open"}               \* it fails, 500
        /\ inbox' = [inbox EXCEPT ![q] = "open"]
        /\ Unanswered(q)
        /\ UNCHANGED <<products, trail>>
     \/ /\ inbox[q] \in {"open", "accepted"}           \* 202, or a replay
        /\ Paid(q)
        /\ UNCHANGED <<products, trail, inbox>>
     \/ /\ inbox[q] = "compensation_required"
        /\ Unanswered(q)
        /\ UNCHANGED <<products, trail, inbox>>
  /\ UNCHANGED <<data, read, verdict>>

(* advanceItem with nothing to send: wait, or let the deadline pass.       *)
Wait(q) ==
  /\ items[q].step = "act"
  /\ \/ items[q].entry = "waiting" /\ Unanswered(q)
     \/ /\ items[q].entry = "checkout" /\ (items[q].sent \/ data.plan[q] = "ttl")
        /\ Answered(q, "checkout", TRUE)
     \/ data.plan[q] = "poll" /\ Unanswered(q)
  /\ UNCHANGED <<data, products, trail, inbox, read, verdict>>

Outcome(state) ==
  IF state \in {"purchased", "cancelled", "checkout_expired", "sold_out"}
  THEN state ELSE "unresolved"

MutOverlooksInvitations == Terminal \ {"invite_expired"}
Ending == Terminal

Conclude(q) ==
  /\ items[q].step = "act" /\ items[q].entry \in Ending /\ data.plan[q] \in Plans
  /\ Emits(q, Outcome(items[q].entry))
  /\ UNCHANGED <<data, products, trail, inbox, read, verdict>>

(* current(), which reconciles; an entry that was not answered is kept.    *)
Poll(q) ==
  /\ items[q].step = "poll"
  /\ LET t == Reconcile(products[ProductOf(q)])
     IN  /\ Put(ProductOf(q), t)
         /\ items' = [items EXCEPT ![q].step = "act", ![q].entry = StateIn(t, q)]
  /\ UNCHANGED <<data, inbox, read, verdict>>

PollFails(q) ==
  /\ items[q].step = "poll"
  /\ items' = [items EXCEPT ![q].step = "act"]
  /\ UNCHANGED <<data, products, trail, inbox, read, verdict>>

(* The outcome timeout, or the end of the polling scenario.                *)
GiveUp(q) ==
  /\ items[q].step \in {"act", "poll"}
  /\ Emits(q, "unresolved")
  /\ UNCHANGED <<data, products, trail, inbox, read, verdict>>

Act(q) == StartCheckout(q) \/ Cancel(q) \/ Pay(q) \/ Wait(q) \/ Conclude(q)

-----------------------------------------------------------------------------
(***************************************************************************)
(* Verify: Evaluate with its checks, of products r and of the attempts.    *)
(***************************************************************************)
checkInventory(r) ==
  \A p \in Products : r[p].reserved \in 0 .. r[p].stock

checkActiveAttempts ==
  \A q \in Pairs : Cardinality(ActiveOf(products[ProductOf(q)], UserOf(q))) <= 1

checkSequences(r) ==
  \A p \in Products : LET n == Cardinality(DOMAIN products[p].attempts)
                      IN  /\ DOMAIN products[p].attempts = 1 .. n
                          /\ r[p].next = n + 1

checkAllowedAttempts ==
  \A q \in Pairs : AttemptsOf(q) # {} => q \in Assigned

checkIdempotency ==
  \A p \in Products : \A i, j \in DOMAIN products[p].attempts :
    /\ products[p].attempts[i].user = products[p].attempts[j].user
    /\ products[p].attempts[i].key = products[p].attempts[j].key
    => i = j

Stamped(p, i) ==
  LET a == products[p].attempts[i]
      started == i \in trail[p].started
      invited == started \/ i \in products[p].outbox
  IN  /\ a.state \in {"waiting", "sold_out"} => ~invited
      /\ a.state \in {"invited", "invite_expired"} => invited /\ ~started
      /\ a.state \in {"checkout", "purchased", "checkout_expired", "payment_failed"} => started
      /\ a.state \in {"invite_expired", "checkout_expired"} => i \in trail[p].late
      /\ a.state = "purchased" <=> a.ref # NoReference

checkStateTimestamps ==
  \A p \in Products : \A i \in DOMAIN products[p].attempts : Stamped(p, i)

Evaluate(r) ==
  /\ checkInventory(r) /\ checkSequences(r)
  /\ checkActiveAttempts /\ checkAllowedAttempts
  /\ checkIdempotency /\ checkStateTimestamps

(***************************************************************************)
(* evaluatePurchaseOutcomes: attempts, payments and events of every pair.  *)
(***************************************************************************)
Actual(q) == Outcome(StateIn(products[ProductOf(q)], q))
Started(q) == AttemptOf(q) \in trail[ProductOf(q)].started

(* readK6OutcomeEvents and readPayments, of one pair                       *)
Logged(q) == items[q].event
PaidFor(q) == inbox[q]

EventFits(q) ==
  IF AttemptsOf(q) = {} THEN Logged(q) \in {"queue_rejected", "sold_out"}
  ELSE Logged(q) = Actual(q) /\ Actual(q) # "unresolved"

PlanKept(q) ==
  AttemptsOf(q) # {} /\ Started(q) => Actual(q) = Expected[data.plan[q]]

PaymentFits(q) ==
  IF AttemptsOf(q) # {} /\ Actual(q) = "purchased"
  THEN data.plan[q] = "purchase" /\ PaidFor(q) = "accepted"
  ELSE PaidFor(q) = "none"

InventoryReleased(p, r) ==
  /\ r[p].reserved = 0
  /\ r[p].stock = data.stock[p] - Cardinality(InState(products[p], {"purchased"}))

evaluatePurchaseOutcomes(r) ==
  /\ \A q \in Assigned : EventFits(q) /\ PlanKept(q) /\ PaymentFits(q)
  /\ \A p \in Products : InventoryReleased(p, r)

Finished == \A q \in Assigned : items[q].step = "done"
Polling == \E q \in Assigned : data.plan[q] = "poll"

Snapshot == [p \in Products |-> [stock |-> products[p].stock,
                                 reserved |-> products[p].reserved,
                                 next |-> products[p].next]]

ReadProducts ==
  /\ Finished /\ read = NotRead
  /\ read' = Snapshot
  /\ UNCHANGED <<data, products, trail, inbox, items, verdict>>

Verdict == IF Evaluate(read) /\ (Polling \/ evaluatePurchaseOutcomes(read))
           THEN "passed" ELSE "failed"

ReadAttempts ==
  /\ read # NotRead /\ verdict = "none"
  /\ verdict' = Verdict
  /\ UNCHANGED <<data, products, trail, inbox, items, read>>

Next ==
  \/ \E q \in Pairs : \/ Join(q) \/ LoseJoin(q) \/ Act(q)
                      \/ Poll(q) \/ PollFails(q) \/ GiveUp(q)
  \/ \E p \in Products : Worker(p)
  \/ Tick
  \/ ReadProducts
  \/ ReadAttempts

Spec == Init /\ [][Next]_vars

(***************************************************************************)
(* Fairness.  k6 goes on, and a poll that is repeated is answered at last; *)
(* the clock runs and the worker comes round.  Nothing relies on GiveUp.   *)
(* The first two are weak fairness of Act and strong fairness of Poll,     *)
(* with the conditions spelled out under which these are enabled.          *)
(***************************************************************************)
Advancing(q) == /\ items[q].step = "act"
                /\ items[q].entry \in Active \cup Ending

FairSpec ==
  /\ Spec /\ WF_vars(Tick)
  /\ \A p \in Products : WF_vars(Worker(p))
  /\ \A q \in Pairs : /\ []<>~Advancing(q)
                      /\ []<>(items[q].step = "poll") => []<><<Poll(q)>>_vars

-----------------------------------------------------------------------------
(***************************************************************************)
(* Invariants.                                                             *)
(***************************************************************************)
(* The verifier's own conditions hold of the tables at any moment of a     *)
(* run, not only when it looks: counters, sequences, idempotency and every *)
(* combination of state and timestamps that Evaluate demands.              *)
VerifierAcceptsTheQueue == Evaluate(Snapshot)

(* k6's outcome thresholds: outcome_mismatches, unresolved_outcomes.       *)
K6Passes ==
  \A q \in Assigned :
    items[q].event \in {"queue_rejected", "sold_out", Expected[data.plan[q]]}

(* The two judges agree: the verifier passes a run of the purchase         *)
(* scenario exactly when k6 met no mismatch and left nothing unresolved,   *)
(* through lost answers, payments that are processed later or never, and   *)
(* the worker going on between the statements of Verify.  A run of the     *)
(* polling scenario always passes.                                         *)
JudgesAgree ==
  verdict # "none" => (verdict = "passed" <=> Polling \/ K6Passes)

(***************************************************************************)
(* Liveness.                                                               *)
(***************************************************************************)
(* k6 never has to give up: however requests fail, a pair of the purchase  *)
(* scenario that has joined comes to the end of its attempt.               *)
EveryItemConcludes ==
  \A q \in Pairs :
    (items[q].step \in {"act", "poll"} /\ data.plan[q] \in Plans) ~> (items[q].step = "done")
=============================================================================
