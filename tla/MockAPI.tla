------------------------------- MODULE MockAPI -------------------------------
(***************************************************************************)
(* The in-memory stand-in for the repository.                              *)
(*                                                                         *)
(* One mutex guards everything, so every operation is a step from one      *)
(* product to the next, as in QueueTransaction, with which it shares the   *)
(* shape of a product.  It has neither clock nor worker: nothing expires,  *)
(* and nobody is promoted or sold out.                                     *)
(***************************************************************************)
EXTENDS QueueTransaction, Configuration

CONSTANTS DemoUser,       \* the demo users, by number
          FixtureKey,     \* stands for the keys of the fixtures
          MockCapacity,   \* WaitingCapacity of the fixtures
          MockReference,  \* the one payment reference of demo payments
          WaitingBuffers  \* percentages that some repository is run with

ASSUME MockAssumption == /\ DOMAIN DemoUser = 1 .. 5 /\ FixtureKey \in Keys
                         /\ \A n \in 1 .. 5 : DemoUser[n] \in Users
                         /\ MockReference \in References /\ MockCapacity \in Nat
                         /\ \E ref \in References : ref # MockReference
                         /\ MaxStock >= 10 /\ MaxSequence >= 6   \* room for the fixtures
                         /\ WaitingBuffers \subseteq 0 .. MaxWaitingBuffer
                         /\ MaxWaitingBuffer \in WaitingBuffers

(***************************************************************************)
(* The fixtures.                                                           *)
(***************************************************************************)
fixtureAttempt(n, state) ==
  [user |-> DemoUser[n], key |-> FixtureKey, state |-> state, ref |-> NoReference,
   left |-> CASE state = "invited" -> InvitationTTL
              [] state = "checkout" -> CheckoutTTL
              [] OTHER -> 0]

Fixture(stock, reserved, next, enabled, states) ==
  [stock |-> stock, reserved |-> reserved, next |-> next, enabled |-> enabled,
   attempts |-> [n \in DOMAIN states |-> fixtureAttempt(n, states[n])],
   outbox |-> {}, failed |-> FALSE]

newState == {
  Fixture(1, 1, 4, TRUE, <<"checkout", "waiting", "waiting">>),
  Fixture(3, 1, 6, TRUE, <<"invited", "purchased", "cancelled",
                           "invite_expired", "checkout_expired">>),
  Fixture(0, 0, 1, TRUE, << >>),
  Fixture(10, 0, 1, FALSE, << >>)}

(***************************************************************************)
(* The operations, from product to product.                                *)
(***************************************************************************)
FreeStock(t) == t.stock - t.reserved

Admissible(t) == /\ t.enabled /\ t.stock > 0
                 /\ FreeStock(t) > 0 \/ Cardinality(Waiting(t)) < MockCapacity

MutJoinsAgain(t, u, k) ==
  IF ActiveOf(t, u) # {} \/ ~Admissible(t) THEN t
  ELSE IF FreeStock(t) > 0 THEN Appended(t, u, k, "checkout", CheckoutTTL)
  ELSE Appended(t, u, k, "waiting", 0)
MockJoin(t, u, k) ==
  IF Replayed(t, u, k) \/ ActiveOf(t, u) # {} \/ ~Admissible(t) THEN t
  ELSE IF FreeStock(t) > 0 THEN Appended(t, u, k, "checkout", CheckoutTTL)
  ELSE Appended(t, u, k, "waiting", 0)

MockLeave(t, u) ==
  IF Cancellable(t, u) = {} THEN t
  ELSE Released(t, ToCancel(t, u), "cancelled")

MockStart(t, i, u) ==
  IF t.attempts[i].user = u /\ t.attempts[i].state = "invited"
  THEN [t EXCEPT !.attempts[i] = Moved(@, "checkout", CheckoutTTL)]
  ELSE t

MockCompleteDemo(t, i, u) ==
  IF /\ t.attempts[i].user = u /\ t.attempts[i].state = "checkout"
     /\ t.stock > 0 /\ t.reserved > 0
  THEN Purchased(t, i, MockReference)
  ELSE t

(* What some request may do; reads and refusals leave the product as it is. *)
MockSteps(t) ==
  {MockJoin(t, u, k) : u \in Users, k \in Keys}
  \cup {MockLeave(t, u) : u \in Users}
  \cup {MockStart(t, i, u) : i \in DOMAIN t.attempts, u \in Users}
  \cup {MockCompleteDemo(t, i, u) : i \in DOMAIN t.attempts, u \in Users}

(***************************************************************************)
(* What a repository would have done that LoadFrom lets run.               *)
(***************************************************************************)
(* What users are shown of a product.                                      *)
Shown(t) == [stock |-> t.stock, reserved |-> t.reserved, next |-> t.next,
             attempts |-> [i \in DOMAIN t.attempts |->
               [user |-> t.attempts[i].user, key |-> t.attempts[i].key,
                state |-> t.attempts[i].state]]]

RepositoryShows(t, shown) ==
  \/ \E u \in Users : shown = Shown(CancelTx(t, u))
  \/ \E i \in DOMAIN t.attempts, ref \in References :
       shown = Shown(PaymentTx(t, i, "succeeded", ref, {}))
  \/ \E u \in Users, k \in Keys, percent \in WaitingBuffers :
       shown = Shown(JoinTx(t, u, k, percent))
  \/ \E i \in DOMAIN t.attempts : shown = Shown(StartCheckoutTx(t, i, t.attempts[i].user))

(* Up to the reconciliation that the mock leaves out.                      *)
StandsFor(t, result) == RepositoryShows(t, Shown(Reconcile(result)))

(***************************************************************************)
(* Where the mock does what no such repository would.                      *)
(***************************************************************************)
Joined(t, result, state) ==
  result.next > t.next /\ result.attempts[t.next].state = state

(* Takes a unit for which those who wait are enough.                       *)
Overtakes(t, result) ==
  Joined(t, result, "checkout") /\ Cardinality(Waiting(t)) >= FreeStock(t)

(* Waits where the largest buffer has no place.                            *)
WaitsBeyondBuffer(t, result) ==
  /\ Joined(t, result, "waiting")
  /\ Cardinality(Waiting(t)) >= WaitingCapacity(t.stock, MaxWaitingBuffer)

(* Leaves a line that is sold out: cancelled, where it would be sold_out.  *)
LeavesSoldOut(t, result) == t.stock = 0 /\ Waiting(result) # Waiting(t)

Deviates(t, result) == \/ Overtakes(t, result)
                       \/ WaitsBeyondBuffer(t, result)
                       \/ LeavesSoldOut(t, result)
=============================================================================
