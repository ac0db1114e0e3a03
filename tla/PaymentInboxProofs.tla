------------------------- MODULE PaymentInboxProofs -------------------------
(***************************************************************************)
(* Payments take effect once and no money is lost, for any number of       *)
(* products, events, handlers and commands and every timing.               *)
(*                                                                         *)
(* The argument: an event changes its product only in the transaction that *)
(* concludes it, that transaction requires the row to be in processing     *)
(* under the handler's token, and nothing ever writes to a concluded row.  *)
(* An event is accepted only for an attempt in checkout, which no event    *)
(* has decided yet; afterwards the attempt is decided, and stays as it is  *)
(* (QueueTransactionProofs).  So events and decided attempts match one to  *)
(* one.  A claim that was lost, taken over or answered wrongly only ever   *)
(* stops a handler.                                                        *)
(***************************************************************************)
EXTENDS PaymentInbox, QueueTransactionProofs

ProductsOK ==
  /\ DOMAIN products = Products
  /\ products = [p \in Products |-> products[p]]
  /\ \A p \in Products : Good(products[p]) /\ Remembers(products[p])

InboxOK ==
  /\ inbox \in [Events -> {NoRow} \cup Row]
  /\ \A e \in Events : inbox[e] # NoRow =>
       /\ inbox[e].token # NoHandler <=> inbox[e].status = "processing"
       /\ inbox[e].code # "none" <=> inbox[e].status \in Concluded
       /\ inbox[e].status \in Concluded => inbox[e].left = 0

(* A handler works on an event that is recorded, and meets the unique      *)
(* index only with a succeeded payment.                                    *)
HandlersOK ==
  /\ handlers \in [Handlers -> {Idle} \cup
       [step : {"claimed", "conflict", "failed"}, event : Events]]
  /\ \A h \in Handlers : handlers[h] # Idle =>
       /\ inbox[handlers[h].event] # NoRow
       /\ handlers[h].step = "conflict" =>
            inbox[handlers[h].event].command.outcome = "succeeded"

Accepted(e) == IsConcluded(e) /\ inbox[e].code = "accepted"
About(e, p, i) == inbox[e].command.product = p /\ inbox[e].command.attempt = i

(* The attempt of an accepted event ended as the event says.               *)
Applied(e) ==
  Ended(inbox[e].command.product, inbox[e].command.attempt,
        IF inbox[e].command.outcome = "succeeded" THEN "purchased" ELSE "payment_failed",
        inbox[e].command.ref)

AcceptedApply == \A e \in Events : Accepted(e) => Applied(e)

DecidedWereAccepted ==
  \A p \in Products : \A i \in Decided(products[p]) :
    \E e \in Events : Accepted(e) /\ About(e, p, i)

AcceptedOnce ==
  \A p \in Products : \A i \in Nat : \A e, f \in Events :
    Accepted(e) /\ About(e, p, i) /\ Accepted(f) /\ About(f, p, i) => e = f

Bargain(e) == Ended(inbox[e].command.product, inbox[e].command.attempt,
                    "purchased", inbox[e].command.ref)

NothingKept ==
  /\ \A e \in Events :
       /\ IsConcluded(e) /\ inbox[e].code # "attempt_not_found"
       /\ inbox[e].command.outcome = "succeeded" /\ e \notin compensations
       => Bargain(e)
  /\ compensations \subseteq Events
  /\ \A e \in compensations :
       /\ IsConcluded(e) /\ inbox[e].command.outcome = "succeeded"
       /\ inbox[e].code = "compensation_required"

OwnersApart ==
  \A p, q \in Products : p # q =>
    OwnedReferences(products[p]) \cap OwnedReferences(products[q]) = {}

IInv == /\ ProductsOK /\ InboxOK /\ HandlersOK
        /\ AcceptedApply /\ DecidedWereAccepted /\ AcceptedOnce
        /\ NothingKept /\ OwnersApart

-----------------------------------------------------------------------------
(***************************************************************************)
(* What the invariant says of the properties.                              *)
(***************************************************************************)
LEMMA CommandFields ==
  ASSUME NEW c \in Commands
  PROVE  /\ c.product \in Products /\ c.attempt \in Nat
         /\ c.outcome \in {"succeeded", "failed"}
         /\ c.ref \in References \cup {NoReference}
         /\ c.outcome = "succeeded" => c.ref \in References
         /\ c.outcome = "failed" => c.ref = NoReference
BY CommandAssumption DEF Command

LEMMA RowFields ==
  ASSUME InboxOK, NEW e \in Events, inbox[e] # NoRow
  PROVE  /\ inbox[e] \in Row /\ inbox[e].command \in Commands
         /\ inbox[e].status \in {"processing", "retry", "completed", "rejected"}
         /\ inbox[e].left \in Nat /\ inbox[e].code \in Codes
         /\ inbox[e].token \in Handlers \cup {NoHandler}
BY DEF InboxOK, Row, Concluded

LEMMA ConcludedRow ==
  ASSUME NEW e \in Events, IsConcluded(e)
  PROVE  inbox[e] # NoRow
BY DEF IsConcluded, Concluded, NoRow

LEMMA AttemptsAreNumbered ==
  ASSUME NEW t, Good(t)
  PROVE  DOMAIN t.attempts = 1 .. (t.next - 1) /\ DOMAIN t.attempts \subseteq Nat
BY Fields DEF Good

LEMMA ImpliesType == IInv => TypeOK
<1> SUFFICES ASSUME IInv PROVE TypeOK
  OBVIOUS
<1>1. \A p \in Products : /\ Consistent(products[p]) /\ ~products[p].failed
                          /\ DOMAIN products[p].attempts = 1 .. (products[p].next - 1)
  BY AttemptsAreNumbered DEF IInv, ProductsOK, Good
<1> QED
  BY <1>1 DEF IInv, InboxOK, HandlersOK, NothingKept, TypeOK

LEMMA ImpliesOnce == IInv => EveryPaymentAppliesOnce
<1> SUFFICES ASSUME IInv, NEW p \in Products, NEW i \in DOMAIN products[p].attempts
             PROVE  /\ Cardinality(AcceptedFor(p, i)) =
                         IF products[p].attempts[i].state \in {"purchased", "payment_failed"}
                         THEN 1 ELSE 0
                    /\ \A e \in AcceptedFor(p, i) :
                         Ended(p, i, IF inbox[e].command.outcome = "succeeded"
                                     THEN "purchased" ELSE "payment_failed",
                               inbox[e].command.ref)
  BY DEF EveryPaymentAppliesOnce
<1>1. i \in Nat
  BY AttemptsAreNumbered DEF IInv, ProductsOK
<1>2. \A e : e \in AcceptedFor(p, i) <=> e \in Events /\ Accepted(e) /\ About(e, p, i)
  BY DEF AcceptedFor, Accepted, About
<1>3. \A e \in AcceptedFor(p, i) :
        Ended(p, i, IF inbox[e].command.outcome = "succeeded"
                    THEN "purchased" ELSE "payment_failed",
              inbox[e].command.ref)
  BY <1>2 DEF IInv, AcceptedApply, Applied, About
<1>4. CASE i \in Decided(products[p])
  <2>1. PICK e \in Events : Accepted(e) /\ About(e, p, i)
    BY <1>4 DEF IInv, DecidedWereAccepted
  <2>2. AcceptedFor(p, i) = {e}
    BY <1>1, <1>2, <2>1 DEF IInv, AcceptedOnce
  <2>3. Cardinality(AcceptedFor(p, i)) = 1
    BY <2>2, FS_Singleton
  <2> QED
    BY <1>3, <1>4, <2>3 DEF Decided, InState
<1>5. CASE i \notin Decided(products[p])
  <2>1. AcceptedFor(p, i) = {}
    BY <1>3, <1>5 DEF Ended, Decided, InState
  <2>2. Cardinality(AcceptedFor(p, i)) = 0
    BY <2>1, FS_EmptySet
  <2> QED
    BY <1>3, <1>5, <2>2 DEF Decided, InState
<1> QED
  BY <1>4, <1>5

LEMMA ImpliesReturned == IInv => EveryPaymentBuysOrIsReturned
BY DEF IInv, NothingKept, EveryPaymentBuysOrIsReturned, Bargain

LEMMA ImpliesOneOwner == IInv => ReferenceBuysOneAttempt
<1> SUFFICES ASSUME IInv, NEW p \in Products, NEW q \in Products,
                    NEW i \in InState(products[p], {"purchased"}),
                    NEW j \in InState(products[q], {"purchased"}),
                    products[p].attempts[i].ref = products[q].attempts[j].ref
             PROVE  p = q /\ i = j
  BY DEF ReferenceBuysOneAttempt
<1>1. p = q
  BY DEF IInv, OwnersApart, OwnedReferences
<1> QED
  BY <1>1 DEF IInv, ProductsOK, Remembers, ReferencesDistinct, Bought

-----------------------------------------------------------------------------
(***************************************************************************)
(* Steps in which no event is accepted.                                    *)
(***************************************************************************)
LEMMA EndedStays ==
  ASSUME NEW p \in Products, NEW i, NEW ref,
         NEW state \in {"purchased", "payment_failed"},
         Follows(products[p], products'[p]), Ended(p, i, state, ref)
  PROVE  Ended(p, i, state, ref)'
BY DEF Ended, Follows, Terminal

(* The products only keep, and an event that is concluded in this step     *)
(* takes no effect, or none but a compensation.                            *)
LEMMA QuietStep ==
  ASSUME IInv, ProductsOK', InboxOK', HandlersOK',
         \A p \in Products : Keeps(products[p], products'[p]),
         \A e \in Events : IsConcluded(e) => inbox'[e] = inbox[e],
         \A e \in Events : IsConcluded(e)' /\ ~IsConcluded(e) =>
           /\ inbox'[e].code # "accepted"
           /\ inbox'[e].code # "attempt_not_found" /\ inbox'[e].command.outcome = "succeeded"
                /\ e \notin compensations'
                => Bargain(e)',
         compensations \subseteq compensations', compensations' \subseteq Events,
         \A e \in compensations' \ compensations :
           /\ IsConcluded(e)' /\ inbox'[e].command.outcome = "succeeded"
           /\ inbox'[e].code = "compensation_required"
  PROVE  IInv'
<1>1. ASSUME NEW e \in Events, IsConcluded(e)
      PROVE  IsConcluded(e)' /\ inbox'[e] = inbox[e] /\ inbox[e].command \in Commands
  BY <1>1, ConcludedRow, RowFields DEF IInv, IsConcluded
<1>2. ASSUME NEW e \in Events, Accepted(e)'
      PROVE  Accepted(e) /\ inbox'[e] = inbox[e] /\ inbox[e].command \in Commands
  BY <1>1, <1>2 DEF Accepted
<1>3. AcceptedApply'
  <2> SUFFICES ASSUME NEW e \in Events, Accepted(e)' PROVE Applied(e)'
    BY DEF AcceptedApply
  <2>1. Applied(e) /\ inbox'[e] = inbox[e]
    BY <1>2 DEF IInv, AcceptedApply
  <2>2. inbox[e].command.product \in Products
    BY <1>2, CommandFields
  <2> QED
    BY <2>1, <2>2, EndedStays DEF Applied, Keeps
<1>4. DecidedWereAccepted'
  <2> SUFFICES ASSUME NEW p \in Products, NEW i \in Decided(products'[p])
               PROVE  \E e \in Events : Accepted(e)' /\ About(e, p, i)'
    BY DEF DecidedWereAccepted
  <2>1. i \in Decided(products[p])
    BY DEF Keeps
  <2>2. PICK e \in Events : Accepted(e) /\ About(e, p, i)
    BY <2>1 DEF IInv, DecidedWereAccepted
  <2> QED
    BY <1>1, <2>2 DEF Accepted, About
<1>5. AcceptedOnce'
  <2> SUFFICES ASSUME NEW p \in Products, NEW i \in Nat, NEW e \in Events, NEW f \in Events,
                      Accepted(e)', About(e, p, i)', Accepted(f)', About(f, p, i)'
               PROVE  e = f
    BY DEF AcceptedOnce
  <2>1. Accepted(e) /\ About(e, p, i) /\ Accepted(f) /\ About(f, p, i)
    BY <1>2 DEF About
  <2> QED
    BY <2>1 DEF IInv, AcceptedOnce
<1>6. NothingKept'
  <2>1. ASSUME NEW e \in Events, IsConcluded(e)', inbox'[e].code # "attempt_not_found",
               inbox'[e].command.outcome = "succeeded", e \notin compensations'
        PROVE  Bargain(e)'
    <3>1. CASE IsConcluded(e)
      <4>1. Bargain(e) /\ inbox'[e] = inbox[e] /\ inbox[e].command.product \in Products
        BY <1>1, <2>1, <3>1, CommandFields DEF IInv, NothingKept
      <4> QED
        BY <4>1, EndedStays DEF Bargain, Keeps
    <3>2. CASE ~IsConcluded(e)
      BY <2>1, <3>2
    <3> QED
      BY <3>1, <3>2
  <2>2. ASSUME NEW e \in compensations'
        PROVE  /\ IsConcluded(e)' /\ inbox'[e].command.outcome = "succeeded"
               /\ inbox'[e].code = "compensation_required"
    <3>1. CASE e \in compensations
      BY <1>1, <3>1 DEF IInv, NothingKept
    <3> QED
      BY <3>1
  <2> QED
    BY <2>1, <2>2 DEF NothingKept
<1>7. OwnersApart'
  <2>1. \A p \in Products : OwnedReferences(products'[p]) \subseteq OwnedReferences(products[p])
    BY KeepsBought DEF OwnedReferences, Bought
  <2> QED
    BY <2>1 DEF IInv, OwnersApart
<1> QED
  BY <1>3, <1>4, <1>5, <1>6, <1>7 DEF IInv

(* An event is accepted, for an attempt that no event has decided.         *)
LEMMA AcceptStep ==
  ASSUME IInv, ProductsOK', InboxOK', HandlersOK',
         NEW e \in Events, NEW p \in Products, NEW i \in Nat,
         ~IsConcluded(e), Accepted(e)', inbox'[e].command = inbox[e].command,
         About(e, p, i),
         \A f \in Events \ {e} : inbox'[f] = inbox[f],
         UNCHANGED compensations,
         \A q \in Products \ {p} : products'[q] = products[q],
         Follows(products[p], products'[p]),
         i \notin Decided(products[p]),
         Decided(products'[p]) \subseteq Decided(products[p]) \cup {i},
         Applied(e)',
         NEW ref,
         ref \notin TakenElsewhere(p)
           \/ OwnedReferences(products'[p]) \subseteq OwnedReferences(products[p]),
         OwnedReferences(products'[p]) \subseteq OwnedReferences(products[p]) \cup {ref}
  PROVE  IInv'
<1>1. \A q \in Products : Follows(products[q], products'[q])
  BY KeepsAttempts DEF Keeps
<1>2. ASSUME NEW f \in Events, IsConcluded(f)
      PROVE  f # e /\ IsConcluded(f)' /\ inbox'[f] = inbox[f] /\ inbox[f].command \in Commands
  BY <1>2, ConcludedRow, RowFields DEF IInv, IsConcluded
<1>3. ASSUME NEW f \in Events, Accepted(f)', f # e
      PROVE  Accepted(f) /\ inbox'[f] = inbox[f] /\ inbox[f].command \in Commands
  BY <1>2, <1>3 DEF Accepted, IsConcluded
<1>4. ASSUME NEW f \in Events, Accepted(f)' PROVE Applied(f)'
  <2>1. CASE f = e
    BY <2>1
  <2>2. CASE f # e
    <3>1. Applied(f) /\ inbox'[f] = inbox[f]
      BY <1>3, <1>4, <2>2 DEF IInv, AcceptedApply
    <3>2. inbox[f].command.product \in Products
      BY <1>3, <1>4, <2>2, CommandFields
    <3> QED
      BY <1>1, <3>1, <3>2, EndedStays DEF Applied
  <2> QED
    BY <2>1, <2>2
<1>5. DecidedWereAccepted'
  <2> SUFFICES ASSUME NEW q \in Products, NEW j \in Decided(products'[q])
               PROVE  \E f \in Events : Accepted(f)' /\ About(f, q, j)'
    BY DEF DecidedWereAccepted
  <2>1. CASE q = p /\ j = i
    BY <2>1 DEF About
  <2>2. CASE j \in Decided(products[q])
    <3>1. PICK f \in Events : Accepted(f) /\ About(f, q, j)
      BY <2>2 DEF IInv, DecidedWereAccepted
    <3> QED
      BY <1>2, <3>1 DEF Accepted, About
  <2> QED
    BY <2>1, <2>2
<1>6. ASSUME NEW f \in Events, Accepted(f), About(f, p, i) PROVE FALSE
  BY <1>6 DEF IInv, AcceptedApply, Applied, About, Ended, Decided, InState
<1>7. AcceptedOnce'
  <2> SUFFICES ASSUME NEW q \in Products, NEW j \in Nat, NEW f \in Events, NEW g \in Events,
                      Accepted(f)', About(f, q, j)', Accepted(g)', About(g, q, j)'
               PROVE  f = g
    BY DEF AcceptedOnce
  <2>1. CASE f # e /\ g # e
    <3>1. Accepted(f) /\ About(f, q, j) /\ Accepted(g) /\ About(g, q, j)
      BY <1>3, <2>1 DEF About
    <3> QED
      BY <3>1 DEF IInv, AcceptedOnce
  <2>2. CASE f = e /\ g # e
    <3>1. q = p /\ j = i
      BY <2>2 DEF About
    <3>2. Accepted(g) /\ About(g, p, i)
      BY <1>3, <2>2, <3>1 DEF About
    <3> QED
      BY <1>6, <3>2
  <2>3. CASE f # e /\ g = e
    <3>1. q = p /\ j = i
      BY <2>3 DEF About
    <3>2. Accepted(f) /\ About(f, p, i)
      BY <1>3, <2>3, <3>1 DEF About
    <3> QED
      BY <1>6, <3>2
  <2> QED
    BY <2>1, <2>2, <2>3
<1>8. NothingKept'
  <2>1. ASSUME NEW f \in Events, IsConcluded(f)', inbox'[f].code # "attempt_not_found",
               inbox'[f].command.outcome = "succeeded", f \notin compensations'
        PROVE  Bargain(f)'
    <3>1. CASE f = e
      BY <2>1, <3>1 DEF Applied, Bargain
    <3>2. CASE f # e
      <4>1. Bargain(f) /\ inbox'[f] = inbox[f] /\ inbox[f].command.product \in Products
        BY <1>2, <2>1, <3>2, CommandFields DEF IInv, NothingKept, IsConcluded
      <4> QED
        BY <1>1, <4>1, EndedStays DEF Bargain
    <3> QED
      BY <3>1, <3>2
  <2>2. \A f \in compensations' :
          /\ IsConcluded(f)' /\ inbox'[f].command.outcome = "succeeded"
          /\ inbox'[f].code = "compensation_required"
    BY <1>2 DEF IInv, NothingKept
  <2> QED
    BY <2>1, <2>2 DEF IInv, NothingKept
<1>9. OwnersApart'
  <2>1. ASSUME NEW q \in Products \ {p}
        PROVE  OwnedReferences(products'[p]) \cap OwnedReferences(products'[q]) = {}
    <3>1. OwnedReferences(products[p]) \cap OwnedReferences(products[q]) = {}
      BY DEF IInv, OwnersApart
    <3>2. ref \notin TakenElsewhere(p) => ref \notin OwnedReferences(products[q])
      BY DEF TakenElsewhere
    <3> QED
      BY <3>1, <3>2
  <2> QED
    BY <2>1 DEF IInv, OwnersApart
<1> QED
  BY <1>4, <1>5, <1>7, <1>8, <1>9 DEF IInv, AcceptedApply

-----------------------------------------------------------------------------
(***************************************************************************)
(* What the parts of a step write.                                         *)
(***************************************************************************)
LEMMA OneProduct ==
  ASSUME ProductsOK, NEW p \in Products, NEW t, Good(t), Remembers(t),
         products' = [products EXCEPT ![p] = t]
  PROVE  /\ ProductsOK' /\ products'[p] = t
         /\ \A q \in Products \ {p} : products'[q] = products[q]
<1>1. /\ DOMAIN products' = Products
      /\ products' = [q \in Products |-> products'[q]]
      /\ products'[p] = t
      /\ \A q \in Products : q # p => products'[q] = products[q]
  BY DEF ProductsOK
<1>2. \A q \in Products : Good(products'[q]) /\ Remembers(products'[q])
  BY <1>1 DEF ProductsOK
<1> QED
  BY <1>1, <1>2 DEF ProductsOK

LEMMA ProductsStay ==
  ASSUME ProductsOK, UNCHANGED products
  PROVE  ProductsOK' /\ \A p \in Products : Keeps(products[p], products'[p])
BY KeepsAttempts DEF ProductsOK

LEMMA OneRow ==
  ASSUME InboxOK, NEW e \in Events, NEW row \in Row,
         inbox' = [inbox EXCEPT ![e] = row],
         row.token # NoHandler <=> row.status = "processing",
         row.code # "none" <=> row.status \in Concluded,
         row.status \in Concluded => row.left = 0
  PROVE  /\ InboxOK' /\ inbox'[e] = row /\ inbox'[e] # NoRow
         /\ \A f \in Events \ {e} : inbox'[f] = inbox[f]
<1>1. row # NoRow
  BY DEF Row, NoRow, Concluded
<1>2. inbox' \in [Events -> {NoRow} \cup Row]
  BY DEF InboxOK
<1>3. inbox'[e] = row /\ \A f \in Events : f # e => inbox'[f] = inbox[f]
  BY DEF InboxOK
<1> QED
  BY <1>1, <1>2, <1>3 DEF InboxOK

LEMMA ConcludeWrites ==
  ASSUME InboxOK, NEW e \in Events, inbox[e] # NoRow, ~IsConcluded(e),
         NEW code \in Codes \ {"none"}, Conclude(e, code)
  PROVE  /\ InboxOK' /\ inbox'[e] # NoRow /\ IsConcluded(e)'
         /\ inbox'[e].code = code /\ inbox'[e].command = inbox[e].command
         /\ \A f \in Events \ {e} : inbox'[f] = inbox[f]
         /\ compensations' = IF code = "compensation_required"
                             THEN compensations \cup {e} ELSE compensations
<1> DEFINE status == IF code \in {"attempt_not_found", "invalid_transition"}
                     THEN "rejected" ELSE "completed"
           row == [status |-> status, command |-> inbox[e].command, token |-> NoHandler,
                   left |-> 0, code |-> code]
<1>1. inbox[e] \in Row /\ inbox[e].command \in Commands
  BY RowFields
<1>2. status \in Concluded
  BY DEF Concluded
<1>3. inbox' = [inbox EXCEPT ![e] = row]
  <2> DEFINE written == [inbox[e] EXCEPT !.status = status, !.code = code,
                                         !.left = 0, !.token = NoHandler]
  <2>1. inbox' = [inbox EXCEPT ![e].status = status, ![e].code = code,
                               ![e].left = 0, ![e].token = NoHandler]
    BY DEF Conclude
  <2> HIDE DEF status
  <2>2. DOMAIN inbox = Events
    BY DEF InboxOK
  <2>3. inbox' = [inbox EXCEPT ![e] = written]
    BY <2>1, <2>2
  <2>4. written = row
    <3>1. written \in Row /\ row \in Row
      BY <1>1, <1>2 DEF Row
    <3>2. /\ written.status = row.status /\ written.command = row.command
          /\ written.token = row.token /\ written.left = row.left
          /\ written.code = row.code
      BY <1>1 DEF Row
    <3> HIDE DEF written, row
    <3> QED
      BY <3>1, <3>2 DEF Row
  <2> QED
    BY <2>3, <2>4
<1> HIDE DEF status
<1>4. row \in Row
  BY <1>1, <1>2 DEF Row
<1>5. /\ row.token = NoHandler /\ row.status \in Concluded /\ row.left = 0
      /\ row.code = code /\ row.status # "processing" /\ row.command = inbox[e].command
  BY <1>2 DEF Concluded
<1> HIDE DEF row
<1>6. /\ InboxOK' /\ inbox'[e] = row /\ inbox'[e] # NoRow
      /\ \A f \in Events \ {e} : inbox'[f] = inbox[f]
  BY <1>3, <1>4, <1>5, OneRow
<1>7. compensations' = IF code = "compensation_required"
                       THEN compensations \cup {e} ELSE compensations
  BY DEF Conclude, Compensation
<1> QED
  BY <1>5, <1>6, <1>7 DEF IsConcluded

(* A handler goes back, or to the failed step.                             *)
LEMMA HandlerLeaves ==
  ASSUME HandlersOK, NEW h \in Handlers, handlers[h] # Idle, Answered(h),
         \A e \in Events : inbox[e] # NoRow =>
           inbox'[e] # NoRow /\ inbox'[e].command = inbox[e].command
  PROVE  HandlersOK'
<1> DEFINE H == [step : {"claimed", "conflict", "failed"}, event : Events]
<1>1. handlers[h] \in H
  BY DEF HandlersOK
<1>2. PICK w \in {Idle} \cup H :
        /\ handlers' = [handlers EXCEPT ![h] = w]
        /\ w # Idle => w.event = handlers[h].event /\ w.step = "failed"
  <2>1. CASE handlers' = [handlers EXCEPT ![h] = Idle]
    BY <2>1
  <2>2. CASE handlers' = [handlers EXCEPT ![h].step = "failed"]
    <3>1. [handlers[h] EXCEPT !.step = "failed"] \in H
      BY <1>1
    <3>2. [handlers[h] EXCEPT !.step = "failed"].event = handlers[h].event
      BY <1>1
    <3>3. [handlers[h] EXCEPT !.step = "failed"].step = "failed"
      BY <1>1
    <3>4. handlers' = [handlers EXCEPT ![h] = [handlers[h] EXCEPT !.step = "failed"]]
      BY <1>1, <2>2 DEF HandlersOK
    <3> QED
      BY <3>1, <3>2, <3>3, <3>4
  <2> QED
    BY <2>1, <2>2 DEF Answered
<1>3. handlers' \in [Handlers -> {Idle} \cup H]
  BY <1>2 DEF HandlersOK
<1>4. /\ handlers'[h] = w
      /\ \A g \in Handlers : g # h => handlers'[g] = handlers[g]
  BY <1>2 DEF HandlersOK
<1>5. ASSUME NEW g \in Handlers, handlers'[g] # Idle
      PROVE  /\ inbox'[handlers'[g].event] # NoRow
             /\ handlers'[g].step = "conflict" =>
                  inbox'[handlers'[g].event].command.outcome = "succeeded"
  <2>1. CASE g = h
    BY <1>1, <1>2, <1>4, <1>5, <2>1 DEF HandlersOK
  <2>2. CASE g # h
    <3>1. handlers'[g] = handlers[g] /\ handlers[g].event \in Events
      BY <1>4, <1>5, <2>2 DEF HandlersOK
    <3> QED
      BY <1>5, <3>1 DEF HandlersOK
  <2> QED
    BY <2>1, <2>2
<1> QED
  BY <1>3, <1>5 DEF HandlersOK

-----------------------------------------------------------------------------
(***************************************************************************)
(* One lemma per action: the invariant is kept, and so are the answers.    *)
(***************************************************************************)
AnswersStay == \A e \in Events : IsConcluded(e) => inbox'[e] = inbox[e]

LEMMA InitIInv == Init => IInv
<1> SUFFICES ASSUME Init PROVE IInv
  OBVIOUS
<1>1. ASSUME NEW p \in Products
      PROVE  /\ Good(products[p]) /\ Remembers(products[p])
             /\ DOMAIN products[p].attempts = {}
  <2>1. products[p] = [stock |-> InitialStock, reserved |-> 0, next |-> 1, enabled |-> TRUE,
                       attempts |-> << >>, outbox |-> {}, failed |-> FALSE]
    BY DEF Init
  <2>2. Good(products[p]) /\ Remembers(products[p])
    BY <2>1, QueueAssumption, FreshIsGood
  <2> QED
    BY <2>1, <2>2
<1>2. ProductsOK
  BY <1>1 DEF Init, ProductsOK
<1>3. \A e \in Events : inbox[e] = NoRow /\ ~IsConcluded(e)
  BY DEF Init, NoRow, IsConcluded, Concluded
<1>4. \A p \in Products : Decided(products[p]) = {} /\ OwnedReferences(products[p]) = {}
  BY <1>1 DEF Decided, OwnedReferences, InState
<1>5. InboxOK /\ HandlersOK
  BY <1>3 DEF Init, InboxOK, HandlersOK
<1> QED
  BY <1>2, <1>3, <1>4, <1>5
  DEF Init, IInv, AcceptedApply, Accepted, DecidedWereAccepted, AcceptedOnce, NothingKept,
      OwnersApart

LEMMA DeliverStep ==
  ASSUME IInv, NEW h \in Handlers, NEW e \in Events, NEW c \in Commands, Deliver(h, e, c)
  PROVE  IInv' /\ AnswersStay
<1> DEFINE row == [status |-> "processing", command |-> c, token |-> h,
                   left |-> LeaseTTL, code |-> "none"]
           w == [step |-> "claimed", event |-> e]
<1>1. /\ inbox[e] = NoRow \/ Reclaimable(inbox[e], c)
      /\ inbox' = [inbox EXCEPT ![e] = row]
      /\ handlers' = [handlers EXCEPT ![h] = w]
      /\ UNCHANGED products /\ UNCHANGED compensations
  BY DEF Deliver
<1>2. row \in Row /\ row.status \notin Concluded /\ row.token # NoHandler
  BY TimingAssumption, HandlerAssumption DEF Row, Codes, Concluded
<1>3. ~IsConcluded(e) /\ (inbox[e] # NoRow => inbox[e].command = c)
  BY <1>1 DEF Reclaimable, IsConcluded, Concluded, NoRow
<1>4. row.status = "processing" /\ row.code = "none" /\ row.command = c
  OBVIOUS
<1> HIDE DEF row
<1>5. /\ InboxOK' /\ inbox'[e] = row /\ inbox'[e] # NoRow
      /\ \A f \in Events \ {e} : inbox'[f] = inbox[f]
  BY <1>1, <1>2, <1>4, OneRow DEF IInv
<1>6. \A f \in Events : inbox[f] # NoRow =>
        inbox'[f] # NoRow /\ inbox'[f].command = inbox[f].command
  BY <1>3, <1>4, <1>5
<1>7. HandlersOK'
  <2>1. handlers' \in [Handlers -> {Idle} \cup
          [step : {"claimed", "conflict", "failed"}, event : Events]]
    BY <1>1 DEF IInv, HandlersOK
  <2>2. ASSUME NEW g \in Handlers, handlers'[g] # Idle
        PROVE  /\ inbox'[handlers'[g].event] # NoRow
               /\ handlers'[g].step = "conflict" =>
                    inbox'[handlers'[g].event].command.outcome = "succeeded"
    <3>1. CASE g = h
      <4>1. handlers'[g] = w
        BY <1>1, <3>1 DEF IInv, HandlersOK
      <4> QED
        BY <1>5, <4>1
    <3>2. CASE g # h
      <4>1. handlers'[g] = handlers[g]
        BY <1>1, <3>2 DEF IInv, HandlersOK
      <4>2. handlers[g].event \in Events
        BY <2>2, <4>1 DEF IInv, HandlersOK
      <4> QED
        BY <1>6, <2>2, <4>1, <4>2 DEF IInv, HandlersOK
    <3> QED
      BY <3>1, <3>2
  <2> QED
    BY <2>1, <2>2 DEF HandlersOK
<1>8. ProductsOK' /\ \A p \in Products : Keeps(products[p], products'[p])
  BY <1>1, ProductsStay DEF IInv
<1>9. \A f \in Events : IsConcluded(f) => inbox'[f] = inbox[f]
  BY <1>3, <1>5
<1>10. \A f \in Events : ~ (IsConcluded(f)' /\ ~IsConcluded(f))
  BY <1>2, <1>5 DEF IsConcluded
<1>11. compensations' \subseteq Events
  BY <1>1 DEF IInv, NothingKept
<1> QED
  BY <1>1, <1>5, <1>7, <1>8, <1>9, <1>10, <1>11, QuietStep DEF AnswersStay

LEMMA ClaimFacts ==
  ASSUME IInv, NEW h \in Handlers, ClaimHolds(h)
  PROVE  /\ handlers[h] # Idle /\ EventOf(h) \in Events /\ inbox[EventOf(h)] # NoRow
         /\ ~IsConcluded(EventOf(h)) /\ inbox[EventOf(h)].command = CommandOf(h)
BY DEF IInv, HandlersOK, ClaimHolds, EventOf, CommandOf, Idle, IsConcluded, Concluded

(* A handler concludes its event without accepting it.                     *)
LEMMA QuietConclusion ==
  ASSUME IInv, NEW h \in Handlers, ClaimHolds(h), Answered(h),
         NEW e, e = EventOf(h), NEW c, c = CommandOf(h),
         NEW code \in Codes \ {"none", "accepted"}, Conclude(e, code),
         ProductsOK', \A p \in Products : Keeps(products[p], products'[p]),
         code = "compensation_required" => c.outcome = "succeeded",
         c.outcome = "succeeded" /\ code # "attempt_not_found"
           /\ code # "compensation_required"
           => Ended(c.product, c.attempt, "purchased", c.ref)'
  PROVE  IInv' /\ AnswersStay
<1>1. /\ handlers[h] # Idle /\ e \in Events /\ inbox[e] # NoRow
      /\ ~IsConcluded(e) /\ inbox[e].command = c
  BY ClaimFacts
<1>2. /\ InboxOK' /\ inbox'[e] # NoRow /\ IsConcluded(e)'
      /\ inbox'[e].code = code /\ inbox'[e].command = inbox[e].command
      /\ \A f \in Events \ {e} : inbox'[f] = inbox[f]
      /\ compensations' = IF code = "compensation_required"
                          THEN compensations \cup {e} ELSE compensations
  BY <1>1, ConcludeWrites DEF IInv
<1>3. /\ inbox'[e].command = c
      /\ code = "compensation_required" => c.outcome = "succeeded"
      /\ c.outcome = "succeeded" /\ code # "attempt_not_found"
           /\ code # "compensation_required" => Bargain(e)'
  BY <1>1, <1>2 DEF Bargain
<1>4. HandlersOK'
  BY <1>1, <1>2, HandlerLeaves DEF IInv
<1>5. \A f \in Events : IsConcluded(f) => inbox'[f] = inbox[f]
  BY <1>1, <1>2
<1>6. ASSUME NEW f \in Events, IsConcluded(f)', ~IsConcluded(f)
      PROVE  f = e
  BY <1>2, <1>6 DEF IsConcluded
<1>7. /\ compensations \subseteq compensations' /\ compensations' \subseteq Events
      /\ \A f \in compensations' \ compensations : f = e /\ code = "compensation_required"
      /\ code = "compensation_required" => e \in compensations'
  BY <1>1, <1>2 DEF IInv, NothingKept
<1>8. \A f \in Events : IsConcluded(f)' /\ ~IsConcluded(f) =>
        /\ inbox'[f].code # "accepted"
        /\ inbox'[f].code # "attempt_not_found" /\ inbox'[f].command.outcome = "succeeded"
             /\ f \notin compensations'
             => Bargain(f)'
  BY <1>2, <1>3, <1>6, <1>7
<1>9. \A f \in compensations' \ compensations :
        /\ IsConcluded(f)' /\ inbox'[f].command.outcome = "succeeded"
        /\ inbox'[f].code = "compensation_required"
  BY <1>2, <1>3, <1>7
<1> QED
  BY <1>2, <1>4, <1>5, <1>7, <1>8, <1>9, QuietStep DEF AnswersStay

LEMMA RejectUnknownStep ==
  ASSUME IInv, NEW h \in Handlers, RejectUnknown(h)
  PROVE  IInv' /\ AnswersStay
<1>1. /\ ClaimHolds(h) /\ Answered(h) /\ Conclude(EventOf(h), "attempt_not_found")
      /\ UNCHANGED products
  BY DEF RejectUnknown
<1>2. ProductsOK' /\ \A p \in Products : Keeps(products[p], products'[p])
  BY <1>1, ProductsStay DEF IInv
<1>3. "attempt_not_found" \in Codes \ {"none", "accepted"}
  BY DEF Codes
<1> QED
  BY <1>1, <1>2, <1>3, QuietConclusion

(* Which codes a payment can get.                                          *)
LEMMA PaymentCodes ==
  ASSUME NEW t, NEW i, NEW outcome \in {"succeeded", "failed"}, NEW ref, NEW taken
  PROVE  LET code == PaymentCode(t, i, outcome, ref, taken)
         IN  /\ code \in Codes \ {"none", "attempt_not_found"}
             /\ outcome = "succeeded" =>
                  code \in {"already_accepted", "accepted", "compensation_required"}
             /\ outcome = "failed" => code \notin {"already_accepted", "compensation_required"}
<1>1. CASE outcome = "succeeded"
  BY <1>1 DEF PaymentCode, Codes
<1>2. CASE outcome = "failed"
  BY <1>2 DEF PaymentCode, Codes
<1> QED
  BY <1>1, <1>2

LEMMA ApplyStep ==
  ASSUME IInv, NEW h \in Handlers, Apply(h)
  PROVE  IInv' /\ AnswersStay
<1> DEFINE taken(p) == TakenElsewhere(p)
<1>1. PICK e, c, p, t, after, code :
        /\ e = EventOf(h) /\ c = CommandOf(h) /\ p = c.product /\ t = products[p]
        /\ after = PaymentTx(t, c.attempt, c.outcome, c.ref, taken(p))
        /\ code = PaymentCode(Reconcile(t), c.attempt, c.outcome, c.ref, taken(p))
  OBVIOUS
<1>2. /\ ClaimHolds(h) /\ Known(c) /\ ~after.failed /\ Answered(h)
      /\ products' = [products EXCEPT ![p] = after]
      /\ Conclude(e, code)
  BY <1>1 DEF Apply
<1>3. /\ handlers[h] # Idle /\ e \in Events /\ inbox[e] # NoRow
      /\ ~IsConcluded(e) /\ inbox[e].command = c
  BY <1>1, <1>2, ClaimFacts
<1>4. /\ c \in Commands /\ p \in Products /\ c.attempt \in Nat
      /\ c.outcome \in {"succeeded", "failed"}
      /\ c.outcome = "succeeded" => c.ref \in References
      /\ c.outcome = "failed" => c.ref = NoReference
  BY <1>1, <1>3, RowFields, CommandFields DEF IInv
<1>5. Good(t) /\ Remembers(t) /\ c.attempt \in DOMAIN t.attempts
  BY <1>1, <1>2, <1>4 DEF IInv, ProductsOK, Known
<1>6. /\ code \in Codes \ {"none", "attempt_not_found"}
      /\ c.outcome = "succeeded" =>
           code \in {"already_accepted", "accepted", "compensation_required"}
      /\ c.outcome = "failed" => code \notin {"already_accepted", "compensation_required"}
  BY <1>1, <1>4, PaymentCodes
<1>7. /\ Good(after) /\ Remembers(after)
      /\ code # "accepted" => Keeps(t, after)
      /\ code = "accepted" =>
           /\ Follows(t, after)
           /\ Decided(after) \subseteq Decided(t) \cup {c.attempt}
           /\ c.attempt \notin Decided(t) /\ c.attempt \in DOMAIN after.attempts
           /\ after.attempts[c.attempt].state =
                IF c.outcome = "succeeded" THEN "purchased" ELSE "payment_failed"
           /\ c.outcome = "succeeded" =>
                /\ after.attempts[c.attempt].ref = c.ref
                /\ c.ref \notin taken(p)
                /\ OwnedReferences(after) \subseteq OwnedReferences(t) \cup {c.ref}
           /\ c.outcome = "failed" =>
                /\ after.attempts[c.attempt].ref = NoReference
                /\ OwnedReferences(after) \subseteq OwnedReferences(t)
      /\ code = "already_accepted" =>
           /\ c.attempt \in Bought(t) /\ t.attempts[c.attempt].ref = c.ref
  <2>1. Good(after)
    BY <1>1, <1>4, <1>5, PaymentSettles DEF Settled
  <2> QED
    BY <1>1, <1>4, <1>5, <2>1, PaymentDecides
<1>8. /\ ProductsOK' /\ products'[p] = after
      /\ \A q \in Products \ {p} : products'[q] = products[q]
  BY <1>2, <1>4, <1>7, OneProduct DEF IInv
<1>9. CASE code # "accepted"
  <2>1. \A q \in Products : Keeps(products[q], products'[q])
    BY <1>1, <1>7, <1>8, <1>9, KeepsAttempts
  <2>2. code = "already_accepted" => Ended(c.product, c.attempt, "purchased", c.ref)'
    <3>1. code = "already_accepted" =>
            /\ c.attempt \in DOMAIN t.attempts /\ t.attempts[c.attempt].state = "purchased"
            /\ t.attempts[c.attempt].ref = c.ref /\ Follows(t, after)
      BY <1>7, <1>9 DEF Bought, InState, Keeps
    <3> QED
      BY <1>1, <1>8, <3>1 DEF Ended, Follows, Terminal
  <2>3. c.outcome = "succeeded" /\ code # "attempt_not_found"
          /\ code # "compensation_required"
          => Ended(c.product, c.attempt, "purchased", c.ref)'
    BY <1>6, <1>9, <2>2
  <2>4. /\ ClaimHolds(h) /\ Answered(h) /\ Conclude(e, code)
        /\ code \in Codes \ {"none", "accepted"}
        /\ code = "compensation_required" => c.outcome = "succeeded"
        /\ e = EventOf(h) /\ c = CommandOf(h)
    BY <1>1, <1>2, <1>4, <1>6, <1>9
  <2> QED
    BY <1>8, <2>1, <2>3, <2>4, QuietConclusion
<1>10. CASE code = "accepted"
  <2>1. /\ InboxOK' /\ inbox'[e] # NoRow /\ IsConcluded(e)'
        /\ inbox'[e].code = code /\ inbox'[e].command = inbox[e].command
        /\ \A f \in Events \ {e} : inbox'[f] = inbox[f]
        /\ compensations' = compensations
    BY <1>2, <1>3, <1>6, <1>10, ConcludeWrites DEF IInv
  <2>2. HandlersOK'
    BY <1>2, <1>3, <2>1, HandlerLeaves DEF IInv
  <2>3. Accepted(e)' /\ About(e, p, c.attempt)
    BY <1>1, <1>3, <1>10, <2>1 DEF Accepted, About
  <2>4. Applied(e)'
    BY <1>1, <1>3, <1>4, <1>7, <1>8, <1>10, <2>1 DEF Applied, Ended
  <2>5. /\ OwnedReferences(after) \subseteq OwnedReferences(t) \cup {c.ref}
        /\ c.ref \notin taken(p) \/ OwnedReferences(after) \subseteq OwnedReferences(t)
    BY <1>4, <1>7, <1>10
  <2>6. IInv'
    BY <1>1, <1>3, <1>4, <1>7, <1>8, <1>10, <2>1, <2>2, <2>3, <2>4, <2>5, AcceptStep
  <2> QED
    BY <1>3, <2>1, <2>6 DEF AnswersStay
<1> QED
  BY <1>9, <1>10

LEMMA CompensateConflictStep ==
  ASSUME IInv, NEW h \in Handlers, CompensateConflict(h)
  PROVE  IInv' /\ AnswersStay
<1>1. PICK e, c, p, code : /\ e = EventOf(h) /\ c = CommandOf(h) /\ p = c.product
                           /\ code = "compensation_required"
  OBVIOUS
<1>2. /\ ClaimHolds(h) /\ Answered(h) /\ Conclude(e, code)
      /\ products' = [products EXCEPT ![p] = Reconcile(@)]
      /\ handlers[h].step = "conflict"
  BY <1>1 DEF CompensateConflict
<1>3. /\ handlers[h] # Idle /\ e \in Events /\ inbox[e] # NoRow
      /\ inbox[e].command = c /\ c.outcome = "succeeded"
  <2>1. handlers[h] # Idle /\ e \in Events /\ inbox[e] # NoRow /\ inbox[e].command = c
    BY <1>1, <1>2, ClaimFacts
  <2>2. e = handlers[h].event
    BY <1>1 DEF EventOf
  <2> QED
    BY <1>2, <2>1, <2>2 DEF IInv, HandlersOK
<1>4. p \in Products
  BY <1>1, <1>3, RowFields, CommandFields DEF IInv
<1>5. Good(products[p]) /\ Remembers(products[p])
  BY <1>4 DEF IInv, ProductsOK
<1>6. /\ Good(Reconcile(products[p])) /\ Keeps(products[p], Reconcile(products[p]))
      /\ Remembers(Reconcile(products[p]))
  BY <1>5, FullReconcileKeepsNames, ReconcileKeeps, KeepsRemembering DEF Settled
<1>7. products' = [products EXCEPT ![p] = Reconcile(products[p])]
  BY <1>2, <1>4 DEF IInv, ProductsOK
<1>8. /\ ProductsOK' /\ products'[p] = Reconcile(products[p])
      /\ \A q \in Products \ {p} : products'[q] = products[q]
  BY <1>4, <1>6, <1>7, OneProduct DEF IInv
<1>9. \A q \in Products : Keeps(products[q], products'[q])
  BY <1>6, <1>8, KeepsAttempts
<1>10. /\ code \in Codes \ {"none", "accepted"}
       /\ ~ (code # "attempt_not_found" /\ code # "compensation_required")
  BY <1>1 DEF Codes
<1>11. c.outcome = "succeeded" /\ code # "attempt_not_found"
         /\ code # "compensation_required"
         => Ended(c.product, c.attempt, "purchased", c.ref)'
  BY <1>10
<1>12. /\ ClaimHolds(h) /\ Answered(h) /\ Conclude(e, code) /\ code \in Codes \ {"none", "accepted"}
       /\ code = "compensation_required" => c.outcome = "succeeded"
       /\ e = EventOf(h) /\ c = CommandOf(h)
  BY <1>1, <1>2, <1>3, <1>10
<1> QED
  BY <1>8, <1>9, <1>11, <1>12, QuietConclusion

(* Nothing is written to the inbox.                                        *)
LEMMA InboxStays ==
  ASSUME IInv, UNCHANGED <<inbox, compensations>>, ProductsOK', HandlersOK',
         \A p \in Products : Keeps(products[p], products'[p])
  PROVE  IInv' /\ AnswersStay
<1>1. InboxOK'
  BY DEF IInv, InboxOK
<1>2. \A e \in Events : IsConcluded(e)' => IsConcluded(e)
  BY DEF IsConcluded
<1>3. compensations' \subseteq Events
  BY DEF IInv, NothingKept
<1> QED
  BY <1>1, <1>2, <1>3, QuietStep DEF AnswersStay

(* The steps of a handler that writes nothing.                             *)
LEMMA HandlerStep ==
  ASSUME IInv, NEW h \in Handlers,
         MeetUniqueIndex(h) \/ Superseded(h) \/ Fail(h) \/ Crash(h)
  PROVE  IInv' /\ AnswersStay
<1>1. UNCHANGED products /\ UNCHANGED <<inbox, compensations>>
  BY DEF MeetUniqueIndex, Superseded, Fail, Crash
<1>2. ProductsOK' /\ \A p \in Products : Keeps(products[p], products'[p])
  BY <1>1, ProductsStay DEF IInv
<1>3. CASE Superseded(h) \/ Fail(h) \/ Crash(h)
  <2>1. handlers[h] # Idle /\ Answered(h)
    BY <1>3 DEF Superseded, Fail, Crash, Answered, Idle
  <2>2. HandlersOK'
    BY <1>1, <2>1, HandlerLeaves DEF IInv
  <2> QED
    BY <1>1, <1>2, <2>2, InboxStays
<1>4. CASE MeetUniqueIndex(h)
  <2> DEFINE e == handlers[h].event
             w == [step |-> "conflict", event |-> e]
  <2>1. /\ handlers[h] # Idle /\ CommandOf(h).outcome = "succeeded"
        /\ handlers' = [handlers EXCEPT ![h].step = "conflict"]
    BY <1>4 DEF MeetUniqueIndex, Idle
  <2>2. handlers[h] \in [step : {"claimed", "conflict", "failed"}, event : Events]
    BY <2>1 DEF IInv, HandlersOK
  <2>3. handlers' = [handlers EXCEPT ![h] = w]
    <3>1. handlers' = [handlers EXCEPT ![h] = [handlers[h] EXCEPT !.step = "conflict"]]
      BY <2>1 DEF IInv, HandlersOK
    <3>2. [handlers[h] EXCEPT !.step = "conflict"] = w
      BY <2>2
    <3> QED
      BY <3>1, <3>2
  <2>4. e \in Events /\ inbox[e] # NoRow /\ inbox[e].command.outcome = "succeeded"
    BY <2>1, <2>2 DEF IInv, HandlersOK, CommandOf, EventOf
  <2> HIDE DEF e
  <2>5. handlers' \in [Handlers -> {Idle} \cup
          [step : {"claimed", "conflict", "failed"}, event : Events]]
    BY <2>3, <2>4 DEF IInv, HandlersOK
  <2>6. ASSUME NEW g \in Handlers, handlers'[g] # Idle
        PROVE  /\ inbox'[handlers'[g].event] # NoRow
               /\ handlers'[g].step = "conflict" =>
                    inbox'[handlers'[g].event].command.outcome = "succeeded"
    <3>1. CASE g = h
      <4>1. handlers'[g] = w
        BY <2>3, <3>1 DEF IInv, HandlersOK
      <4> QED
        BY <1>1, <2>4, <4>1
    <3>2. CASE g # h
      <4>1. handlers'[g] = handlers[g]
        BY <2>3, <3>2 DEF IInv, HandlersOK
      <4> QED
        BY <1>1, <2>6, <4>1 DEF IInv, HandlersOK
    <3> QED
      BY <3>1, <3>2
  <2>7. HandlersOK'
    BY <2>5, <2>6 DEF HandlersOK
  <2> QED
    BY <1>1, <1>2, <2>7, InboxStays
<1> QED
  BY <1>3, <1>4

LEMMA ScheduleRetryStep ==
  ASSUME IInv, NEW h \in Handlers, ScheduleRetry(h)
  PROVE  IInv' /\ AnswersStay
<1>1. /\ handlers[h] # Idle /\ Answered(h) /\ UNCHANGED products /\ UNCHANGED compensations
  BY DEF ScheduleRetry, Idle, Answered
<1>2. ProductsOK' /\ \A p \in Products : Keeps(products[p], products'[p])
  BY <1>1, ProductsStay DEF IInv
<1>3. CASE ~MayReschedule(h)
  <2>1. UNCHANGED <<inbox, compensations>>
    BY <1>1, <1>3 DEF ScheduleRetry
  <2>2. HandlersOK'
    BY <1>1, <2>1, HandlerLeaves DEF IInv
  <2> QED
    BY <1>2, <2>1, <2>2, InboxStays
<1>4. CASE MayReschedule(h)
  <2>1. PICK e : e = EventOf(h)
    OBVIOUS
  <2>2. /\ ClaimHolds(h)
        /\ inbox' = [inbox EXCEPT ![e].status = "retry", ![e].left = RetryBackoff,
                                  ![e].token = NoHandler]
    BY <1>4, <2>1 DEF ScheduleRetry, MayReschedule
  <2>3. e \in Events /\ inbox[e] # NoRow /\ ~IsConcluded(e)
    BY <2>1, <2>2, ClaimFacts
  <2>4. inbox[e] \in Row /\ inbox[e].code = "none"
    BY <2>3, RowFields DEF IInv, InboxOK, IsConcluded
  <2> DEFINE row == [inbox[e] EXCEPT !.status = "retry", !.left = RetryBackoff,
                                     !.token = NoHandler]
  <2>5. inbox' = [inbox EXCEPT ![e] = row]
    BY <2>2, <2>3 DEF IInv, InboxOK
  <2>6. row \in Row
    BY <2>4, TimingAssumption DEF Row
  <2>7. /\ row.status = "retry" /\ row.token = NoHandler /\ row.code = "none"
        /\ row.command = inbox[e].command
    BY <2>4 DEF Row
  <2> HIDE DEF row
  <2>8. row.status \notin Concluded /\ row.status # "processing"
    BY <2>7 DEF Concluded
  <2>9. /\ InboxOK' /\ inbox'[e] = row /\ inbox'[e] # NoRow
        /\ \A f \in Events \ {e} : inbox'[f] = inbox[f]
    BY <2>3, <2>5, <2>6, <2>7, <2>8, OneRow DEF IInv
  <2>10. HandlersOK'
    BY <1>1, <2>7, <2>9, HandlerLeaves DEF IInv
  <2>11. \A f \in Events : IsConcluded(f) => inbox'[f] = inbox[f]
    BY <2>3, <2>9
  <2>12. \A f \in Events : ~ (IsConcluded(f)' /\ ~IsConcluded(f))
    BY <2>8, <2>9 DEF IsConcluded
  <2>13. compensations' \subseteq Events
    BY <1>1 DEF IInv, NothingKept
  <2> QED
    BY <1>1, <1>2, <2>9, <2>10, <2>11, <2>12, <2>13, QuietStep DEF AnswersStay
<1> QED
  BY <1>3, <1>4

LEMMA QueueStep ==
  ASSUME IInv, NEW p \in Products, Queue(p)
  PROVE  IInv' /\ AnswersStay
<1>1. PICK t, t2 : /\ t = products[p] /\ t2 \in QueueTransactions(t) /\ ~t2.failed
                   /\ products' = [products EXCEPT ![p] = t2]
  BY DEF Queue
<1>2. UNCHANGED <<inbox, compensations>> /\ UNCHANGED handlers
  BY DEF Queue
<1>3. Good(t) /\ Remembers(t)
  BY <1>1 DEF IInv, ProductsOK
<1>4. Percent \in Nat /\ BatchLimit \in Nat
  BY QueueAssumption
<1>5. Good(t2) /\ Keeps(t, t2)
  <2>1. CASE \E u \in Users, k \in Keys : t2 = JoinTx(t, u, k, Percent)
    <3>1. PICK u \in Users, k \in Keys : t2 = JoinTx(t, u, k, Percent)
      BY <2>1
    <3>2. t2 = t \/ t2.failed \/ Settled(t2)
      BY <1>3, <1>4, <3>1, JoinSettles
    <3> QED
      BY <1>1, <1>3, <3>1, <3>2, JoinKeeps DEF Settled
  <2>2. CASE \E i \in DOMAIN t.attempts, u \in Users : t2 = StartCheckoutTx(t, i, u)
    BY <1>3, <2>2, StartCheckoutSettles, StartCheckoutKeeps DEF Settled
  <2>3. CASE \E u \in Users : t2 = CancelTx(t, u)
    BY <1>3, <2>3, CancelSettles, CancelKeeps DEF Settled
  <2>4. CASE t2 = Reconcile(t)
    BY <1>3, <2>4, FullReconcileKeepsNames, ReconcileKeeps DEF Settled
  <2>5. CASE t2 = ReconcileBounded(t, BatchLimit)
    BY <1>3, <1>4, <2>5, ReconcileKeepsGood, ReconcileBoundedKeeps
  <2> QED
    BY <1>1, <2>1, <2>2, <2>3, <2>4, <2>5 DEF QueueTransactions
<1>6. Remembers(t2)
  BY <1>3, <1>5, KeepsRemembering
<1>7. /\ ProductsOK' /\ products'[p] = t2
      /\ \A q \in Products \ {p} : products'[q] = products[q]
  BY <1>1, <1>5, <1>6, OneProduct DEF IInv
<1>8. \A q \in Products : Keeps(products[q], products'[q])
  BY <1>1, <1>5, <1>7, KeepsAttempts
<1>9. HandlersOK'
  BY <1>2 DEF IInv, HandlersOK
<1> QED
  BY <1>2, <1>7, <1>8, <1>9, InboxStays

LEMMA AgingKeeps ==
  ASSUME NEW t, Good(t)
  PROVE  Good(Aged(t)) /\ (AtRest(t) => Keeps(t, Aged(t)))
<1> DEFINE later == [i \in DOMAIN t.attempts |->
                       [t.attempts[i] EXCEPT !.left = Sooner(@)]]
<1>1. Aged(t) = [t EXCEPT !.attempts = later]
  BY DEF Aged, Good, WellFormed
<1>2. ASSUME NEW i \in DOMAIN t.attempts
      PROVE  /\ later[i] \in Attempt
             /\ later[i].user = t.attempts[i].user /\ later[i].key = t.attempts[i].key
             /\ later[i].state = t.attempts[i].state /\ later[i].ref = t.attempts[i].ref
             /\ t.attempts[i].left = 0 => later[i] = t.attempts[i]
  <2> DEFINE n == Sooner(t.attempts[i].left)
  <2>1. t.attempts[i] \in Attempt
    BY Fields DEF Good
  <2>2. later[i] = [t.attempts[i] EXCEPT !.left = n]
    OBVIOUS
  <2>3. n \in Nat /\ (t.attempts[i].left = 0 => n = t.attempts[i].left)
    BY <2>1 DEF Attempt, Sooner
  <2> HIDE DEF later, n
  <2> QED
    BY <2>1, <2>2, <2>3 DEF Attempt
<1>3. DOMAIN later = DOMAIN t.attempts /\ later = [i \in DOMAIN t.attempts |-> later[i]]
  OBVIOUS
<1> HIDE DEF later
<1> QED
  BY <1>1, <1>2, <1>3, TimePasses

LEMMA TickStep ==
  ASSUME IInv, Tick
  PROVE  IInv' /\ AnswersStay
<1>1. /\ products' = [p \in Products |-> Aged(products[p])]
      /\ UNCHANGED compensations /\ UNCHANGED handlers
  BY DEF Tick
<1>2. ASSUME NEW p \in Products
      PROVE  /\ Good(products'[p]) /\ Remembers(products'[p])
             /\ Keeps(products[p], products'[p])
  <2>1. Good(products[p]) /\ Remembers(products[p])
    BY DEF IInv, ProductsOK
  <2>2. Good(Aged(products[p])) /\ Keeps(products[p], Aged(products[p]))
    BY <2>1, AgingKeeps DEF Remembers
  <2>3. Remembers(Aged(products[p]))
    BY <2>1, <2>2, KeepsRemembering
  <2> QED
    BY <1>1, <2>2, <2>3
<1>3. ProductsOK'
  BY <1>1, <1>2 DEF ProductsOK
<1>4. ASSUME NEW e \in Events, inbox[e] # NoRow
      PROVE  /\ inbox'[e] \in Row /\ inbox'[e] # NoRow
             /\ inbox'[e].status = inbox[e].status /\ inbox'[e].code = inbox[e].code
             /\ inbox'[e].token = inbox[e].token /\ inbox'[e].command = inbox[e].command
             /\ inbox[e].left = 0 => inbox'[e] = inbox[e]
  <2> DEFINE n == Sooner(inbox[e].left)
  <2>1. inbox[e] \in Row
    BY <1>4, RowFields DEF IInv
  <2>2. inbox'[e] = [inbox[e] EXCEPT !.left = n]
    BY <1>4 DEF Tick
  <2>3. n \in Nat /\ (inbox[e].left = 0 => n = inbox[e].left)
    BY <2>1 DEF Row, Sooner
  <2> HIDE DEF n
  <2>4. /\ inbox'[e] \in Row
        /\ inbox'[e].status = inbox[e].status /\ inbox'[e].code = inbox[e].code
        /\ inbox'[e].token = inbox[e].token /\ inbox'[e].command = inbox[e].command
        /\ inbox'[e].left = n
    BY <2>1, <2>2, <2>3 DEF Row
  <2>5. inbox'[e] # NoRow
    BY <2>4 DEF Row, NoRow, Concluded
  <2>6. inbox[e].left = 0 => inbox'[e] = inbox[e]
    BY <2>1, <2>2, <2>3 DEF Row
  <2> QED
    BY <2>4, <2>5, <2>6
<1>5. \A e \in Events : inbox[e] = NoRow => inbox'[e] = NoRow
  BY DEF Tick
<1>6. InboxOK'
  <2>1. \A e \in Events : inbox'[e] \in {NoRow} \cup Row
    BY <1>4, <1>5
  <2>2. inbox' = [e \in Events |-> inbox'[e]]
    BY DEF Tick
  <2>3. inbox' \in [Events -> {NoRow} \cup Row]
    BY <2>1, <2>2
  <2>4. ASSUME NEW e \in Events, inbox'[e] # NoRow
        PROVE  /\ inbox'[e].token # NoHandler <=> inbox'[e].status = "processing"
               /\ inbox'[e].code # "none" <=> inbox'[e].status \in Concluded
               /\ inbox'[e].status \in Concluded => inbox'[e].left = 0
    BY <1>4, <1>5, <2>4 DEF IInv, InboxOK
  <2> QED
    BY <2>3, <2>4 DEF InboxOK
<1>7. HandlersOK'
  <2>1. \A h \in Handlers : handlers[h] # Idle => handlers[h].event \in Events
    BY DEF IInv, HandlersOK
  <2> QED
    BY <1>1, <1>4, <2>1 DEF IInv, HandlersOK
<1>8. \A e \in Events : IsConcluded(e) => inbox'[e] = inbox[e]
  BY <1>4, ConcludedRow DEF IInv, InboxOK, IsConcluded
<1>9. \A e \in Events : IsConcluded(e)' => IsConcluded(e)
  BY <1>4, <1>5 DEF IsConcluded
<1>10. compensations' \subseteq Events
  BY <1>1 DEF IInv, NothingKept
<1> QED
  BY <1>1, <1>2, <1>3, <1>6, <1>7, <1>8, <1>9, <1>10, QuietStep DEF AnswersStay

LEMMA NextStep ==
  ASSUME IInv, Next
  PROVE  IInv' /\ AnswersStay
<1>1. CASE \E h \in Handlers : Handle(h)
  <2>1. PICK h \in Handlers : Handle(h)
    BY <1>1
  <2> QED
    BY <2>1, DeliverStep, RejectUnknownStep, ApplyStep, CompensateConflictStep,
       HandlerStep, ScheduleRetryStep DEF Handle
<1>2. CASE \E p \in Products : Queue(p)
  BY <1>2, QueueStep
<1>3. CASE Tick
  BY <1>3, TickStep
<1> QED
  BY <1>1, <1>2, <1>3 DEF Next

LEMMA StutterStep ==
  ASSUME IInv, UNCHANGED vars
  PROVE  IInv'
<1>1. /\ UNCHANGED products /\ UNCHANGED inbox
      /\ UNCHANGED compensations /\ UNCHANGED handlers
  BY DEF vars
<1>2. ProductsOK' /\ \A p \in Products : Keeps(products[p], products'[p])
  BY <1>1, ProductsStay DEF IInv
<1>3. HandlersOK'
  BY <1>1 DEF IInv, HandlersOK
<1> QED
  BY <1>1, <1>2, <1>3, InboxStays

-----------------------------------------------------------------------------
THEOREM InvariantHolds == Spec => []IInv
<1>1. Init => IInv
  BY InitIInv
<1>2. IInv /\ [Next]_vars => IInv'
  BY NextStep, StutterStep
<1> QED
  BY <1>1, <1>2, PTL DEF Spec

(* The CHECK constraints of payment_inbox and the reservation counters     *)
(* hold of everything the handlers and the queue commit.                   *)
THEOREM TypeCorrect == Spec => []TypeOK
<1>1. IInv => TypeOK
  BY ImpliesType
<1> QED
  BY <1>1, InvariantHolds, PTL

(* ProcessPaymentClaim applies an event once, whatever is redelivered,     *)
(* retried, taken over, crashed or reported as failed after its commit.    *)
THEOREM PaymentsApplyOnce == Spec => []EveryPaymentAppliesOnce
<1>1. IInv => EveryPaymentAppliesOnce
  BY ImpliesOnce
<1> QED
  BY <1>1, InvariantHolds, PTL

(* A succeeded payment bought its attempt or is owed a compensation.       *)
THEOREM PaymentsBuyOrReturn == Spec => []EveryPaymentBuysOrIsReturned
<1>1. IInv => EveryPaymentBuysOrIsReturned
  BY ImpliesReturned
<1> QED
  BY <1>1, InvariantHolds, PTL

(* The unique index on payment references and the search under one         *)
(* product's lock together give each reference one attempt in the shop.    *)
THEOREM ReferencesHaveOneOwner == Spec => []ReferenceBuysOneAttempt
<1>1. IInv => ReferenceBuysOneAttempt
  BY ImpliesOneOwner
<1> QED
  BY <1>1, InvariantHolds, PTL

(* Nothing writes to a concluded row: the claim's token is checked inside  *)
(* the transaction that concludes, and inside the one that retries.        *)
THEOREM AnswersNeverChange == Spec => AnswersAreFinal
<1>1. IInv /\ [Next]_vars =>
        [\A e \in Events : IsConcluded(e) => inbox'[e] = inbox[e]]_vars
  BY NextStep DEF AnswersStay
<1> QED
  BY <1>1, InvariantHolds, PTL DEF Spec, AnswersAreFinal
-----------------------------------------------------------------------------
(***************************************************************************)
(* Refinement.  Instantiating ProductQueue makes copies of the operators   *)
(* of QueueTransaction.  They are the same operators.                      *)
(***************************************************************************)
LEMMA SameWork ==
  ASSUME NEW p
  PROVE  \A t : Queues(p)!HasReconciliationWork(t) <=> HasReconciliationWork(t)
BY DEF Queues!HasReconciliationWork, Queues!Due, Queues!Holders, Queues!Waiting,
       Queues!InState, Queues!Reserving,
       HasReconciliationWork, Due, Holders, Waiting, InState, Reserving

LEMMA SameReconcileBounded ==
  ASSUME NEW p
  PROVE  \A t, limit : Queues(p)!ReconcileBounded(t, limit) = ReconcileBounded(t, limit)
BY DEF Queues!ReconcileBounded, Queues!ToExpire, Queues!ToSellOut, Queues!ToInvite,
       Queues!FirstN, Queues!Budget, Queues!StillHeld, Queues!Smaller, Queues!Announced,
       Queues!Moved, Queues!ExpiredState, Queues!Consistent, Queues!Due, Queues!Holders,
       Queues!Waiting, Queues!InState, Queues!Reserving, Queues!Cardinality,
       ReconcileBounded, ToExpire, ToSellOut, ToInvite, FirstN, Budget, StillHeld,
       Smaller, Announced, Moved, ExpiredState, Consistent, Due, Holders, Waiting,
       InState, Reserving, Cardinality

LEMMA SameReconcile ==
  ASSUME NEW p
  PROVE  \A t : Queues(p)!Reconcile(t) = Reconcile(t)
BY SameReconcileBounded
   DEF Queues!Reconcile, Queues!InState, Queues!Active, Queues!Reserving, Queues!Cardinality,
       Reconcile, InState, Active, Reserving, Cardinality

LEMMA SameStartCheckout ==
  ASSUME NEW p
  PROVE  \A t, i, u : Queues(p)!StartCheckoutTx(t, i, u) = StartCheckoutTx(t, i, u)
BY SameReconcile DEF Queues!StartCheckoutTx, Queues!Moved, StartCheckoutTx, Moved

LEMMA SameReleased ==
  ASSUME NEW p
  PROVE  \A t, i, state : Queues(p)!Released(t, i, state) = Released(t, i, state)
BY DEF Queues!Released, Queues!Holders, Queues!InState, Queues!Reserving, Queues!Moved,
       Released, Holders, InState, Reserving, Moved

LEMMA SameCancel ==
  ASSUME NEW p
  PROVE  \A t, u : Queues(p)!CancelTx(t, u) = CancelTx(t, u)
<1>1. \A t, u : Queues(p)!Cancellable(t, u) = Cancellable(t, u)
  BY DEF Queues!Cancellable, Queues!Latest, Queues!OfUser, Queues!InState, Queues!Active,
         Queues!Reserving, Cancellable, Latest, OfUser, InState, Active, Reserving
<1>2. \A t, u : Queues(p)!ToCancel(t, u) = ToCancel(t, u)
  BY DEF Queues!ToCancel, Queues!Cancellable, Queues!Latest, Queues!OfUser, Queues!InState,
         Queues!Active, Queues!Reserving,
         ToCancel, Cancellable, Latest, OfUser, InState, Active, Reserving
<1> QED
  BY <1>1, <1>2, SameReleased, SameReconcile DEF Queues!CancelTx, CancelTx

LEMMA SamePayment ==
  ASSUME NEW p
  PROVE  \A t, i, outcome, ref, taken :
           Queues(p)!PaymentTx(t, i, outcome, ref, taken) = PaymentTx(t, i, outcome, ref, taken)
<1>1. \A t, i, ref : Queues(p)!Purchased(t, i, ref) = Purchased(t, i, ref)
  BY DEF Queues!Purchased, Queues!Moved, Purchased, Moved
<1>2. \A t, i, outcome, ref, taken :
        Queues(p)!PaymentCode(t, i, outcome, ref, taken) = PaymentCode(t, i, outcome, ref, taken)
  BY DEF Queues!PaymentCode, Queues!ReferenceFree, Queues!OwnedReferences, Queues!InState,
         PaymentCode, ReferenceFree, OwnedReferences, InState
<1> QED
  BY <1>1, <1>2, SameReleased, SameReconcile DEF Queues!PaymentTx, PaymentTx

LEMMA SameJoin ==
  ASSUME NEW p
  PROVE  \A t, u, k, percent : Queues(p)!JoinTx(t, u, k, percent) = JoinTx(t, u, k, percent)
<1>1. \A t, u, k : Queues(p)!Replayed(t, u, k) <=> Replayed(t, u, k)
  BY DEF Queues!Replayed, Queues!OfUser, Replayed, OfUser
<1>2. \A t, u : Queues(p)!ActiveOf(t, u) = ActiveOf(t, u)
  BY DEF Queues!ActiveOf, Queues!OfUser, Queues!InState, Queues!Active, Queues!Reserving,
         ActiveOf, OfUser, InState, Active, Reserving
<1>3. \A t, i : Queues(p)!Effective(t, i) <=> Effective(t, i)
  BY DEF Queues!Effective, Queues!Reserving, Effective, Reserving
<1>4. \A t, u, k, percent :
        Queues(p)!CreateAttempt(t, u, k, percent) = CreateAttempt(t, u, k, percent)
  BY DEF Queues!CreateAttempt, Queues!Appended, Queues!WaitingCapacity, Queues!Waiting,
         Queues!InState, Queues!Cardinality,
         CreateAttempt, Appended, WaitingCapacity, Waiting, InState, Cardinality
<1>5. \A t, u : Queues(p)!Refreshed(t, u) = Refreshed(t, u)
  BY <1>2, SameReconcile DEF Queues!Refreshed, Refreshed
<1>6. \A t, u, k, percent : Queues(p)!AdmitTx(t, u, k, percent) = AdmitTx(t, u, k, percent)
  BY <1>2, <1>4, SameReconcile DEF Queues!AdmitTx, AdmitTx
<1> QED
  BY <1>1, <1>2, <1>3, <1>5, <1>6 DEF Queues!JoinTx, JoinTx

-----------------------------------------------------------------------------
(***************************************************************************)
(* Every step is, seen from a product, a step of its queue or none.        *)
(***************************************************************************)
(* The initial states map to initial states.                               *)
LEMMA InitIsInit ==
  ASSUME Init, NEW p \in Products
  PROVE  Queues(p)!Init
<1>1. products[p] = [stock |-> InitialStock, reserved |-> 0, next |-> 1, enabled |-> TRUE,
                     attempts |-> << >>, outbox |-> {}, failed |-> FALSE]
  BY DEF Init
<1>2. << >> = [k \in {} |-> Queues(p)!NoAdjustment]
  OBVIOUS
<1> QED
  BY <1>1, <1>2 DEF Queues!Init

(* What a request commits.                                                 *)
LEMMA CommittedRequest ==
  ASSUME NEW p \in Products, NEW t2, ~t2.failed, products'[p] = t2,
         \/ \E u \in Users, k \in Keys : t2 = JoinTx(products[p], u, k, Percent)
         \/ \E i \in DOMAIN products[p].attempts, u \in Users :
              t2 = StartCheckoutTx(products[p], i, u)
         \/ \E u \in Users : t2 = CancelTx(products[p], u)
         \/ t2 = Reconcile(products[p])
         \/ \E i \in DOMAIN products[p].attempts, ref \in References :
              t2 = PaymentTx(products[p], i, "succeeded", ref, {})
         \/ \E i \in DOMAIN products[p].attempts :
              t2 = PaymentTx(products[p], i, "failed", NoReference, {})
  PROVE  Queues(p)!Request
<1>1. CASE \E u \in Users, k \in Keys : t2 = JoinTx(products[p], u, k, Percent)
  <2>1. PICK u \in Users, k \in Keys : t2 = JoinTx(products[p], u, k, Percent)
    BY <1>1
  <2>2. Queues(p)!Join(u, k)
    BY <2>1, SameJoin DEF Queues!Join, Queues!Commit
  <2> QED
    BY <2>2 DEF Queues!Request
<1>2. CASE \E i \in DOMAIN products[p].attempts, u \in Users :
             t2 = StartCheckoutTx(products[p], i, u)
  BY <1>2, SameStartCheckout DEF Queues!Request, Queues!StartCheckout, Queues!Commit
<1>3. CASE \E u \in Users : t2 = CancelTx(products[p], u)
  BY <1>3, SameCancel DEF Queues!Request, Queues!Cancel, Queues!Commit
<1>4. CASE t2 = Reconcile(products[p])
  BY <1>4, SameReconcile DEF Queues!Request, Queues!FindCurrent, Queues!Commit
<1>5. CASE \E i \in DOMAIN products[p].attempts, ref \in References :
             t2 = PaymentTx(products[p], i, "succeeded", ref, {})
  BY <1>5, SamePayment DEF Queues!Request, Queues!ApplyPayment, Queues!Commit
<1>6. CASE \E i \in DOMAIN products[p].attempts :
             t2 = PaymentTx(products[p], i, "failed", NoReference, {})
  BY <1>6, SamePayment DEF Queues!Request, Queues!ApplyPayment, Queues!Commit
<1> QED
  BY <1>1, <1>2, <1>3, <1>4, <1>5, <1>6

(* References taken elsewhere can only refuse a payment, which leaves a    *)
(* reconciliation.                                                         *)
LEMMA TakenOnlyRefuses ==
  ASSUME NEW t, NEW i, NEW outcome, NEW ref, NEW taken
  PROVE  PaymentTx(t, i, outcome, ref, taken)
           \in {PaymentTx(t, i, outcome, ref, {}), Reconcile(t)}
<1> DEFINE r == Reconcile(t)
<1>1. PaymentCode(r, i, outcome, ref, taken) = "accepted" =>
        PaymentCode(r, i, outcome, ref, {}) = "accepted"
  <2> HIDE DEF r
  <2>1. ReferenceFree(r, ref, taken) => ReferenceFree(r, ref, {})
    BY DEF ReferenceFree
  <2> QED
    BY <2>1 DEF PaymentCode
<1> QED
  BY <1>1 DEF PaymentTx

LEMMA StepIsAQueueStep ==
  ASSUME IInv, Next, NEW p \in Products
  PROVE  Queues(p)!Next \/ UNCHANGED products[p]
<1>1. Good(products[p]) /\ Remembers(products[p])
  BY DEF IInv, ProductsOK
<1>2. ASSUME NEW q \in Products, NEW t2, products' = [products EXCEPT ![q] = t2]
      PROVE  products'[p] = IF p = q THEN t2 ELSE products[p]
  BY <1>2 DEF IInv, ProductsOK
<1>3. CASE \E h \in Handlers : Handle(h)
  <2>1. PICK h \in Handlers : Handle(h)
    BY <1>3
  <2>2. CASE UNCHANGED products
    BY <2>2
  <2>3. CASE Apply(h)
    <3>1. PICK c, t : c = CommandOf(h) /\ t = products[c.product]
      OBVIOUS
    <3>2. PICK t2 : t2 = PaymentTx(t, c.attempt, c.outcome, c.ref, TakenElsewhere(c.product))
      OBVIOUS
    <3>3. /\ products' = [products EXCEPT ![c.product] = t2] /\ ~t2.failed
          /\ c.attempt \in DOMAIN products[c.product].attempts
      BY <2>3, <3>1, <3>2 DEF Apply, Known
    <3>4. c \in Commands
      <4>1. handlers[h] # Idle
        BY <2>3 DEF Apply, Idle
      <4>2. EventOf(h) \in Events /\ inbox[EventOf(h)] # NoRow
        BY <4>1 DEF IInv, HandlersOK, EventOf
      <4> QED
        BY <3>1, <4>2, RowFields DEF IInv, CommandOf
    <3>5. /\ c.product \in Products /\ c.outcome \in {"succeeded", "failed"}
          /\ c.outcome = "succeeded" => c.ref \in References
          /\ c.outcome = "failed" => c.ref = NoReference
      BY <3>4, CommandFields
    <3>6. CASE p # c.product
      BY <1>2, <3>3, <3>5, <3>6
    <3>7. CASE p = c.product
      <4>1. products'[p] = t2
        BY <1>2, <3>3, <3>5, <3>7
      <4>2. t2 \in {PaymentTx(products[p], c.attempt, c.outcome, c.ref, {}),
                    Reconcile(products[p])}
        BY <3>1, <3>2, <3>7, TakenOnlyRefuses
      <4>3. Queues(p)!Request
        BY <3>3, <3>5, <3>7, <4>1, <4>2, CommittedRequest
      <4> QED
        BY <4>3 DEF Queues!Next
    <3> QED
      BY <3>6, <3>7
  <2>4. CASE CompensateConflict(h)
    <3>1. PICK q : q = CommandOf(h).product
      OBVIOUS
    <3>2. products' = [products EXCEPT ![q] = Reconcile(products[q])]
      BY <2>4, <3>1 DEF CompensateConflict, IInv, ProductsOK
    <3>3. CASE p = q
      <4>1. products'[p] = Reconcile(products[p])
        BY <1>2, <3>2, <3>3
      <4>2. ~Reconcile(products[p]).failed
        BY <1>1, FullReconcileKeepsNames DEF Settled, Good
      <4>3. Queues(p)!Request
        BY <4>1, <4>2, CommittedRequest
      <4> QED
        BY <4>3 DEF Queues!Next
    <3>4. CASE p # q
      BY <3>2, <3>4 DEF IInv, ProductsOK
    <3> QED
      BY <3>3, <3>4
  <2> QED
    BY <2>1, <2>2, <2>3, <2>4 DEF Handle, Deliver, RejectUnknown, MeetUniqueIndex,
       Superseded, Fail, ScheduleRetry, Crash
<1>4. CASE \E q \in Products : Queue(q)
  <2>1. PICK q \in Products : Queue(q)
    BY <1>4
  <2>2. PICK t2 \in QueueTransactions(products[q]) :
          ~t2.failed /\ products' = [products EXCEPT ![q] = t2]
    BY <2>1 DEF Queue
  <2>3. CASE p # q
    BY <1>2, <2>2, <2>3
  <2>4. CASE p = q
    <3>1. products'[p] = t2
      BY <1>2, <2>2, <2>4
    <3>2. CASE HasReconciliationWork(products[p]) /\ t2 = ReconcileBounded(products[p], BatchLimit)
      <4>1. Queues(p)!WorkerReconcile
        BY <2>2, <3>1, <3>2, SameWork, SameReconcileBounded
        DEF Queues!WorkerReconcile, Queues!Commit
      <4> QED
        BY <4>1 DEF Queues!Next
    <3>3. CASE ~ (HasReconciliationWork(products[p])
                    /\ t2 = ReconcileBounded(products[p], BatchLimit))
      <4>1. \/ \E u \in Users, k \in Keys : t2 = JoinTx(products[p], u, k, Percent)
            \/ \E i \in DOMAIN products[p].attempts, u \in Users :
                 t2 = StartCheckoutTx(products[p], i, u)
            \/ \E u \in Users : t2 = CancelTx(products[p], u)
            \/ t2 = Reconcile(products[p])
        BY <2>2, <2>4, <3>3 DEF QueueTransactions
      <4>2. Queues(p)!Request
        BY <2>2, <3>1, <4>1, CommittedRequest
      <4> QED
        BY <4>2 DEF Queues!Next
    <3> QED
      BY <3>2, <3>3
  <2> QED
    BY <2>3, <2>4
<1>5. CASE Tick
  <2>1. products'[p] = Aged(products[p])
    BY <1>5 DEF Tick
  <2>2. CASE Holders(products[p]) = Due(products[p])
    <3>1. PICK t : t = products[p]
      OBVIOUS
    <3>2. ASSUME NEW i \in DOMAIN t.attempts
          PROVE  [t.attempts[i] EXCEPT !.left = Sooner(@)] = t.attempts[i]
      <4>1. t.attempts[i] \in Attempt
        BY <1>1, <3>1, Fields DEF Good
      <4>2. t.attempts[i].left = 0
        BY <1>1, <2>2, <3>1 DEF Remembers, AtRest, Holders, Due, InState
      <4> QED
        BY <4>1, <4>2 DEF Sooner, Attempt
    <3>3. t.attempts = [i \in DOMAIN t.attempts |-> t.attempts[i]]
      BY <1>1, <3>1, Fields DEF Good
    <3>4. Aged(t) = [t EXCEPT !.attempts = t.attempts]
      BY <3>2, <3>3 DEF Aged
    <3>5. Aged(t) = t
      BY <1>1, <3>1, <3>4 DEF Good, WellFormed
    <3> QED
      BY <2>1, <3>1, <3>5
  <2>3. CASE Holders(products[p]) # Due(products[p])
    <3>1. Queues(p)!Tick
      BY <2>1, <2>3
      DEF Queues!Tick, Queues!Elapsed, Queues!Holders, Queues!Due, Queues!InState,
          Queues!Reserving, Aged, Sooner, Holders, Due, InState, Reserving
    <3> QED
      BY <3>1 DEF Queues!Next
  <2> QED
    BY <2>2, <2>3
<1> QED
  BY <1>3, <1>4, <1>5 DEF Next

(* Seen from one product, the payment inbox is a provider that reports     *)
(* payments to its queue: claims, retries, crashes and conflicts never     *)
(* write to a product what a transaction of ProductQueue would not.        *)
THEOREM ProductsAreQueues == Spec => EachProductIsAProductQueue
<1>1. Init => \A p \in Products : Queues(p)!Init
  BY InitIsInit
<1>2. IInv /\ [Next]_vars =>
        [\A p \in Products : Queues(p)!Next \/ UNCHANGED products[p]]_vars
  BY StepIsAQueueStep
<1> QED
  BY <1>1, <1>2, InvariantHolds, PTL DEF Spec, EachProductIsAProductQueue

(* The same, as an implication of specifications.                          *)
THEOREM ImplementsProductQueue == Spec => \A p \in Products : Queues(p)!Spec
<1> SUFFICES ASSUME NEW p \in Products PROVE Spec => Queues(p)!Spec
  OBVIOUS
<1>1. Init => Queues(p)!Init
  BY InitIsInit
<1>2. IInv /\ [Next]_vars => [Queues(p)!Next]_(Queues(p)!vars)
  BY StepIsAQueueStep DEF vars, Queues!vars
<1> QED
  BY <1>1, <1>2, InvariantHolds, PTL DEF Spec, Queues!Spec
=============================================================================
