\* Two products, locked each on its own, two events that contradict and
\* repeat each other, and one reference for both products.
SPECIFICATION Spec
CONSTANTS
  Users = {u1, u2}
  Keys = {k1}
  References = {"r1", "r2"}
  NoReference = "none"
  InvitationTTL = 1
  CheckoutTTL = 1
  MaxStock = 1
  MaxSequence = 2
  Products <- TwoProducts
  Events = {e1, e2}
  Commands <- Reports
  Handlers = {h1, h2}
  NoHandler = NoHandler
  LeaseTTL = 1
  RetryBackoff = 1
  InitialStock = 1
  Percent = 100
  BatchLimit = 1
SYMMETRY Interchangeable
INVARIANTS
  EveryPaymentAppliesOnce
  EveryPaymentBuysOrIsReturned
  ReferenceBuysOneAttempt
PROPERTIES
  AnswersAreFinal
  EachProductIsAProductQueue
