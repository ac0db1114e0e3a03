\* Two handlers, two events, one product.
SPECIFICATION FairSpec
CONSTANTS
  Users = {u1}
  Keys = {k1}
  References = {"r1"}
  NoReference = "none"
  InvitationTTL = 1
  CheckoutTTL = 1
  MaxStock = 1
  MaxSequence = 2
  Products <- OneProduct
  Events = {e1, e2}
  Commands <- PaidOrFailed
  Handlers = {h1, h2}
  NoHandler = NoHandler
  LeaseTTL = 1
  RetryBackoff = 1
  InitialStock = 1
  Percent = 100
  BatchLimit = 1
PROPERTIES
  EveryEventConcludes
