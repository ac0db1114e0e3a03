\* One user, who may buy a product twice.
SPECIFICATION DemoSpec
CONSTANTS
  Users = {u1}
  Keys = {k1, k2}
  References <- Tokens
  NoReference = NoReference
  InvitationTTL = 1
  CheckoutTTL = 1
  MaxStock = 2
  MaxSequence = 3
  Products <- OneProduct
  Events <- Tokens
  Commands <- Reports
  Handlers = {h1}
  NoHandler = NoHandler
  LeaseTTL = 1
  RetryBackoff = 1
  InitialStock = 2
  Percent = 100
  BatchLimit = 1
PROPERTIES
  DemoPaymentIsIdempotent
CHECK_DEADLOCK FALSE
