\* Two users, assigned to the same product or to one each, with one unit of
\* each product; percentage 0 turns the second user away.
SPECIFICATION FairSpec
CONSTANTS
  Users = {u1, u2}
  Keys = {u1, u2}
  References = {u1, u2}
  NoReference = NoReference
  InvitationTTL = 1
  CheckoutTTL = 1
  MaxStock = 1
  MaxSequence = 3
  Products = {p1, p2}
  ProductsPerUser = 1
  QueueCapacity = 2
  InitialStocks = {1}
  Percents = {0, 100}
  BatchLimit = 1
INVARIANTS
  VerifierAcceptsTheQueue
  JudgesAgree
PROPERTIES
  EveryItemConcludes
CHECK_DEADLOCK FALSE
