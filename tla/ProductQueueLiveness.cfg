\* The seller moves the stock twice, up, down or to nothing, while three
\* users queue; only the clock and the worker are fair.
SPECIFICATION FairSpec
CONSTANTS
  Users = {u1, u2, u3}
  Keys = {k1}
  References = {r1, r2}
  NoReference = NoReference
  InvitationTTL = 1
  CheckoutTTL = 2
  MaxStock = 2
  MaxSequence = 4
  AdjustmentKeys = {a1, a2}
  Deltas <- MoreOrLess
  InitialStock = 1
  Percents = {300}
  BatchLimit = 1
INVARIANTS
  StockIsConserved
  InvitationsAreAnnounced
PROPERTIES
  NobodyWaitsForever
  ReservationsEnd
