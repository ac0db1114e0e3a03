\* Three users, four attempts, two units of stock, two payment references.
SPECIFICATION Spec
CONSTANTS
  Users = {u1, u2, u3}
  Keys = {k1, k2}
  References = {r1, r2}
  NoReference = NoReference
  InvitationTTL = 1
  CheckoutTTL = 2
  MaxStock = 2
  MaxSequence = 5
  AdjustmentKeys = {}
  Deltas = {}
  InitialStock = 2
  Percents = {0, 150}
  BatchLimit = 1
SYMMETRY Interchangeable
INVARIANTS
  TypeOK
  ReservedMatchesHolders
  FirstComeFirstServed
  ActiveAttemptIsLatest
  JoinKeyNamesOneAttempt
PROPERTIES
  EndedAttemptsNeverChange
  DeadlinesAreHard
  RequestsLeaveNoWork
