\* Two workers, a compensation that no publisher accepts and an invitation;
\* a lease of twice the publisher's timeout, a clock that may be behind.
SPECIFICATION FairSpec
CONSTANTS
  Invitations = {i1}
  Compensations = {c1}
  Undeliverable = {c1}
  Workers = {w1, w2}
  NoWorker = NoWorker
  Steady = {w1}
  LeaseDuration = 4
  PublisherTimeout = 2
  RetryBase = 1
  RetryMax = 3
  Lags = {0, 1}
  WordBits = 3
  MaxAttempts = 3
INVARIANTS
  PublisherHoldsLease
  NothingIsLost
PROPERTIES
  SentIsFinal
  RetriesBackOff
  EveryNotificationConcludes
CHECK_DEADLOCK FALSE
