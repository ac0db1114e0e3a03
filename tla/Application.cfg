\* Two requests and a peer that share the embeddings; five demo users; pools
\* of one and two connections, the catalog edited once.
SPECIFICATION FairSpec
CONSTANTS
  Own = {r1, r2}
  Peers = {other}
  NoRequest = NoRequest
  MaxContent = 2
  Users = {"u1", "u2", "u3", "u4", "u5"}
  Keys = {"fixture", "k1"}
  FixtureKey = "fixture"
  References = {"mock-demo-payment", "another"}
  MockReference = "mock-demo-payment"
  NoReference = "none"
  DemoUser <- TheUsers
  MockCapacity = 3
  WaitingBuffers = {0, 200}
  InvitationTTL = 1
  CheckoutTTL = 1
  MaxStock = 10
  MaxSequence = 10
  MaxJoins = 4
  MaxWaitingBuffer = 200
  Environments <- TheEnvironments
INVARIANTS
  LoadedConfigurationsStart
  DatabaseOutlivesItsUsers
PROPERTIES
  ShutdownCompletes
  EveryRequestIsAnswered
  EmbeddingsCatchUp
  MockKeepsToTheQueue
CHECK_DEADLOCK FALSE
