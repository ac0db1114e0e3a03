-------------------------- MODULE ApplicationProofs --------------------------
(***************************************************************************)
(* Proofs about Application: which configurations start, who uses the      *)
(* database until it is closed, how refreshes exclude one another, and     *)
(* where exactly the mock departs from the queue it stands in for.         *)
(***************************************************************************)
EXTENDS Application, QueueTransactionProofs

(***************************************************************************)
(* Starting.                                                               *)
(***************************************************************************)
(* What config.go accepts, New can build an application of, and the        *)
(* controller it builds has the metrics client it is going to call.        *)
LEMMA AcceptedIsServed ==
  ASSUME NEW env, LoadFrom(env)
  PROVE  New(env) /\ ~RefreshPanics(env)
<1>1. New(env)
  <2>1. CASE env.mode = "mock"
    BY <2>1 DEF New
  <2>2. CASE env.mode = "postgres"
    <3>1. (env.ai => NewEmbedder(env)) /\ validateConfig(env)
      BY BufferAssumption DEF LoadFrom, NewEmbedder, validateConfig, Percentages
    <3> QED BY <2>2, <3>1 DEF New
  <2> QED BY <2>1, <2>2 DEF LoadFrom
<1>2. ~RefreshPanics(env)
  BY DEF LoadFrom, RefreshPanics
<1> QED BY <1>1, <1>2

(* An environment is served or rejected by LoadFrom.                       *)
LEMMA ServedOrRejected ==
  ASSUME NEW env
  PROVE  Outcome(env) \in {"rejected", "serving"}
BY AcceptedIsServed DEF Outcome

(***************************************************************************)
(* The steps of a request, and how it moves among them.                    *)
(***************************************************************************)
(* Between taking embeddingMu and giving it back.                          *)
Refresh == {"acquire", "list", "embed", "upsert", "release"}

Steps == {"idle", "lock", "semantic", "fallback", "transaction"} \cup Refresh

(* A peer is followed only while it has the advisory lock to refresh.      *)
PeerSteps == {"idle", "list", "embed", "upsert", "release"}

RequestTypeOK == /\ at \in [Requests -> Steps]
                 /\ \A p \in Peers : at[p] \in PeerSteps
                 /\ mutex \in Own \cup {NoRequest}

(* The mutex is held by the own request that is refreshing, by none other. *)
HeldWhileRefreshing == \A r \in Own : mutex = r <=> at[r] \in Refresh

(* What a step of request r may do to the requests.                        *)
Moves(r) == /\ \E step \in Steps : at' = [at EXCEPT ![r] = step]
            /\ \/ mutex' = mutex
               \/ r \in Own /\ mutex = r /\ mutex' = NoRequest
               \/ r \in Own /\ mutex = NoRequest /\ mutex' = r
            /\ r \in Peers => at'[r] \in PeerSteps
            /\ r \in Own => (mutex' = r <=> at'[r] \in Refresh)

(* A step that takes r from one kind of step to the same kind, mutex kept. *)
LEMMA GoMoves ==
  ASSUME NEW r \in Requests, RequestTypeOK, HeldWhileRefreshing,
         NEW step \in Steps, Go(r, step), UNCHANGED mutex,
         at[r] \in Refresh <=> step \in Refresh,
         r \in Peers => step \in PeerSteps
  PROVE  Moves(r)
<1>1. at' = [at EXCEPT ![r] = step] /\ at'[r] = step
  BY DEF Go, RequestTypeOK
<1>2. r \in Own => (mutex' = r <=> at'[r] \in Refresh)
  BY <1>1 DEF HeldWhileRefreshing
<1> QED BY <1>1, <1>2 DEF Moves

(* A step that ends a refresh, and gives the mutex back if r held it.      *)
LEMMA UnlockMoves ==
  ASSUME NEW r \in Requests, RequestTypeOK, HeldWhileRefreshing,
         NEW step \in Steps \ Refresh, Go(r, step), Unlock(r),
         r \in Peers => step \in PeerSteps
  PROVE  Moves(r)
<1>1. at' = [at EXCEPT ![r] = step] /\ at'[r] = step
  BY DEF Go, RequestTypeOK
<1>2. mutex' = IF mutex = r THEN NoRequest ELSE mutex
  BY DEF Unlock
<1>3. mutex = r => r \in Own /\ r # NoRequest
  BY RequestAssumption DEF Requests, RequestTypeOK
<1>4. \/ mutex' = mutex
      \/ r \in Own /\ mutex = r /\ mutex' = NoRequest
  BY <1>2, <1>3
<1>5. r \in Own => (mutex' = r <=> at'[r] \in Refresh)
  BY <1>1, <1>2, RequestAssumption DEF Requests
<1> QED BY <1>1, <1>4, <1>5 DEF Moves

LEMMA FailingMoves ==
  ASSUME NEW r \in Requests, RequestTypeOK, HeldWhileRefreshing, Fails(r)
  PROVE  Moves(r) /\ at[r] # "idle"
<1>1. /\ at[r] \in Steps \ {"idle", "lock", "release"}
      /\ r \in Peers => at[r] \in PeerSteps
  BY DEF RequestTypeOK, Fails
<1>2. CASE at[r] = "acquire"
  <2>1. FailedAt(r) = "semantic"
    BY <1>2 DEF FailedAt
  <2> r \notin Peers
    BY <1>1, <1>2 DEF PeerSteps
  <2>2. Go(r, "semantic") /\ Unlock(r)
    BY <1>2, <2>1 DEF Fails
  <2>3. "semantic" \in Steps \ Refresh
    BY DEF Steps, Refresh
  <2> QED BY <1>1, <2>2, <2>3, UnlockMoves
<1>3. CASE at[r] # "acquire"
  <2>1. /\ FailedAt(r) \in Steps
        /\ at[r] \in Refresh <=> FailedAt(r) \in Refresh
        /\ r \in Peers => FailedAt(r) \in PeerSteps
    BY <1>1, <1>3 DEF FailedAt, Steps, Refresh, PeerSteps
  <2>2. Go(r, FailedAt(r)) /\ UNCHANGED mutex
    BY <1>3 DEF Fails
  <2> QED BY <1>1, <2>1, <2>2, GoMoves
<1> QED BY <1>2, <1>3

(* What an own request may do, and a refresh elsewhere once it began.      *)
LEMMA ProceedingMoves ==
  ASSUME NEW r \in Requests, RequestTypeOK, HeldWhileRefreshing, Proceeds(r)
  PROVE  Moves(r) /\ at[r] # "idle"
<1> USE DEF Steps, Refresh, PeerSteps
<1>0. r \in Peers => at[r] \in PeerSteps
  BY DEF RequestTypeOK
<1>1. CASE TryAcquireEmbeddingRefresh(r)
  <2>1. CASE lock = NoRequest
    BY <1>1, <2>1, <1>0, GoMoves DEF TryAcquireEmbeddingRefresh
  <2>2. CASE lock # NoRequest
    BY <1>1, <2>2, <1>0, UnlockMoves DEF TryAcquireEmbeddingRefresh
  <2> QED BY <1>1, <2>1, <2>2 DEF TryAcquireEmbeddingRefresh
<1>2. CASE ListEmbeddingDocuments(r)
  <2>1. CASE Stale
    BY <1>2, <2>1, <1>0, GoMoves DEF ListEmbeddingDocuments
  <2>2. CASE ~Stale
    BY <1>2, <2>2, <1>0, GoMoves DEF ListEmbeddingDocuments
  <2> QED BY <1>2, <2>1, <2>2 DEF ListEmbeddingDocuments
<1>3. CASE UpsertEmbeddings(r)
  BY <1>3, <1>0, GoMoves DEF UpsertEmbeddings
<1>4. CASE ListSemanticAlternatives(r)
  BY <1>4, <1>0, GoMoves DEF ListSemanticAlternatives
<1>5. CASE ListFallbackAlternatives(r)
  BY <1>5, <1>0, GoMoves DEF ListFallbackAlternatives
<1>6. CASE Lock(r)
  <2>1. at' = [at EXCEPT ![r] = "acquire"] /\ at'[r] = "acquire" /\ at[r] = "lock"
    BY <1>6 DEF Lock, Go, RequestTypeOK
  <2>2. mutex = NoRequest /\ mutex' = r
    BY <1>6 DEF Lock
  <2>3. r \in Own
    BY <1>0, <2>1 DEF Requests
  <2> QED BY <1>0, <2>1, <2>2, <2>3 DEF Moves
<1>7. CASE Commit(r)
  BY <1>7, <1>0, GoMoves DEF Commit
<1>8. CASE Embed(r)
  BY <1>8, <1>0, GoMoves DEF Embed
<1>9. CASE Release(r)
  BY <1>9, UnlockMoves DEF Release, AfterRefresh
<1>10. CASE Fails(r)
  BY <1>10, FailingMoves
<1> QED BY <1>1, <1>2, <1>3, <1>4, <1>5, <1>6, <1>7, <1>8, <1>9, <1>10 DEF Proceeds, Query

(***************************************************************************)
(* The invariant.                                                          *)
(***************************************************************************)
(* Once server.Shutdown has returned, a request goes on only because the   *)
(* timeout passed; the database is closed after the last worker.           *)
Shutdown == /\ phase \in {"waiting", "closed"} => expired \/ \A r \in Own : at[r] = "idle"
            /\ phase = "closed" => workers = "done"

LifeInv == /\ phase \in {"new", "rejected", "serving", "draining", "waiting", "closed", "exited"}
           /\ RequestTypeOK
           /\ HeldWhileRefreshing
           /\ Shutdown

LEMMA InitLife == Init => LifeInv
<1> SUFFICES ASSUME Init PROVE LifeInv
  OBVIOUS
<1> USE DEF Init, RequestInit
<1>1. RequestTypeOK
  BY DEF RequestTypeOK, Steps, PeerSteps, Requests
<1>2. HeldWhileRefreshing
  BY RequestAssumption DEF HeldWhileRefreshing, Refresh, Requests
<1> QED BY <1>1, <1>2 DEF LifeInv, Shutdown

(* What a request does leaves the other requests, and their mutex, alone.  *)
LEMMA MovesKeep ==
  ASSUME RequestTypeOK, HeldWhileRefreshing, NEW r \in Requests, Moves(r)
  PROVE  /\ RequestTypeOK' /\ HeldWhileRefreshing'
         /\ \A q \in Requests \ {r} : at'[q] = at[q]
<1> PICK step \in Steps : at' = [at EXCEPT ![r] = step]
  BY DEF Moves
<1>1. /\ at' \in [Requests -> Steps]
      /\ \A q \in Requests \ {r} : at'[q] = at[q]
  BY DEF RequestTypeOK
<1>2. \A p \in Peers : at'[p] \in PeerSteps
  BY <1>1 DEF Moves, RequestTypeOK, Requests
<1>3. mutex' \in Own \cup {NoRequest}
  BY DEF Moves, RequestTypeOK
<1>4. ASSUME NEW q \in Own
      PROVE  mutex' = q <=> at'[q] \in Refresh
  <2>1. CASE q = r
    BY <2>1 DEF Moves
  <2>2. CASE q # r
    <3>1. at'[q] = at[q]
      BY <1>1, <2>2 DEF Requests
    <3>2. mutex' = q <=> mutex = q
      BY <2>2, RequestAssumption DEF Moves, Requests
    <3> QED BY <3>1, <3>2 DEF HeldWhileRefreshing
  <2> QED BY <2>1, <2>2
<1> QED BY <1>1, <1>2, <1>3, <1>4 DEF RequestTypeOK, HeldWhileRefreshing

(* The process serves as soon as it accepts a request, and a request that  *)
(* is not idle is not made idle by the shutdown.                           *)
LEMMA RequestKeepsLife ==
  ASSUME LifeInv, NEW r \in Requests, Moves(r), UNCHANGED lifeVars,
         phase = "serving" \/ (r \in Own /\ at[r] # "idle")
  PROVE  LifeInv'
<1>1. /\ RequestTypeOK' /\ HeldWhileRefreshing'
      /\ \A q \in Requests \ {r} : at'[q] = at[q]
  BY MovesKeep DEF LifeInv
<1>2. Shutdown'
  BY DEF LifeInv, Shutdown, lifeVars
<1> QED BY <1>1, <1>2 DEF LifeInv, lifeVars

LEMMA NextLife == LifeInv /\ [Next]_vars => LifeInv'
<1> SUFFICES ASSUME LifeInv, [Next]_vars PROVE LifeInv'
  OBVIOUS
<1>1. CASE Start
  <2>1. PICK env \in Environments : phase' = Outcome(env)
    BY <1>1 DEF Start
  <2>2. phase' \in {"rejected", "serving"}
    BY <2>1, ServedOrRejected
  <2>3. UNCHANGED <<at, mutex>>
    BY <1>1 DEF Start, requestVars
  <2>4. RequestTypeOK' /\ HeldWhileRefreshing'
    BY <2>3 DEF LifeInv, RequestTypeOK, HeldWhileRefreshing
  <2> QED BY <2>2, <2>4 DEF LifeInv, Shutdown
<1>2. ASSUME NEW r \in Own, Accept(r)
      PROVE  LifeInv'
  <2>1. r \in Requests /\ r \notin Peers /\ phase = "serving" /\ UNCHANGED lifeVars
    BY <1>2, RequestAssumption DEF Accept, Requests
  <2>2. at[r] = "idle" /\ UNCHANGED mutex
    BY <1>2 DEF Accept, Get, BeginTx
  <2>3. PICK step \in {"lock", "fallback", "transaction"} : Go(r, step)
    BY <1>2 DEF Accept, Get, BeginTx
  <2>4. step \in Steps /\ (at[r] \in Refresh <=> step \in Refresh)
    BY <2>2 DEF Steps, Refresh
  <2>5. Moves(r)
    BY <2>1, <2>2, <2>3, <2>4, GoMoves DEF LifeInv
  <2> QED BY <2>1, <2>5, RequestKeepsLife
<1>3. ASSUME NEW r \in Own, Serve(r)
      PROVE  LifeInv'
  <2>1. r \in Requests /\ UNCHANGED lifeVars /\ (Proceeds(r) \/ Fails(r))
    BY <1>3 DEF Serve, Requests
  <2>2. Moves(r) /\ at[r] # "idle"
    BY <2>1, ProceedingMoves, FailingMoves DEF LifeInv
  <2> QED BY <2>1, <2>2, RequestKeepsLife
<1>4. CASE Elsewhere
  <2>1. phase = "serving" /\ UNCHANGED lifeVars
    BY <1>4 DEF Elsewhere, Refreshing
  <2>2. CASE LoseConnection \/ Edit
    <3>1. UNCHANGED <<at, mutex>>
      BY <2>2 DEF LoseConnection, Edit
    <3> QED BY <2>1, <3>1
        DEF LifeInv, lifeVars, RequestTypeOK, HeldWhileRefreshing, Shutdown
  <2>3. ASSUME NEW r \in Peers, PeerAcquires(r) \/ Proceeds(r)
        PROVE  LifeInv'
    <3>1. r \in Requests
      BY DEF Requests
    <3>2. CASE PeerAcquires(r)
      <4>1. at' = [at EXCEPT ![r] = "list"] /\ at'[r] = "list" /\ UNCHANGED mutex
        BY <3>1, <3>2 DEF PeerAcquires, Go, LifeInv, RequestTypeOK
      <4>2. Moves(r)
        BY <4>1, RequestAssumption DEF Moves, Steps, Refresh, PeerSteps
      <4> QED BY <2>1, <3>1, <4>2, RequestKeepsLife
    <3>3. CASE Proceeds(r)
      <4>1. Moves(r)
        BY <3>1, <3>3, ProceedingMoves DEF LifeInv
      <4> QED BY <2>1, <3>1, <4>1, RequestKeepsLife
    <3> QED BY <2>3, <3>2, <3>3
  <2> QED BY <1>4, <2>2, <2>3 DEF Elsewhere
<1>5. CASE ServeMock
  BY <1>5 DEF ServeMock, lifeVars, requestVars, LifeInv, RequestTypeOK,
              HeldWhileRefreshing, Shutdown
<1>6. CASE Stop \/ WorkersReturn \/ Expire \/ ShutdownServer \/ CloseDatabase
  <2>1. UNCHANGED <<at, mutex>>
    BY <1>6 DEF Stop, WorkersReturn, Expire, ShutdownServer, CloseDatabase, requestVars
  <2>2. RequestTypeOK' /\ HeldWhileRefreshing'
    BY <2>1 DEF LifeInv, RequestTypeOK, HeldWhileRefreshing
  <2>3. Shutdown' /\ phase' \in {"draining", "waiting", "closed"}
    BY <1>6, <2>1 DEF Stop, WorkersReturn, Expire, ShutdownServer, CloseDatabase, Drained,
                      LifeInv, Shutdown
  <2> QED BY <2>2, <2>3 DEF LifeInv
<1>7. CASE GiveUpOnWorkers \/ Return
  <2>1. /\ phase' = "exited" /\ mutex' = NoRequest
        /\ at' = [r \in Requests |-> IF r \in Own THEN "idle" ELSE at[r]]
    BY <1>7 DEF GiveUpOnWorkers, Return, Exits
  <2>2. RequestTypeOK'
    BY <2>1, RequestAssumption DEF LifeInv, RequestTypeOK, Requests, Steps
  <2>3. HeldWhileRefreshing'
    BY <2>1, RequestAssumption DEF HeldWhileRefreshing, Requests, Refresh
  <2> QED BY <2>1, <2>2, <2>3 DEF LifeInv, Shutdown
<1>8. CASE UNCHANGED vars
  BY <1>8 DEF vars, lifeVars, requestVars, LifeInv, RequestTypeOK, HeldWhileRefreshing, Shutdown
<1> QED BY <1>1, <1>2, <1>3, <1>4, <1>5, <1>6, <1>7, <1>8 DEF Next, Life

THEOREM LifeInvariant == Spec => []LifeInv
BY InitLife, NextLife, PTL DEF Spec

(* No environment that LoadFrom accepts is refused by New, or brings the   *)
(* process down once its workers run.                                      *)
THEOREM ConfigurationsStart == Spec => []LoadedConfigurationsStart
<1>1. LifeInv => LoadedConfigurationsStart
  BY DEF LifeInv, LoadedConfigurationsStart
<1> QED BY <1>1, LifeInvariant, PTL

(* The pool is closed when no worker runs, and no request unless it has    *)
(* outlived the shutdown timeout.                                          *)
THEOREM DatabaseClosesLast == Spec => []DatabaseOutlivesItsUsers
<1>1. LifeInv => DatabaseOutlivesItsUsers
  BY DEF LifeInv, Shutdown, DatabaseOutlivesItsUsers
<1> QED BY <1>1, LifeInvariant, PTL

(* embeddingMu: at no time are two requests of this process between taking *)
(* the mutex and giving it back, whatever fails on the way, and a request  *)
(* that is not refreshing has given it back.                               *)
OneRefreshAtATime ==
  /\ \A q, r \in Own : at[q] \in Refresh /\ at[r] \in Refresh => q = r
  /\ \A r \in Own : mutex = r => at[r] \in Refresh

THEOREM RefreshesExclude == Spec => []OneRefreshAtATime
<1>1. LifeInv => OneRefreshAtATime
  BY DEF LifeInv, HeldWhileRefreshing, OneRefreshAtATime
<1> QED BY <1>1, LifeInvariant, PTL

-----------------------------------------------------------------------------
(***************************************************************************)
(* Reconciling a line where nothing is due: from its head, as many as      *)
(* there are units free are invited, or all are sold out.                  *)
(***************************************************************************)
(* A prefix of a set of positions that has n members, or is the whole set  *)
(* and has no more, is what FirstN selects.                                *)
LEMMA PrefixIsFirstN ==
  ASSUME NEW S \in SUBSET Nat, IsFiniteSet(S), NEW n \in Nat, NEW F \in SUBSET S,
         \A i \in S, k \in F : i < k => i \in F,
         Cardinality(F) <= n, F = S \/ Cardinality(F) = n
  PROVE  FirstN(S, n) = F
<1>1. IsFiniteSet(F) /\ Cardinality(F) \in Nat
  <2>1. IsFiniteSet(F)
    BY FS_Subset
  <2> QED
    BY <2>1, FS_CardinalityType
<1>2. ASSUME NEW x \in F
      PROVE  x \in FirstN(S, n)
  <2>1. Below(S, x) \in SUBSET (F \ {x})
    <3>1. ASSUME NEW y \in S, y < x
          PROVE  y \in F \ {x}
      <4>1. y \in F /\ x \in Nat /\ y \in Nat
        BY <3>1
      <4> QED
        BY <3>1, <4>1
    <3> QED
      BY <3>1 DEF Below
  <2>2. IsFiniteSet(F \ {x}) /\ Cardinality(F \ {x}) = Cardinality(F) - 1
    BY <1>1, FS_RemoveElement
  <2>3. Cardinality(Below(S, x)) \in Nat /\ Cardinality(Below(S, x)) <= Cardinality(F) - 1
    BY <2>1, <2>2, FS_Subset, FS_CardinalityType
  <2>4. Cardinality(Below(S, x)) < n
    BY <1>1, <2>3
  <2> QED
    BY <2>4 DEF FirstN, Below
<1>3. ASSUME NEW x \in S \ F
      PROVE  x \notin FirstN(S, n)
  <2>1. \A y \in F : y < x
    <3> TAKE y \in F
    <3>1. ~ (x < y) /\ x # y /\ x \in Nat /\ y \in Nat
      OBVIOUS
    <3> QED
      BY <3>1
  <2>2. F \in SUBSET Below(S, x) /\ Below(S, x) \in SUBSET S
    BY <2>1 DEF Below
  <2>3. IsFiniteSet(Below(S, x)) /\ Cardinality(Below(S, x)) \in Nat
    BY <2>2, FS_Subset, FS_CardinalityType
  <2>4. Cardinality(F) <= Cardinality(Below(S, x))
    BY <2>2, <2>3, FS_Subset
  <2>5. Cardinality(F) = n
    OBVIOUS
  <2>6. ~ (Cardinality(Below(S, x)) < n)
    BY <2>3, <2>4, <2>5
  <2> QED
    BY <2>6 DEF FirstN, Below
<1>4. FirstN(S, n) \in SUBSET S
  BY DEF FirstN
<1> QED
  BY <1>2, <1>3, <1>4

(* All of them, if they are no more than n; n of them otherwise.           *)
LEMMA FirstNCounts ==
  ASSUME NEW S \in SUBSET Nat, IsFiniteSet(S), NEW n \in Nat
  PROVE  /\ Cardinality(S) <= n => FirstN(S, n) = S
         /\ n <= Cardinality(S) => Cardinality(FirstN(S, n)) = n
<1>1. Cardinality(S) \in Nat
  BY FS_CardinalityType
<1>2. ASSUME Cardinality(S) <= n
      PROVE  FirstN(S, n) = S
  <2>1. S \in SUBSET S /\ \A i \in S, k \in S : i < k => i \in S
    OBVIOUS
  <2> QED
    BY <1>2, <2>1, PrefixIsFirstN
<1>3. ASSUME n <= Cardinality(S)
      PROVE  Cardinality(FirstN(S, n)) = n
  <2>1. Cardinality(FirstN(S, n)) \in Nat /\ Cardinality(FirstN(S, n)) <= n
    BY FirstNPrefix
  <2>2. Cardinality(FirstN(S, n)) < n => FirstN(S, n) = S
    BY FirstNExhausts
  <2> QED
    BY <1>1, <1>3, <2>1, <2>2
<1> QED
  BY <1>2, <1>3

(* Whom reconciliation invites.                                            *)
NextInLine(t) == FirstN(Waiting(t), FreeStock(t))

(* What the attempts of a well-formed product are.                         *)
LEMMA LineSets ==
  ASSUME NEW t, Sound(t)
  PROVE  /\ t.stock \in Nat /\ t.reserved \in Nat /\ FreeStock(t) \in Nat
         /\ Waiting(t) \in SUBSET Nat /\ IsFiniteSet(Waiting(t))
         /\ Cardinality(Waiting(t)) \in Nat
         /\ NextInLine(t) \in SUBSET Waiting(t) /\ IsFiniteSet(NextInLine(t))
         /\ Cardinality(NextInLine(t)) \in Nat
         /\ Cardinality(NextInLine(t)) <= FreeStock(t)
<1>1. t.stock \in Nat /\ t.reserved \in 0 .. t.stock
  BY Fields DEF Sound, Consistent
<1>2. t.reserved \in Nat /\ FreeStock(t) \in Nat
  BY <1>1 DEF FreeStock
<1>3. Waiting(t) \in SUBSET DOMAIN t.attempts
  BY DEF Waiting, InState
<1>4. /\ Waiting(t) \in SUBSET Nat /\ IsFiniteSet(Waiting(t))
      /\ Cardinality(Waiting(t)) \in Nat
  BY <1>3, AttemptSets DEF Sound
<1>5. /\ NextInLine(t) \in SUBSET Waiting(t) /\ IsFiniteSet(NextInLine(t))
      /\ Cardinality(NextInLine(t)) \in Nat
      /\ Cardinality(NextInLine(t)) <= FreeStock(t)
  BY <1>2, <1>4, FirstNPrefix DEF NextInLine
<1> QED
  BY <1>1, <1>2, <1>4, <1>5

(* The state an attempt is in afterwards.                                  *)
StateAfter(t, i) ==
  IF i \in Waiting(t) /\ t.stock = 0 THEN "sold_out"
  ELSE IF i \in NextInLine(t) THEN "invited"
  ELSE t.attempts[i].state

LEMMA NothingDue ==
  ASSUME NEW t, Sound(t), Due(t) = {}
  PROVE  LET r == Reconcile(t)
         IN  /\ Sound(r) /\ Due(r) = {}
             /\ r.stock = t.stock /\ r.next = t.next /\ r.enabled = t.enabled
             /\ DOMAIN r.attempts = DOMAIN t.attempts
             /\ \A i \in DOMAIN t.attempts :
                  /\ r.attempts[i].user = t.attempts[i].user
                  /\ r.attempts[i].key = t.attempts[i].key
                  /\ r.attempts[i].ref = t.attempts[i].ref
                  /\ r.attempts[i].state = StateAfter(t, i)
             /\ t.stock # 0 => r.reserved = t.reserved + Cardinality(NextInLine(t))
<1> DEFINE limit == 2 * Cardinality(InState(t, Active)) + 1
           V == ToInvite(t, limit)
           S == ToSellOut(t, limit)
<1> PICK r : r = ReconcileBounded(t, limit)
  OBVIOUS
<1>1. Reconcile(t) = r
  BY DEF Reconcile
<1>2. /\ t.stock \in Nat /\ t.reserved \in Nat /\ FreeStock(t) \in Nat
      /\ Waiting(t) \in SUBSET Nat /\ IsFiniteSet(Waiting(t))
      /\ Cardinality(Waiting(t)) \in Nat
      /\ NextInLine(t) \in SUBSET Waiting(t)
  BY LineSets
<1>3. limit \in Nat /\ Cardinality(Waiting(t)) < limit
  <2>1. /\ InState(t, Active) \in SUBSET DOMAIN t.attempts
        /\ Waiting(t) \in SUBSET InState(t, Active)
    BY DEF InState, Waiting, Active
  <2>2. IsFiniteSet(InState(t, Active)) /\ Cardinality(InState(t, Active)) \in Nat
    BY <2>1, AttemptSets DEF Sound
  <2>3. Cardinality(Waiting(t)) <= Cardinality(InState(t, Active))
    BY <2>1, <2>2, FS_Subset
  <2> QED
    BY <1>2, <2>2, <2>3
<1> HIDE DEF limit
<1>4. ToExpire(t, limit) = {}
  BY DEF ToExpire, FirstN
<1>5. Cardinality(ToExpire(t, limit)) = 0
  BY <1>4, FS_EmptySet
<1>6. Budget(t, limit) = limit /\ StillHeld(t, limit) = t.reserved
  BY <1>2, <1>3, <1>5 DEF Budget, StillHeld
<1>7. FirstN(Waiting(t), limit) = Waiting(t)
  BY <1>2, <1>3, FirstNCounts
<1>8. S = IF t.stock = 0 THEN Waiting(t) ELSE {}
  BY <1>6, <1>7 DEF ToSellOut
<1>9. t.stock # 0 => V = NextInLine(t)
  <2>1. SUFFICES ASSUME t.stock # 0 PROVE V = NextInLine(t)
    OBVIOUS
  <2>2. V = FirstN(Waiting(t), Smaller(limit, FreeStock(t)))
    BY <1>6, <2>1 DEF ToInvite, FreeStock
  <2>3. CASE limit < FreeStock(t)
    <3>1. Cardinality(Waiting(t)) <= FreeStock(t)
      BY <1>2, <1>3, <2>3
    <3>2. NextInLine(t) = Waiting(t)
      BY <1>2, <3>1, FirstNCounts DEF NextInLine
    <3> QED
      BY <1>7, <2>2, <2>3, <3>2 DEF Smaller
  <2>4. CASE ~ (limit < FreeStock(t))
    BY <2>2, <2>4 DEF Smaller, NextInLine
  <2> QED
    BY <2>3, <2>4
<1>10. t.stock = 0 => V = {}
  BY DEF ToInvite
<1>11. V \in SUBSET Waiting(t)
  BY <1>2, <1>9, <1>10
<1>12. /\ WellFormed(r)
       /\ r.stock = t.stock /\ r.next = t.next /\ r.enabled = t.enabled
       /\ r.failed = t.failed
       /\ r.reserved = StillHeld(t, limit) + Cardinality(V)
       /\ DOMAIN r.attempts = DOMAIN t.attempts
       /\ \A i \in DOMAIN t.attempts :
            /\ r.attempts[i].user = t.attempts[i].user
            /\ r.attempts[i].key = t.attempts[i].key
            /\ r.attempts[i].ref = t.attempts[i].ref
            /\ r.attempts[i].state =
                 IF i \in ToExpire(t, limit) THEN ExpiredState(t.attempts[i])
                 ELSE IF i \in S THEN "sold_out"
                 ELSE IF i \in V THEN "invited"
                 ELSE t.attempts[i].state
            /\ i \in V => r.attempts[i].left = InvitationTTL
            /\ i \notin ToExpire(t, limit) \cup S \cup V
                 => r.attempts[i] = t.attempts[i]
  BY <1>3, ReconciledFields DEF Sound
<1> HIDE DEF V, S
<1>13. ASSUME t.stock = 0
       PROVE  NextInLine(t) = {}
  <2>1. FreeStock(t) = 0
    BY <1>2, <1>13 DEF FreeStock
  <2>2. Cardinality(NextInLine(t)) = 0
    BY <1>2, <2>1, FirstNCounts DEF NextInLine
  <2>3. IsFiniteSet(NextInLine(t))
    BY LineSets
  <2> QED
    BY <2>2, <2>3, FS_EmptySet
<1>14. V = NextInLine(t)
  BY <1>9, <1>10, <1>13
<1>15. \A i \in DOMAIN t.attempts : r.attempts[i].state = StateAfter(t, i)
  BY <1>4, <1>8, <1>12, <1>14 DEF StateAfter
<1>16. r.reserved = t.reserved + Cardinality(NextInLine(t))
  BY <1>6, <1>12, <1>14
<1>17. Holders(r) = Holders(t) \cup V
  <2>1. V \in SUBSET DOMAIN t.attempts
    BY <1>11 DEF Waiting, InState
  <2>2. ASSUME NEW i \in DOMAIN t.attempts
        PROVE  i \in Holders(r) <=> i \in Holders(t) \cup V
    <3>1. CASE i \in V
      BY <1>4, <1>8, <1>10, <1>12, <3>1 DEF Holders, InState, Reserving
    <3>2. CASE i \in S
      BY <1>4, <1>8, <1>10, <1>12, <3>2 DEF Holders, InState, Reserving, Waiting
    <3>3. CASE i \notin S \cup V
      BY <1>4, <1>12, <3>3 DEF Holders, InState
    <3> QED
      BY <3>1, <3>2, <3>3
  <2>3. Holders(r) \in SUBSET DOMAIN t.attempts /\ Holders(t) \in SUBSET DOMAIN t.attempts
    BY <1>12 DEF Holders, InState
  <2> QED
    BY <2>1, <2>2, <2>3
<1>18. Consistent(r)
  <2>1. Holders(t) \in SUBSET DOMAIN t.attempts /\ V \in SUBSET DOMAIN t.attempts
        /\ Holders(t) \cap V = {}
    BY <1>11 DEF Holders, Waiting, InState, Reserving
  <2>2. IsFiniteSet(Holders(t)) /\ IsFiniteSet(V)
    BY <2>1, AttemptSets DEF Sound
  <2>3. Cardinality(Holders(r)) = Cardinality(Holders(t)) + Cardinality(V)
    BY <1>17, <2>1, <2>2, DisjointCardinality
  <2>4. r.reserved = Cardinality(Holders(r))
    BY <1>14, <1>16, <2>3 DEF Sound, Consistent
  <2>5. Cardinality(NextInLine(t)) \in Nat /\ Cardinality(NextInLine(t)) <= FreeStock(t)
    BY LineSets
  <2>6. r.reserved \in 0 .. r.stock
    BY <1>2, <1>12, <1>16, <2>5 DEF FreeStock
  <2> QED
    BY <2>4, <2>6 DEF Consistent
<1>19. Due(r) = {}
  <2>1. ASSUME NEW i \in Holders(r)
        PROVE  r.attempts[i].left # 0
    <3>1. i \in DOMAIN t.attempts
      BY <1>12 DEF Holders, InState
    <3>2. CASE i \in V
      BY <1>12, <3>1, <3>2, TTLAssumption
    <3>3. CASE i \in Holders(t) /\ i \notin V
      <4>1. i \notin S
        BY <1>8, <3>3 DEF Waiting, Holders, InState, Reserving
      <4>2. r.attempts[i] = t.attempts[i]
        BY <1>4, <1>12, <3>1, <3>3, <4>1
      <4> QED
        BY <3>3, <4>2 DEF Due
    <3> QED
      BY <1>17, <3>2, <3>3
  <2> QED
    BY <2>1 DEF Due
<1>20. Sound(r)
  BY <1>12, <1>18 DEF Sound
<1> QED
  BY <1>1, <1>12, <1>15, <1>16, <1>19, <1>20

(* Who waits and who is active then, where there is stock.                 *)
LEMMA InvitedFromTheHead ==
  ASSUME NEW t, Sound(t), Due(t) = {}, t.stock # 0,
         NEW r, r = Reconcile(t)
  PROVE  /\ Waiting(r) = Waiting(t) \ NextInLine(t)
         /\ Holders(r) = Holders(t) \cup NextInLine(t)
         /\ InState(r, Active) = InState(t, Active)
         /\ FreeStock(r) = FreeStock(t) - Cardinality(NextInLine(t))
         /\ ~HasReconciliationWork(r)
<1> DEFINE V == NextInLine(t)
<1>1. /\ Sound(r) /\ Due(r) = {}
      /\ r.stock = t.stock /\ r.reserved = t.reserved + Cardinality(V)
      /\ DOMAIN r.attempts = DOMAIN t.attempts
      /\ \A i \in DOMAIN t.attempts : r.attempts[i].state = StateAfter(t, i)
  BY NothingDue
<1>2. /\ FreeStock(t) \in Nat /\ t.stock \in Nat /\ t.reserved \in Nat
      /\ Waiting(t) \in SUBSET Nat /\ IsFiniteSet(Waiting(t)) /\ Cardinality(Waiting(t)) \in Nat
      /\ V \in SUBSET Waiting(t) /\ Cardinality(V) \in Nat /\ Cardinality(V) <= FreeStock(t)
  BY LineSets
<1>3. \A i \in DOMAIN t.attempts :
        r.attempts[i].state = IF i \in V THEN "invited" ELSE t.attempts[i].state
  BY <1>1 DEF StateAfter
<1>4. \A i \in V : i \in DOMAIN t.attempts /\ t.attempts[i].state = "waiting"
  BY <1>2 DEF Waiting, InState
<1>5. FreeStock(r) = FreeStock(t) - Cardinality(V)
  BY <1>1, <1>2 DEF FreeStock
<1> HIDE DEF V
<1>6. Waiting(r) = Waiting(t) \ V
  BY <1>1, <1>3, <1>4 DEF Waiting, InState
<1>7. Holders(r) = Holders(t) \cup V
  BY <1>1, <1>3, <1>4 DEF Holders, InState, Reserving
<1>8. InState(r, Active) = InState(t, Active)
  BY <1>1, <1>3, <1>4 DEF InState, Active, Reserving
<1>9. ~HasReconciliationWork(r)
  <2>1. SUFFICES ASSUME FreeStock(r) > 0 PROVE Waiting(r) = {}
    BY <1>1 DEF HasReconciliationWork, FreeStock
  <2>2. Cardinality(V) < FreeStock(t)
    BY <1>2, <1>5, <2>1
  <2>3. V = FirstN(Waiting(t), FreeStock(t))
    BY DEF V, NextInLine
  <2>4. V = Waiting(t)
    BY <1>2, <2>2, <2>3, FirstNExhausts
  <2> QED
    BY <1>6, <2>4
<1> QED
  BY <1>5, <1>6, <1>7, <1>8, <1>9 DEF V

(* The counter need not be compared: it is the number of reservations.     *)
LEMMA ShownAlike ==
  ASSUME NEW a, Sound(a), NEW b, Sound(b),
         a.stock = b.stock, a.next = b.next,
         DOMAIN a.attempts = DOMAIN b.attempts,
         \A i \in DOMAIN a.attempts :
           /\ a.attempts[i].user = b.attempts[i].user
           /\ a.attempts[i].key = b.attempts[i].key
           /\ a.attempts[i].state = b.attempts[i].state
  PROVE  Shown(a) = Shown(b)
<1>1. Holders(a) = Holders(b)
  BY DEF Holders, InState
<1>2. a.reserved = b.reserved
  BY <1>1 DEF Sound, Consistent
<1> QED
  BY <1>2 DEF Shown

(* Ending one attempt before the head of the line is invited, or after and *)
(* once more for what it gives back: the same are invited.                 *)
LEMMA ReleaseCommutes ==
  ASSUME NEW t, Sound(t), Due(t) = {}, t.stock # 0,
         NEW i \in InState(t, Active),
         NEW q, q = Reconcile(t),
         NEW a, a = Released(t, i, "cancelled"), Due(a) = {},
         NEW b, b = Released(q, i, "cancelled")
  PROVE  Shown(Reconcile(a)) = Shown(Reconcile(b))
<1> DEFINE V == NextInLine(t)
           B == NextInLine(b)
           S == Waiting(t) \ {i}
           F == (V \ {i}) \cup B
<1>1. /\ t.stock \in Nat /\ t.reserved \in Nat /\ FreeStock(t) \in Nat
      /\ FreeStock(t) = t.stock - t.reserved
      /\ Waiting(t) \in SUBSET Nat /\ IsFiniteSet(Waiting(t))
      /\ V \in SUBSET Waiting(t) /\ IsFiniteSet(V) /\ Cardinality(V) \in Nat
  BY LineSets DEF FreeStock
<1>2. /\ Sound(q) /\ Due(q) = {} /\ q.stock = t.stock /\ q.next = t.next
      /\ DOMAIN q.attempts = DOMAIN t.attempts
      /\ \A j \in DOMAIN t.attempts :
           /\ q.attempts[j].user = t.attempts[j].user
           /\ q.attempts[j].key = t.attempts[j].key
           /\ q.attempts[j].state = StateAfter(t, j)
      /\ q.reserved = t.reserved + Cardinality(V)
  BY NothingDue
<1>3. /\ Waiting(q) = Waiting(t) \ V
      /\ Holders(q) = Holders(t) \cup V
      /\ InState(q, Active) = InState(t, Active)
  BY InvitedFromTheHead
<1>4. i \in DOMAIN t.attempts /\ i \in DOMAIN q.attempts
      /\ t.attempts[i].state \in Active /\ q.attempts[i].state \in Active
  BY <1>2, <1>3 DEF InState
<1>5. LegalMove(t.attempts[i].state, "cancelled") /\ LegalMove(q.attempts[i].state, "cancelled")
  BY <1>4 DEF Active, Reserving, LegalMove
<1>6. /\ Sound(a) /\ DOMAIN a.attempts = DOMAIN t.attempts
      /\ \A k \in DOMAIN t.attempts : k # i => a.attempts[k] = t.attempts[k]
      /\ a.attempts[i] = Moved(t.attempts[i], "cancelled", 0)
      /\ a.reserved = IF i \in Holders(t) THEN t.reserved - 1 ELSE t.reserved
  BY <1>4, <1>5, ReleaseKeepsSound
<1>7. /\ Sound(b) /\ DOMAIN b.attempts = DOMAIN q.attempts
      /\ \A k \in DOMAIN q.attempts : k # i => b.attempts[k] = q.attempts[k]
      /\ b.attempts[i] = Moved(q.attempts[i], "cancelled", 0)
      /\ b.reserved = IF i \in Holders(q) THEN q.reserved - 1 ELSE q.reserved
  BY <1>2, <1>4, <1>5, ReleaseKeepsSound
<1>8. /\ a.stock = t.stock /\ a.next = t.next
      /\ b.stock = q.stock /\ b.next = q.next
  BY <1>2 DEF Released, Sound, WellFormed
<1>9. /\ a.attempts[i].user = t.attempts[i].user /\ a.attempts[i].key = t.attempts[i].key
      /\ a.attempts[i].state = "cancelled"
      /\ b.attempts[i].user = q.attempts[i].user /\ b.attempts[i].key = q.attempts[i].key
      /\ b.attempts[i].state = "cancelled" /\ b.attempts[i].left = 0
  <2>1. "cancelled" \in Active \cup Terminal
    BY DEF Terminal
  <2>2. t.attempts[i] \in Attempt /\ q.attempts[i] \in Attempt
    BY <1>2, <1>4, Fields DEF Sound
  <2> QED
    BY <1>6, <1>7, <2>1, <2>2, MovedFields
<1>10. Waiting(a) = S
  BY <1>6, <1>9 DEF Waiting, InState
<1>11. Waiting(b) = (Waiting(t) \ V) \ {i}
  <2>1. Waiting(b) = Waiting(q) \ {i}
    BY <1>7, <1>9 DEF Waiting, InState
  <2> QED
    BY <1>3, <2>1
<1>12. Due(b) = {}
  BY <1>2, <1>7, <1>9 DEF Due, Holders, InState, Reserving
<1>13. /\ FreeStock(a) \in Nat /\ FreeStock(b) \in Nat
       /\ B \in SUBSET Waiting(b) /\ IsFiniteSet(B) /\ Cardinality(B) \in Nat
       /\ Cardinality(B) <= FreeStock(b)
       /\ Waiting(b) \in SUBSET Nat /\ IsFiniteSet(Waiting(b))
  BY <1>6, <1>7, LineSets
<1>14. FreeStock(a) = Cardinality(V \ {i}) + FreeStock(b)
  <2>1. Cardinality(V \ {i}) = IF i \in V THEN Cardinality(V) - 1 ELSE Cardinality(V)
    BY <1>1, FS_RemoveElement
  <2>2. i \in V => i \notin Holders(t)
    BY <1>1 DEF Waiting, Holders, InState, Reserving
  <2>3. i \in Holders(q) <=> i \in Holders(t) \/ i \in V
    BY <1>3
  <2> QED
    BY <1>1, <1>2, <1>6, <1>7, <1>8, <2>1, <2>2, <2>3 DEF FreeStock
<1>15. NextInLine(a) = F
  <2>1. F \in SUBSET S
    BY <1>1, <1>11, <1>13
  <2>2. Cardinality(F) = Cardinality(V \ {i}) + Cardinality(B)
    <3>1. (V \ {i}) \cap B = {}
      BY <1>11, <1>13
    <3>2. IsFiniteSet(V \ {i})
      BY <1>1, FS_RemoveElement
    <3> QED
      BY <1>13, <3>1, <3>2, DisjointCardinality
  <2>3. Cardinality(V \ {i}) \in Nat
    BY <1>1, FS_RemoveElement, FS_CardinalityType
  <2>4. Cardinality(F) <= FreeStock(a)
    BY <1>13, <1>14, <2>2, <2>3
  <2>5. F = S \/ Cardinality(F) = FreeStock(a)
    <3>1. CASE Cardinality(B) < FreeStock(b)
      <4>1. B = Waiting(b)
        BY <1>13, <3>1, FirstNExhausts DEF NextInLine
      <4> QED
        BY <1>1, <1>11, <4>1
    <3>2. CASE Cardinality(B) = FreeStock(b)
      BY <1>14, <2>2, <3>2
    <3> QED
      BY <1>13, <3>1, <3>2
  <2>6. ASSUME NEW x \in S, NEW k \in F, x < k
        PROVE  x \in F
    <3>1. V = FirstN(Waiting(t), FreeStock(t)) /\ B = FirstN(Waiting(b), FreeStock(b))
      BY DEF NextInLine
    <3>2. CASE k \in V
      <4>1. x \in V
        BY <1>1, <2>6, <3>1, <3>2, FirstNPrefix
      <4> QED
        BY <2>6, <4>1
    <3>3. CASE k \in B /\ x \notin V
      <4>1. x \in Waiting(b)
        BY <1>11, <2>6, <3>3
      <4>2. x \in B
        BY <1>13, <2>6, <3>1, <3>3, <4>1, FirstNPrefix
      <4> QED
        BY <4>2
    <3>4. CASE x \in V
      BY <2>6, <3>4
    <3> QED
      BY <2>6, <3>2, <3>3, <3>4
  <2>7. S \in SUBSET Nat /\ IsFiniteSet(S)
    BY <1>1, FS_RemoveElement
  <2> HIDE DEF S, F, V, B
  <2>8. FirstN(S, FreeStock(a)) = F
    BY <1>13, <2>1, <2>4, <2>5, <2>6, <2>7, PrefixIsFirstN
  <2> QED
    BY <1>10, <2>8 DEF NextInLine
<1> PICK ra : ra = Reconcile(a)
  OBVIOUS
<1> PICK rb : rb = Reconcile(b)
  OBVIOUS
<1>16. /\ Sound(ra) /\ ra.stock = a.stock /\ ra.next = a.next
       /\ DOMAIN ra.attempts = DOMAIN a.attempts
       /\ \A j \in DOMAIN a.attempts :
            /\ ra.attempts[j].user = a.attempts[j].user
            /\ ra.attempts[j].key = a.attempts[j].key
            /\ ra.attempts[j].state = StateAfter(a, j)
  BY <1>6, NothingDue
<1>17. /\ Sound(rb) /\ rb.stock = b.stock /\ rb.next = b.next
       /\ DOMAIN rb.attempts = DOMAIN b.attempts
       /\ \A j \in DOMAIN b.attempts :
            /\ rb.attempts[j].user = b.attempts[j].user
            /\ rb.attempts[j].key = b.attempts[j].key
            /\ rb.attempts[j].state = StateAfter(b, j)
  BY <1>7, <1>12, NothingDue
<1>18. ASSUME NEW j \in DOMAIN t.attempts
       PROVE  /\ ra.attempts[j].user = rb.attempts[j].user
              /\ ra.attempts[j].key = rb.attempts[j].key
              /\ ra.attempts[j].state = rb.attempts[j].state
  <2>1. /\ StateAfter(a, j) = IF j \in F THEN "invited" ELSE a.attempts[j].state
        /\ StateAfter(b, j) = IF j \in B THEN "invited" ELSE b.attempts[j].state
        /\ StateAfter(t, j) = IF j \in V THEN "invited" ELSE t.attempts[j].state
    BY <1>2, <1>8, <1>15 DEF StateAfter
  <2>2. CASE j = i
    <3>1. i \notin F /\ i \notin B
      BY <1>11, <1>13
    <3>2. StateAfter(a, j) = StateAfter(b, j)
      BY <1>9, <2>1, <2>2, <3>1
    <3> QED
      BY <1>2, <1>4, <1>6, <1>7, <1>9, <1>16, <1>17, <2>2, <3>2
  <2>3. CASE j # i
    <3>1. a.attempts[j] = t.attempts[j] /\ b.attempts[j] = q.attempts[j]
      BY <1>2, <1>6, <1>7, <2>3
    <3>2. b.attempts[j].state = StateAfter(t, j)
      BY <1>2, <3>1
    <3>3. j \in F <=> j \in V \/ j \in B
      BY <2>3
    <3>4. StateAfter(a, j) = StateAfter(b, j)
      BY <2>1, <3>1, <3>2, <3>3
    <3> QED
      BY <1>2, <1>6, <1>7, <1>16, <1>17, <3>1, <3>4
  <2> QED
    BY <2>2, <2>3
<1>19. ra.stock = rb.stock /\ ra.next = rb.next /\ DOMAIN ra.attempts = DOMAIN rb.attempts
  BY <1>2, <1>6, <1>7, <1>8, <1>16, <1>17
<1>20. DOMAIN ra.attempts = DOMAIN t.attempts
  BY <1>6, <1>16
<1>21. Shown(ra) = Shown(rb)
  BY <1>16, <1>17, <1>18, <1>19, <1>20, ShownAlike
<1> QED
  BY <1>21

-----------------------------------------------------------------------------
(***************************************************************************)
(* The mock.                                                               *)
(***************************************************************************)
(* A product of the mock: its counter is right, whoever bought it used the *)
(* one reference, or none if the fixture says so, and no deadline passes.  *)
MockReferences(t) ==
  \A i \in DOMAIN t.attempts : t.attempts[i].ref \in {NoReference, MockReference}

MockProduct(t) == Sound(t) /\ MockReferences(t) /\ Due(t) = {}

(* A fixture whose reservations are counted.                               *)
LEMMA FixtureIsSound ==
  ASSUME NEW stock \in 0 .. MaxStock, NEW length \in 0 .. 5,
         NEW next, next = length + 1, next <= MaxSequence,
         NEW enabled \in BOOLEAN, NEW states, states \in [1 .. length -> Active \cup Terminal],
         NEW reserved \in 0 .. stock,
         reserved = Cardinality({n \in 1 .. length : states[n] \in Reserving})
  PROVE  MockProduct(Fixture(stock, reserved, next, enabled, states))
<1> DEFINE line == [n \in DOMAIN states |-> fixtureAttempt(n, states[n])]
           t == Fixture(stock, reserved, next, enabled, states)
<1>1. /\ t.stock = stock /\ t.reserved = reserved /\ t.next = next
      /\ t.attempts = line /\ ~t.failed
  BY DEF Fixture
<1>2. ASSUME NEW n \in 1 .. length
      PROVE  /\ fixtureAttempt(n, states[n]) \in Attempt
             /\ fixtureAttempt(n, states[n]).state = states[n]
             /\ fixtureAttempt(n, states[n]).ref = NoReference
             /\ states[n] \in Reserving => fixtureAttempt(n, states[n]).left # 0
  <2>1. n \in 1 .. 5 /\ states[n] \in Active \cup Terminal
    OBVIOUS
  <2>2. DemoUser[n] \in Users /\ FixtureKey \in Keys
    BY <2>1, MockAssumption
  <2>3. (CASE states[n] = "invited" -> InvitationTTL
           [] states[n] = "checkout" -> CheckoutTTL
           [] OTHER -> 0) \in Nat
    BY TTLAssumption
  <2>4. states[n] \in Reserving => fixtureAttempt(n, states[n]).left # 0
    BY TTLAssumption DEF fixtureAttempt, Reserving
  <2> QED
    BY <2>1, <2>2, <2>3, <2>4 DEF fixtureAttempt, Attempt
<1> HIDE DEF line
<1>3. /\ line \in [1 .. length -> Attempt]
      /\ \A n \in 1 .. length :
           /\ line[n].state = states[n] /\ line[n].ref = NoReference
           /\ states[n] \in Reserving => line[n].left # 0
  BY <1>2 DEF line
<1>4. WellFormed(t)
  <2>1. next \in 1 .. MaxSequence /\ next - 1 = length
    BY BoundAssumption
  <2>2. t = [stock |-> stock, reserved |-> reserved, next |-> next, enabled |-> enabled,
             attempts |-> line, outbox |-> {}, failed |-> FALSE]
    BY DEF Fixture, line
  <2>3. stock \in 0 .. MaxStock /\ reserved \in Int /\ enabled \in BOOLEAN
    OBVIOUS
  <2> HIDE DEF t
  <2>4. t.next - 1 = length
    BY <1>1, <2>1
  <2> QED
    BY <1>3, <2>1, <2>2, <2>3, <2>4 DEF WellFormed
<1>5. Holders(t) = {n \in 1 .. length : states[n] \in Reserving}
  BY <1>1, <1>3 DEF Holders, InState
<1>6. Consistent(t) /\ MockReferences(t)
  BY <1>1, <1>3, <1>5 DEF Consistent, MockReferences
<1>7. Due(t) = {}
  BY <1>1, <1>3, <1>5 DEF Due
<1> QED
  BY <1>1, <1>4, <1>6, <1>7 DEF MockProduct, Sound

(* So is every product the mock is set up with, and the one before.        *)
LEMMA FixturesAreSound ==
  /\ MockProduct(NoMock)
  /\ \A t \in newState : MockProduct(t)
<1> USE DEF Active, Reserving, Terminal
<1>0. /\ MaxStock \in Nat /\ MaxStock >= 10
      /\ MaxSequence \in Nat /\ MaxSequence >= 6
  BY BoundAssumption, MockAssumption
<1>1. \A s \in 0 .. 10 : s \in 0 .. MaxStock
  BY <1>0
<1>2. ASSUME NEW stock \in 0 .. 10, NEW enabled \in BOOLEAN
      PROVE  MockProduct(Fixture(stock, 0, 1, enabled, << >>))
  <2>1. << >> \in [1 .. 0 -> Active \cup Terminal]
    OBVIOUS
  <2>2. {n \in 1 .. 0 : << >>[n] \in Reserving} = {}
    OBVIOUS
  <2>3. 0 = Cardinality({n \in 1 .. 0 : << >>[n] \in Reserving})
    BY <2>2, FS_EmptySet
  <2>4. /\ 1 <= MaxSequence /\ 0 \in 0 .. stock /\ 0 \in 0 .. 5 /\ 1 = 0 + 1
        /\ stock \in 0 .. MaxStock
    BY <1>0, <1>1
  <2> QED
    BY <2>1, <2>3, <2>4, FixtureIsSound
<1>3. MockProduct(Fixture(1, 1, 4, TRUE, <<"checkout", "waiting", "waiting">>))
  <2> DEFINE states == <<"checkout", "waiting", "waiting">>
  <2>1. states \in [1 .. 3 -> Active \cup Terminal]
    OBVIOUS
  <2>2. {n \in 1 .. 3 : states[n] \in Reserving} = {1}
    OBVIOUS
  <2>3. 1 = Cardinality({n \in 1 .. 3 : states[n] \in Reserving})
    BY <2>2, FS_Singleton
  <2>4. /\ 4 <= MaxSequence /\ 1 \in 0 .. 1 /\ 3 \in 0 .. 5 /\ 4 = 3 + 1
        /\ 1 \in 0 .. MaxStock /\ TRUE \in BOOLEAN
    BY <1>0, <1>1
  <2> HIDE DEF states
  <2>5. MockProduct(Fixture(1, 1, 4, TRUE, states))
    BY <2>1, <2>3, <2>4, FixtureIsSound
  <2> QED
    BY <2>5 DEF states
<1>4. MockProduct(Fixture(3, 1, 6, TRUE, <<"invited", "purchased", "cancelled",
                                           "invite_expired", "checkout_expired">>))
  <2> DEFINE states == <<"invited", "purchased", "cancelled",
                         "invite_expired", "checkout_expired">>
  <2>1. states \in [1 .. 5 -> Active \cup Terminal]
    OBVIOUS
  <2>2. {n \in 1 .. 5 : states[n] \in Reserving} = {1}
    OBVIOUS
  <2>3. 1 = Cardinality({n \in 1 .. 5 : states[n] \in Reserving})
    BY <2>2, FS_Singleton
  <2>4. /\ 6 <= MaxSequence /\ 1 \in 0 .. 3 /\ 5 \in 0 .. 5 /\ 6 = 5 + 1
        /\ 3 \in 0 .. MaxStock /\ TRUE \in BOOLEAN
    BY <1>0, <1>1
  <2> HIDE DEF states
  <2>5. MockProduct(Fixture(3, 1, 6, TRUE, states))
    BY <2>1, <2>3, <2>4, FixtureIsSound
  <2> QED
    BY <2>5 DEF states
<1>5. MockProduct(Fixture(0, 0, 1, TRUE, << >>)) /\ MockProduct(Fixture(10, 0, 1, FALSE, << >>))
  <2>1. 0 \in 0 .. 10 /\ 10 \in 0 .. 10 /\ TRUE \in BOOLEAN /\ FALSE \in BOOLEAN
    OBVIOUS
  <2> QED
    BY <1>2, <2>1
<1> QED
  BY <1>3, <1>4, <1>5 DEF newState, NoMock

(***************************************************************************)
(* The operations of the mock, when they do something.                     *)
(***************************************************************************)
LEMMA MockJoinAppends ==
  ASSUME NEW t, MockProduct(t), NEW u \in Users, NEW k \in Keys,
         NEW r, r = MockJoin(t, u, k), r # t, r.next <= MaxSequence
  PROVE  /\ ~Replayed(t, u, k) /\ ActiveOf(t, u) = {} /\ Admissible(t)
         /\ t.next # MaxSequence
         /\ \/ t.reserved < t.stock /\ r = Appended(t, u, k, "checkout", CheckoutTTL)
            \/ t.reserved >= t.stock /\ r = Appended(t, u, k, "waiting", 0)
<1>1. t.stock \in Nat /\ t.reserved \in Int /\ t.next \in Nat /\ MaxSequence \in Nat
  BY Fields, BoundAssumption DEF MockProduct, Sound
<1>2. ~Replayed(t, u, k) /\ ActiveOf(t, u) = {} /\ Admissible(t)
  BY DEF MockJoin
<1>3. \/ t.reserved < t.stock /\ r = Appended(t, u, k, "checkout", CheckoutTTL)
      \/ t.reserved >= t.stock /\ r = Appended(t, u, k, "waiting", 0)
  BY <1>1, <1>2 DEF MockJoin, FreeStock
<1>4. r.next = t.next + 1
  BY <1>3 DEF Appended, MockProduct, Sound, WellFormed
<1> QED
  BY <1>1, <1>2, <1>3, <1>4

LEMMA MockJoinKeeps ==
  ASSUME NEW t, MockProduct(t), NEW u \in Users, NEW k \in Keys,
         NEW r, r = MockJoin(t, u, k), r # t, r.next <= MaxSequence
  PROVE  MockProduct(r)
<1>1. PICK state \in {"checkout", "waiting"}, left \in Nat :
         /\ r = Appended(t, u, k, state, left)
         /\ t.next # MaxSequence
         /\ \/ state = "checkout" /\ left # 0 /\ t.reserved < t.stock
            \/ state = "waiting" /\ t.reserved >= t.stock
         /\ t.stock > 0
  BY MockJoinAppends, TTLAssumption DEF Admissible
<1>2. state = "checkout" => t.reserved < t.stock
  BY <1>1
<1>3. t.stock \in Nat /\ t.reserved \in Int
  BY Fields DEF MockProduct, Sound
<1>4. /\ Sound(r)
      /\ r.stock = t.stock
      /\ r.reserved = IF state = "checkout" THEN t.reserved + 1 ELSE t.reserved
      /\ DOMAIN r.attempts = DOMAIN t.attempts \cup {t.next}
      /\ r.attempts[t.next].state = state /\ r.attempts[t.next].left = left
      /\ r.attempts[t.next].ref = NoReference
      /\ \A i \in DOMAIN t.attempts : r.attempts[i] = t.attempts[i]
  BY <1>1, <1>2, AppendKeepsSound DEF MockProduct
<1>5. MockReferences(r)
  BY <1>4 DEF MockProduct, MockReferences
<1>6. Due(r) = {}
  BY <1>1, <1>4 DEF MockProduct, Due, Holders, InState, Reserving
<1> QED
  BY <1>4, <1>5, <1>6 DEF MockProduct

LEMMA MockLeaveKeeps ==
  ASSUME NEW t, MockProduct(t), NEW u \in Users, Cancellable(t, u) # {}
  PROVE  MockProduct(Released(t, ToCancel(t, u), "cancelled"))
<1> PICK i : i = ToCancel(t, u)
  OBVIOUS
<1>1. i \in Cancellable(t, u)
  BY DEF ToCancel
<1>2. i \in DOMAIN t.attempts /\ t.attempts[i].state \in Active
  BY <1>1 DEF Cancellable, InState
<1>3. LegalMove(t.attempts[i].state, "cancelled")
  BY <1>2 DEF Active, Reserving, LegalMove
<1> PICK r : r = Released(t, i, "cancelled")
  OBVIOUS
<1>4. /\ Sound(r) /\ DOMAIN r.attempts = DOMAIN t.attempts
      /\ \A k \in DOMAIN t.attempts : k # i => r.attempts[k] = t.attempts[k]
      /\ r.attempts[i] = Moved(t.attempts[i], "cancelled", 0)
  BY <1>2, <1>3, ReleaseKeepsSound DEF MockProduct
<1>5. r.attempts[i].ref = t.attempts[i].ref
  <2>1. t.attempts[i] \in Attempt /\ "cancelled" \in Active \cup Terminal
    BY <1>2, Fields DEF MockProduct, Sound, Terminal
  <2> QED
    BY <1>4, <2>1, MovedFields
<1>6. MockReferences(r)
  BY <1>4, <1>5 DEF MockProduct, MockReferences
<1>7. Due(r) = {}
  <2>1. t.attempts[i] \in Attempt /\ "cancelled" \in Active \cup Terminal
    BY <1>2, Fields DEF MockProduct, Sound, Terminal
  <2>2. r.attempts[i].state = "cancelled"
    BY <1>4, <2>1, MovedFields
  <2> QED
    BY <1>4, <2>2 DEF MockProduct, Due, Holders, InState, Reserving
<1> QED
  BY <1>4, <1>6, <1>7 DEF MockProduct

LEMMA MockStartKeeps ==
  ASSUME NEW t, MockProduct(t), NEW i \in DOMAIN t.attempts,
         t.attempts[i].state = "invited",
         NEW r, r = [t EXCEPT !.attempts[i] = Moved(@, "checkout", CheckoutTTL)]
  PROVE  MockProduct(r)
<1>1. /\ Sound(r) /\ DOMAIN r.attempts = DOMAIN t.attempts
      /\ \A k \in DOMAIN t.attempts : k # i => r.attempts[k] = t.attempts[k]
      /\ r.attempts[i] = Moved(t.attempts[i], "checkout", CheckoutTTL)
      /\ r.reserved = t.reserved /\ r.stock = t.stock
  BY StartKeepsSound DEF MockProduct
<1>2. /\ r.attempts[i].ref = t.attempts[i].ref
      /\ r.attempts[i].state = "checkout" /\ r.attempts[i].left # 0
  <2>1. t.attempts[i] \in Attempt /\ "checkout" \in Active \cup Terminal
    BY Fields DEF MockProduct, Sound, Active, Reserving
  <2> QED
    BY <1>1, <2>1, MovedFields, TTLAssumption
<1>3. MockReferences(r)
  BY <1>1, <1>2 DEF MockProduct, MockReferences
<1>4. Due(r) = {}
  BY <1>1, <1>2 DEF MockProduct, Due, Holders, InState, Reserving
<1> QED
  BY <1>1, <1>3, <1>4 DEF MockProduct

LEMMA MockPurchaseKeeps ==
  ASSUME NEW t, MockProduct(t), NEW i \in DOMAIN t.attempts,
         t.attempts[i].state = "checkout"
  PROVE  MockProduct(Purchased(t, i, MockReference))
<1> PICK r : r = Purchased(t, i, MockReference)
  OBVIOUS
<1>1. /\ Sound(r) /\ DOMAIN r.attempts = DOMAIN t.attempts
      /\ \A k \in DOMAIN t.attempts : k # i => r.attempts[k] = t.attempts[k]
      /\ r.attempts[i].ref = MockReference /\ r.attempts[i].state = "purchased"
  BY MockAssumption, PurchaseKeepsSound DEF MockProduct
<1>2. MockReferences(r)
  BY <1>1 DEF MockProduct, MockReferences
<1>3. Due(r) = {}
  BY <1>1 DEF MockProduct, Due, Holders, InState, Reserving
<1> QED
  BY <1>1, <1>2, <1>3 DEF MockProduct

LEMMA MockStepKeeps ==
  ASSUME NEW t, MockProduct(t), NEW r \in MockSteps(t), r.next <= MaxSequence
  PROVE  MockProduct(r)
<1>1. ASSUME NEW u \in Users, NEW k \in Keys, r = MockJoin(t, u, k)
      PROVE  MockProduct(r)
  BY <1>1, MockJoinKeeps
<1>2. ASSUME NEW u \in Users, r = MockLeave(t, u)
      PROVE  MockProduct(r)
  BY <1>2, MockLeaveKeeps DEF MockLeave
<1>3. ASSUME NEW i \in DOMAIN t.attempts, NEW u \in Users, r = MockStart(t, i, u)
      PROVE  MockProduct(r)
  <2>1. CASE t.attempts[i].user = u /\ t.attempts[i].state = "invited"
    <3>1. r = [t EXCEPT !.attempts[i] = Moved(@, "checkout", CheckoutTTL)]
      BY <1>3, <2>1 DEF MockStart
    <3> QED
      BY <2>1, <3>1, MockStartKeeps
  <2>2. CASE ~ (t.attempts[i].user = u /\ t.attempts[i].state = "invited")
    BY <1>3, <2>2 DEF MockStart
  <2> QED
    BY <2>1, <2>2
<1>4. ASSUME NEW i \in DOMAIN t.attempts, NEW u \in Users, r = MockCompleteDemo(t, i, u)
      PROVE  MockProduct(r)
  BY <1>4, MockPurchaseKeeps DEF MockCompleteDemo
<1> QED
  BY <1>1, <1>2, <1>3, <1>4 DEF MockSteps

(***************************************************************************)
(* What the mock does and a repository does too.                           *)
(***************************************************************************)
(* Products that differ in payment references only are reconciled alike.   *)
LEMMA ReferencesAreNotShown ==
  ASSUME NEW t, Sound(t), NEW t2, Sound(t2),
         t2.stock = t.stock, t2.reserved = t.reserved, t2.next = t.next,
         DOMAIN t2.attempts = DOMAIN t.attempts,
         \A i \in DOMAIN t.attempts :
           /\ t2.attempts[i].user = t.attempts[i].user
           /\ t2.attempts[i].key = t.attempts[i].key
           /\ t2.attempts[i].state = t.attempts[i].state
           /\ t2.attempts[i].left = t.attempts[i].left
  PROVE  Shown(Reconcile(t)) = Shown(Reconcile(t2))
<1> DEFINE limit == 2 * Cardinality(InState(t, Active)) + 1
           r == ReconcileBounded(t, limit)
           r2 == ReconcileBounded(t2, limit)
<1> USE DEF Sound
<1>1. limit \in Nat
  <2>1. InState(t, Active) \in SUBSET DOMAIN t.attempts
    BY DEF InState
  <2>2. Cardinality(InState(t, Active)) \in Nat
    BY <2>1, AttemptSets
  <2> QED
    BY <2>2
<1>2. /\ InState(t2, Active) = InState(t, Active)
      /\ Waiting(t2) = Waiting(t) /\ Due(t2) = Due(t)
  BY DEF InState, Waiting, Due, Holders
<1>3. r = Reconcile(t) /\ r2 = Reconcile(t2)
  BY <1>2 DEF Reconcile
<1> HIDE DEF limit
<1>4. /\ ToExpire(t2, limit) = ToExpire(t, limit)
      /\ Budget(t2, limit) = Budget(t, limit)
      /\ StillHeld(t2, limit) = StillHeld(t, limit)
  BY <1>2 DEF ToExpire, Budget, StillHeld
<1>5. ToSellOut(t2, limit) = ToSellOut(t, limit) /\ ToInvite(t2, limit) = ToInvite(t, limit)
  BY <1>2, <1>4 DEF ToSellOut, ToInvite
<1>6. /\ r.stock = t.stock /\ r.next = t.next
      /\ r.reserved = StillHeld(t, limit) + Cardinality(ToInvite(t, limit))
      /\ DOMAIN r.attempts = DOMAIN t.attempts
      /\ \A i \in DOMAIN t.attempts :
           /\ r.attempts[i].user = t.attempts[i].user
           /\ r.attempts[i].key = t.attempts[i].key
           /\ r.attempts[i].state =
                IF i \in ToExpire(t, limit) THEN ExpiredState(t.attempts[i])
                ELSE IF i \in ToSellOut(t, limit) THEN "sold_out"
                ELSE IF i \in ToInvite(t, limit) THEN "invited"
                ELSE t.attempts[i].state
  BY <1>1, ReconciledFields
<1>7. /\ r2.stock = t2.stock /\ r2.next = t2.next
      /\ r2.reserved = StillHeld(t2, limit) + Cardinality(ToInvite(t2, limit))
      /\ DOMAIN r2.attempts = DOMAIN t2.attempts
      /\ \A i \in DOMAIN t2.attempts :
           /\ r2.attempts[i].user = t2.attempts[i].user
           /\ r2.attempts[i].key = t2.attempts[i].key
           /\ r2.attempts[i].state =
                IF i \in ToExpire(t2, limit) THEN ExpiredState(t2.attempts[i])
                ELSE IF i \in ToSellOut(t2, limit) THEN "sold_out"
                ELSE IF i \in ToInvite(t2, limit) THEN "invited"
                ELSE t2.attempts[i].state
  BY <1>1, ReconciledFields
<1> HIDE DEF r, r2
<1>8. \A i \in DOMAIN t.attempts : ExpiredState(t2.attempts[i]) = ExpiredState(t.attempts[i])
  BY DEF ExpiredState
<1>9. /\ r2.stock = r.stock /\ r2.next = r.next /\ r2.reserved = r.reserved
      /\ DOMAIN r2.attempts = DOMAIN r.attempts
      /\ \A i \in DOMAIN r.attempts :
           /\ r2.attempts[i].user = r.attempts[i].user
           /\ r2.attempts[i].key = r.attempts[i].key
           /\ r2.attempts[i].state = r.attempts[i].state
  BY <1>4, <1>5, <1>6, <1>7, <1>8
<1>10. Shown(r) = Shown(r2)
  BY <1>9 DEF Shown
<1> QED
  BY <1>3, <1>10

LEMMA JoinStandsFor ==
  ASSUME NEW t, MockProduct(t), NEW u \in Users, NEW k \in Keys,
         NEW r, r = MockJoin(t, u, k), r # t, r.next <= MaxSequence,
         ~Overtakes(t, r), ~WaitsBeyondBuffer(t, r)
  PROVE  StandsFor(t, r)
<1> DEFINE percent == MaxWaitingBuffer
<1>1. /\ ~Replayed(t, u, k) /\ ActiveOf(t, u) = {} /\ Admissible(t)
      /\ t.next # MaxSequence
      /\ \/ t.reserved < t.stock /\ r = Appended(t, u, k, "checkout", CheckoutTTL)
         \/ t.reserved >= t.stock /\ r = Appended(t, u, k, "waiting", 0)
  BY MockJoinAppends
<1>2. Sound(t) /\ Due(t) = {} /\ MockProduct(r) /\ Sound(r) /\ Due(r) = {}
  BY MockJoinKeeps DEF MockProduct
<1>3. /\ t.stock \in Nat \ {0} /\ t.reserved \in Nat /\ FreeStock(t) \in Nat /\ t.enabled
      /\ Cardinality(Waiting(t)) \in Nat /\ IsFiniteSet(Waiting(t)) /\ Waiting(t) \in SUBSET Nat
  BY <1>1, <1>2, LineSets DEF Admissible
<1> PICK q : q = Reconcile(t)
  OBVIOUS
<1>4. /\ Sound(q) /\ q.stock = t.stock /\ q.next = t.next /\ q.enabled = t.enabled
      /\ q.reserved = t.reserved + Cardinality(NextInLine(t))
      /\ DOMAIN q.attempts = DOMAIN t.attempts
      /\ \A i \in DOMAIN t.attempts :
           /\ q.attempts[i].user = t.attempts[i].user
           /\ q.attempts[i].key = t.attempts[i].key
           /\ q.attempts[i].state = StateAfter(t, i)
  BY <1>2, <1>3, NothingDue
<1>5. JoinTx(t, u, k, percent) = CreateAttempt(q, u, k, percent)
  <2>1. AdmitTx(t, u, k, percent) = CreateAttempt(q, u, k, percent)
    BY <1>1, <1>3, <1>4 DEF AdmitTx
  <2> QED
    BY <1>1, <2>1 DEF JoinTx, Refreshed
<1>6. SUFFICES Shown(Reconcile(r)) = Shown(JoinTx(t, u, k, percent))
  BY MockAssumption DEF StandsFor, RepositoryShows
<1>7. CASE t.reserved < t.stock /\ r = Appended(t, u, k, "checkout", CheckoutTTL)
  <2>1. /\ r.stock = t.stock /\ r.reserved = t.reserved + 1 /\ r.next = t.next + 1
        /\ t.next \notin DOMAIN t.attempts
        /\ DOMAIN r.attempts = DOMAIN t.attempts \cup {t.next}
        /\ r.attempts[t.next].user = u /\ r.attempts[t.next].key = k
        /\ r.attempts[t.next].state = "checkout"
        /\ \A i \in DOMAIN t.attempts : r.attempts[i] = t.attempts[i]
    <3>1. r.next = t.next + 1
      BY <1>2, <1>7 DEF Appended, Sound, WellFormed
    <3> QED
      BY <1>1, <1>2, <1>7, <3>1, AppendKeepsSound, TTLAssumption
  <2>2. t.next \in Nat /\ r.next > t.next
    BY <1>2, <2>1, Fields DEF Sound
  <2>3. Cardinality(Waiting(t)) < FreeStock(t)
    BY <1>3, <2>1, <2>2 DEF Overtakes, Joined
  <2>4. NextInLine(t) = Waiting(t)
    BY <1>3, <2>3, FirstNCounts DEF NextInLine
  <2>5. q.reserved < q.stock
    BY <1>3, <1>4, <2>3, <2>4 DEF FreeStock
  <2> PICK b : b = Appended(q, u, k, "checkout", CheckoutTTL)
    OBVIOUS
  <2>6. JoinTx(t, u, k, percent) = b
    <3>1. CreateAttempt(q, u, k, percent) = Appended(q, u, k, "checkout", CheckoutTTL)
      <4>1. q.next # MaxSequence /\ q.reserved < q.stock
        BY <1>1, <1>4, <2>5
      <4>2. ~ (q.reserved >= q.stock)
        <5>1. q.reserved \in Int /\ q.stock \in Int
          BY <1>4, Fields DEF Sound
        <5> QED
          BY <4>1, <5>1
      <4> QED
        BY <4>1, <4>2 DEF CreateAttempt
    <3> QED
      BY <1>5, <3>1
  <2>7. /\ Sound(b) /\ b.stock = t.stock /\ b.next = t.next + 1
        /\ DOMAIN b.attempts = DOMAIN t.attempts \cup {t.next}
        /\ b.attempts[t.next].user = u /\ b.attempts[t.next].key = k
        /\ b.attempts[t.next].state = "checkout"
        /\ \A i \in DOMAIN t.attempts : b.attempts[i] = q.attempts[i]
    <3>1. b.next = q.next + 1
      BY <1>4 DEF Appended, Sound, WellFormed
    <3>2. q.next # MaxSequence
      BY <1>1, <1>4
    <3>3. CheckoutTTL \in Nat
      BY TTLAssumption
    <3> QED
      BY <1>4, <2>5, <3>1, <3>2, <3>3, AppendKeepsSound
  <2>8. Waiting(r) = Waiting(t)
    BY <2>1 DEF Waiting, InState
  <2>9. NextInLine(r) = Waiting(r)
    <3>1. FreeStock(r) = FreeStock(t) - 1
      BY <1>3, <2>1 DEF FreeStock
    <3>2. FreeStock(r) \in Nat /\ Cardinality(Waiting(r)) <= FreeStock(r)
      BY <1>3, <2>3, <2>8, <3>1
    <3> QED
      BY <1>3, <2>8, <3>2, FirstNCounts DEF NextInLine
  <2> PICK a : a = Reconcile(r)
    OBVIOUS
  <2>10. /\ Sound(a) /\ a.stock = r.stock /\ a.next = r.next
         /\ DOMAIN a.attempts = DOMAIN r.attempts
         /\ \A i \in DOMAIN r.attempts :
              /\ a.attempts[i].user = r.attempts[i].user
              /\ a.attempts[i].key = r.attempts[i].key
              /\ a.attempts[i].state = StateAfter(r, i)
    BY <1>2, NothingDue
  <2>11. ASSUME NEW i \in DOMAIN t.attempts
         PROVE  StateAfter(r, i) = StateAfter(t, i)
    BY <1>3, <2>1, <2>4, <2>8, <2>9 DEF StateAfter
  <2>12. StateAfter(r, t.next) = "checkout"
    <3>1. t.next \notin Waiting(r)
      BY <2>1 DEF Waiting, InState
    <3> QED
      BY <2>1, <2>9, <3>1 DEF StateAfter
  <2>13. ASSUME NEW i \in DOMAIN a.attempts
         PROVE  /\ a.attempts[i].user = b.attempts[i].user
                /\ a.attempts[i].key = b.attempts[i].key
                /\ a.attempts[i].state = b.attempts[i].state
    <3>1. CASE i = t.next
      BY <2>1, <2>7, <2>10, <2>12, <3>1
    <3>2. CASE i \in DOMAIN t.attempts
      <4>1. r.attempts[i] = t.attempts[i] /\ b.attempts[i] = q.attempts[i]
        BY <2>1, <2>7, <3>2
      <4> QED
        BY <1>4, <2>1, <2>10, <2>11, <3>2, <4>1
    <3> QED
      BY <2>1, <2>10, <3>1, <3>2
  <2>14. Shown(a) = Shown(b)
    <3>1. Sound(a) /\ Sound(b) /\ a.stock = b.stock /\ a.next = b.next
      BY <2>1, <2>7, <2>10
    <3>2. DOMAIN a.attempts = DOMAIN b.attempts
      BY <2>1, <2>7, <2>10
    <3> QED
      BY <2>13, <3>1, <3>2, ShownAlike
  <2> QED
    BY <2>6, <2>14
<1>8. CASE t.reserved >= t.stock /\ r = Appended(t, u, k, "waiting", 0)
  <2>1. /\ r.stock = t.stock /\ r.reserved = t.reserved /\ r.next = t.next + 1
        /\ r.attempts[t.next].state = "waiting"
    <3>1. r.next = t.next + 1
      BY <1>2, <1>8 DEF Appended, Sound, WellFormed
    <3> QED
      BY <1>1, <1>2, <1>8, <3>1, AppendKeepsSound
  <2>2. t.next \in Nat /\ r.next > t.next
    BY <1>2, <2>1, Fields DEF Sound
  <2>3. ~ (Cardinality(Waiting(t)) >= WaitingCapacity(t.stock, percent))
    BY <2>1, <2>2 DEF WaitsBeyondBuffer, Joined
  <2>4. WaitingCapacity(t.stock, percent) \in Int
    BY <1>3, BufferAssumption DEF WaitingCapacity
  <2>5. Cardinality(Waiting(t)) < WaitingCapacity(t.stock, percent)
    BY <1>3, <2>3, <2>4
  <2>6. ~HasReconciliationWork(t) /\ ~HasReconciliationWork(r)
    BY <1>2, <1>3, <1>8, <2>1 DEF HasReconciliationWork
  <2>7. q = t /\ Reconcile(r) = r
    BY <1>2, <2>6, SettledStays
  <2>8. CreateAttempt(t, u, k, percent) = r
    BY <1>1, <1>3, <1>8, <2>5 DEF CreateAttempt
  <2> QED
    BY <1>5, <2>7, <2>8
<1> QED
  BY <1>1, <1>7, <1>8

(* Where nothing is left nobody holds a reservation.                       *)
LEMMA NoStockNoHolder ==
  ASSUME NEW t, Sound(t), t.stock = 0
  PROVE  Holders(t) = {} /\ InState(t, Active) = Waiting(t)
<1>1. Holders(t) = {}
  BY HolderIsCounted DEF Sound, Consistent
<1>2. InState(t, Active) = Waiting(t) \cup Holders(t)
  BY DEF InState, Waiting, Holders, Active
<1> QED
  BY <1>1, <1>2

LEMMA LeaveStandsFor ==
  ASSUME NEW t, MockProduct(t), NEW u \in Users, NEW r, r = MockLeave(t, u), r # t,
         ~LeavesSoldOut(t, r)
  PROVE  StandsFor(t, r)
<1> PICK i : i = ToCancel(t, u)
  OBVIOUS
<1>1. Cancellable(t, u) # {} /\ r = Released(t, i, "cancelled")
  BY DEF MockLeave
<1>2. i \in Cancellable(t, u)
  BY <1>1 DEF ToCancel
<1>3. i \in InState(t, Active) /\ i \in DOMAIN t.attempts
  BY <1>2 DEF Cancellable, InState
<1>4. Sound(t) /\ Due(t) = {} /\ MockProduct(r) /\ Due(r) = {}
  BY <1>1, MockLeaveKeeps DEF MockProduct
<1>5. t.stock # 0
  <2>1. SUFFICES ASSUME t.stock = 0 PROVE FALSE
    OBVIOUS
  <2>2. i \in Waiting(t)
    BY <1>3, <1>4, <2>1, NoStockNoHolder
  <2>3. LegalMove(t.attempts[i].state, "cancelled")
    BY <2>2 DEF LegalMove, Waiting, InState
  <2>4. r.attempts[i] = Moved(t.attempts[i], "cancelled", 0)
    BY <1>1, <1>3, <1>4, <2>3, ReleaseKeepsSound
  <2>5. t.attempts[i] \in Attempt /\ "cancelled" \in Active \cup Terminal
    BY <1>3, <1>4, Fields DEF Sound, Terminal
  <2>6. r.attempts[i].state = "cancelled"
    BY <2>4, <2>5, MovedFields
  <2>7. i \notin Waiting(r)
    BY <2>6 DEF Waiting, InState
  <2> QED
    BY <2>1, <2>2, <2>7 DEF LeavesSoldOut
<1> PICK q : q = Reconcile(t)
  OBVIOUS
<1>6. /\ DOMAIN q.attempts = DOMAIN t.attempts
      /\ \A j \in DOMAIN t.attempts : q.attempts[j].user = t.attempts[j].user
  BY <1>4, NothingDue
<1>7. InState(q, Active) = InState(t, Active)
  BY <1>4, <1>5, InvitedFromTheHead
<1>8. OfUser(q, u) = OfUser(t, u)
  BY <1>6 DEF OfUser
<1>9. Cancellable(q, u) = Cancellable(t, u)
  BY <1>7, <1>8 DEF Cancellable, Latest
<1>10. ToCancel(q, u) = i
  BY <1>9 DEF ToCancel
<1>11. CancelTx(t, u) = Reconcile(Released(q, i, "cancelled"))
  BY <1>1, <1>9, <1>10 DEF CancelTx
<1>12. Shown(Reconcile(r)) = Shown(CancelTx(t, u))
  BY <1>1, <1>3, <1>4, <1>5, <1>11, ReleaseCommutes
<1> QED
  BY <1>12 DEF StandsFor, RepositoryShows

LEMMA StartStandsFor ==
  ASSUME NEW t, MockProduct(t), NEW i \in DOMAIN t.attempts, NEW u \in Users,
         NEW r, r = MockStart(t, i, u), r # t
  PROVE  StandsFor(t, r)
<1>1. /\ t.attempts[i].user = u /\ t.attempts[i].state = "invited"
      /\ r = [t EXCEPT !.attempts[i] = Moved(@, "checkout", CheckoutTTL)]
  BY DEF MockStart
<1>2. Sound(t) /\ Due(t) = {} /\ Sound(r) /\ Due(r) = {}
  BY <1>1, MockStartKeeps DEF MockProduct
<1>3. t.stock # 0
  <2>1. i \in Holders(t)
    BY <1>1 DEF Holders, InState, Reserving
  <2> QED
    BY <1>2, <2>1, NoStockNoHolder
<1> PICK q : q = Reconcile(t)
  OBVIOUS
<1>4. /\ Sound(q) /\ q.stock = t.stock /\ q.next = t.next
      /\ DOMAIN q.attempts = DOMAIN t.attempts
      /\ \A j \in DOMAIN t.attempts :
           /\ q.attempts[j].user = t.attempts[j].user
           /\ q.attempts[j].key = t.attempts[j].key
           /\ q.attempts[j].state = StateAfter(t, j)
  BY <1>2, NothingDue
<1>5. NextInLine(t) \in SUBSET Waiting(t)
  BY <1>2, LineSets
<1>6. i \notin NextInLine(t)
  BY <1>1, <1>5 DEF Waiting, InState
<1>7. q.attempts[i].user = u /\ q.attempts[i].state = "invited"
  BY <1>1, <1>3, <1>4, <1>6 DEF StateAfter
<1> PICK b : b = [q EXCEPT !.attempts[i] = Moved(@, "checkout", CheckoutTTL)]
  OBVIOUS
<1>8. StartCheckoutTx(t, i, u) = b
  BY <1>7 DEF StartCheckoutTx
<1>9. /\ DOMAIN r.attempts = DOMAIN t.attempts
      /\ \A k \in DOMAIN t.attempts : k # i => r.attempts[k] = t.attempts[k]
      /\ r.attempts[i] = Moved(t.attempts[i], "checkout", CheckoutTTL)
      /\ r.reserved = t.reserved /\ r.stock = t.stock /\ r.next = t.next
  <2>1. r.next = t.next
    BY <1>1, <1>2 DEF Sound, WellFormed
  <2> QED
    BY <1>1, <1>2, <2>1, StartKeepsSound
<1>10. /\ Sound(b) /\ DOMAIN b.attempts = DOMAIN q.attempts
       /\ \A k \in DOMAIN q.attempts : k # i => b.attempts[k] = q.attempts[k]
       /\ b.attempts[i] = Moved(q.attempts[i], "checkout", CheckoutTTL)
       /\ b.stock = q.stock /\ b.next = q.next
  <2>1. b.next = q.next
    BY <1>4 DEF Sound, WellFormed
  <2> QED
    BY <1>4, <1>7, <2>1, StartKeepsSound
<1>11. /\ r.attempts[i].user = t.attempts[i].user /\ r.attempts[i].key = t.attempts[i].key
       /\ r.attempts[i].state = "checkout"
       /\ b.attempts[i].user = q.attempts[i].user /\ b.attempts[i].key = q.attempts[i].key
       /\ b.attempts[i].state = "checkout"
  <2>1. "checkout" \in Active \cup Terminal /\ CheckoutTTL \in Nat
    BY TTLAssumption DEF Active, Reserving
  <2>2. t.attempts[i] \in Attempt /\ q.attempts[i] \in Attempt
    BY <1>2, <1>4, Fields DEF Sound
  <2> QED
    BY <1>9, <1>10, <2>1, <2>2, MovedFields
<1>12. Waiting(r) = Waiting(t)
  BY <1>1, <1>9, <1>11 DEF Waiting, InState
<1>13. NextInLine(r) = NextInLine(t)
  BY <1>9, <1>12 DEF NextInLine, FreeStock
<1> PICK a : a = Reconcile(r)
  OBVIOUS
<1>14. /\ Sound(a) /\ a.stock = r.stock /\ a.next = r.next
       /\ DOMAIN a.attempts = DOMAIN r.attempts
       /\ \A j \in DOMAIN r.attempts :
            /\ a.attempts[j].user = r.attempts[j].user
            /\ a.attempts[j].key = r.attempts[j].key
            /\ a.attempts[j].state = StateAfter(r, j)
  BY <1>2, NothingDue
<1>15. ASSUME NEW j \in DOMAIN a.attempts
       PROVE  /\ a.attempts[j].user = b.attempts[j].user
              /\ a.attempts[j].key = b.attempts[j].key
              /\ a.attempts[j].state = b.attempts[j].state
  <2>1. j \in DOMAIN t.attempts
    BY <1>9, <1>14
  <2>2. CASE j = i
    <3>1. StateAfter(r, i) = "checkout"
      BY <1>3, <1>6, <1>9, <1>11, <1>13 DEF StateAfter
    <3> QED
      BY <1>4, <1>9, <1>11, <1>14, <2>2, <3>1
  <2>3. CASE j # i
    <3>1. r.attempts[j] = t.attempts[j] /\ b.attempts[j] = q.attempts[j]
      BY <1>4, <1>9, <1>10, <2>1, <2>3
    <3>2. StateAfter(r, j) = StateAfter(t, j)
      BY <1>9, <1>12, <1>13, <3>1 DEF StateAfter
    <3> QED
      BY <1>4, <1>9, <1>14, <2>1, <3>1, <3>2
  <2> QED
    BY <2>2, <2>3
<1>16. a.stock = b.stock /\ a.next = b.next /\ DOMAIN a.attempts = DOMAIN b.attempts
  BY <1>4, <1>9, <1>10, <1>14
<1>17. Shown(a) = Shown(b)
  <2>1. Holders(a) = Holders(b)
    BY <1>15, <1>16 DEF Holders, InState
  <2>2. a.reserved = b.reserved
    BY <1>10, <1>14, <2>1 DEF Sound, Consistent
  <2> QED
    BY <1>15, <1>16, <2>2 DEF Shown
<1> QED
  BY <1>1, <1>8, <1>17 DEF StandsFor, RepositoryShows

(* The mock has one reference for all its payments; a payment under one of *)
(* its own would have done the same.                                       *)
LEMMA PurchaseStandsFor ==
  ASSUME NEW t, MockProduct(t), NEW i \in DOMAIN t.attempts, NEW u \in Users,
         NEW r, r = MockCompleteDemo(t, i, u), r # t
  PROVE  StandsFor(t, r)
<1>1. t.attempts[i].state = "checkout" /\ r = Purchased(t, i, MockReference)
  BY DEF MockCompleteDemo
<1>2. PICK ref \in References : ref # MockReference
  BY MockAssumption
<1>3. Sound(t) /\ Due(t) = {} /\ MockProduct(r) /\ Sound(r) /\ Due(r) = {}
  BY <1>1, MockPurchaseKeeps DEF MockProduct
<1>4. t.stock # 0 /\ i \in Holders(t)
  <2>1. i \in Holders(t)
    BY <1>1 DEF Holders, InState, Reserving
  <2> QED
    BY <1>3, <2>1, NoStockNoHolder
<1> PICK q : q = Reconcile(t)
  OBVIOUS
<1>5. /\ Sound(q) /\ Due(q) = {} /\ q.stock = t.stock /\ q.next = t.next
      /\ q.reserved = t.reserved + Cardinality(NextInLine(t))
      /\ DOMAIN q.attempts = DOMAIN t.attempts
      /\ \A j \in DOMAIN t.attempts :
           /\ q.attempts[j].user = t.attempts[j].user
           /\ q.attempts[j].key = t.attempts[j].key
           /\ q.attempts[j].ref = t.attempts[j].ref
           /\ q.attempts[j].state = StateAfter(t, j)
  BY <1>3, <1>4, NothingDue
<1>6. /\ t.stock \in Nat /\ t.reserved \in Nat /\ FreeStock(t) \in Nat
      /\ NextInLine(t) \in SUBSET Waiting(t)
  BY <1>3, LineSets
<1>7. i \notin NextInLine(t) /\ q.attempts[i].state = "checkout"
  <2>1. i \notin Waiting(t)
    BY <1>1 DEF Waiting, InState
  <2> QED
    BY <1>1, <1>5, <1>6, <2>1 DEF StateAfter
<1>8. ReferenceFree(q, ref, {})
  <2>1. ref # NoReference
    BY ReferenceAssumption
  <2>2. \A j \in DOMAIN q.attempts : q.attempts[j].ref # ref
    BY <1>2, <1>5, <2>1 DEF MockProduct, MockReferences
  <2> QED
    BY <2>2 DEF ReferenceFree, OwnedReferences, InState
<1> PICK b : b = Purchased(q, i, ref)
  OBVIOUS
<1>9. PaymentTx(t, i, "succeeded", ref, {}) = Reconcile(b)
  <2>1. PaymentCode(q, i, "succeeded", ref, {}) = "accepted"
    BY <1>7, <1>8 DEF PaymentCode
  <2> QED
    BY <2>1 DEF PaymentTx
<1>10. SUFFICES Shown(Reconcile(r)) = Shown(Reconcile(b))
  BY <1>9 DEF StandsFor, RepositoryShows
<1>11. /\ DOMAIN r.attempts = DOMAIN t.attempts
       /\ \A k \in DOMAIN t.attempts : k # i => r.attempts[k] = t.attempts[k]
       /\ r.attempts[i].user = t.attempts[i].user /\ r.attempts[i].key = t.attempts[i].key
       /\ r.attempts[i].state = "purchased" /\ r.attempts[i].left = 0
       /\ r.stock = t.stock - 1 /\ r.next = t.next /\ r.reserved = t.reserved - 1
  BY <1>1, <1>3, MockAssumption, PurchaseKeepsSound
<1>12. /\ Sound(b) /\ DOMAIN b.attempts = DOMAIN q.attempts
       /\ \A k \in DOMAIN q.attempts : k # i => b.attempts[k] = q.attempts[k]
       /\ b.attempts[i].user = q.attempts[i].user /\ b.attempts[i].key = q.attempts[i].key
       /\ b.attempts[i].state = "purchased" /\ b.attempts[i].left = 0
       /\ b.stock = q.stock - 1 /\ b.next = q.next /\ b.reserved = q.reserved - 1
  BY <1>5, <1>7, PurchaseKeepsSound
<1>13. CASE FreeStock(t) = 0
  <2>1. ~HasReconciliationWork(t)
    BY <1>3, <1>4, <1>13 DEF HasReconciliationWork, FreeStock
  <2>2. q = t
    BY <1>3, <2>1, SettledStays
  <2>3. \A j \in DOMAIN r.attempts :
          /\ b.attempts[j].user = r.attempts[j].user
          /\ b.attempts[j].key = r.attempts[j].key
          /\ b.attempts[j].state = r.attempts[j].state
          /\ b.attempts[j].left = r.attempts[j].left
    BY <1>11, <1>12, <2>2
  <2>4. /\ b.stock = r.stock /\ b.reserved = r.reserved /\ b.next = r.next
        /\ DOMAIN b.attempts = DOMAIN r.attempts
    BY <1>11, <1>12, <2>2
  <2> QED
    BY <1>3, <1>12, <2>3, <2>4, ReferencesAreNotShown
<1>14. CASE FreeStock(t) > 0
  <2>1. t.reserved > 0 /\ r.stock # 0
    <3>1. t.reserved > 0
      BY <1>3, <1>4, HolderIsCounted
    <3> QED
      BY <1>6, <1>11, <1>14, <3>1 DEF FreeStock
  <2>2. Waiting(r) = Waiting(t) /\ Waiting(b) = Waiting(q)
    <3>1. Waiting(r) = Waiting(t)
      BY <1>1, <1>11 DEF Waiting, InState
    <3>2. Waiting(b) = Waiting(q)
      BY <1>7, <1>12 DEF Waiting, InState
    <3> QED
      BY <3>1, <3>2
  <2>3. NextInLine(r) = NextInLine(t)
    <3>1. FreeStock(r) = FreeStock(t)
      BY <1>6, <1>11 DEF FreeStock
    <3> QED
      BY <2>2, <3>1 DEF NextInLine
  <2>4. Reconcile(b) = b
    <3>1. ~HasReconciliationWork(q)
      BY <1>3, <1>4, InvitedFromTheHead
    <3>2. Due(b) = {}
      BY <1>5, <1>12 DEF Due, Holders, InState, Reserving
    <3>3. b.stock # 0 /\ b.stock - b.reserved = q.stock - q.reserved
      <4>1. q.reserved \in Int /\ q.stock \in Int
        BY <1>5, Fields DEF Sound
      <4> QED
        BY <1>5, <1>11, <1>12, <2>1, <4>1
    <3>4. ~HasReconciliationWork(b)
      BY <2>2, <3>1, <3>2, <3>3 DEF HasReconciliationWork
    <3> QED
      BY <1>12, <3>4, SettledStays
  <2> PICK a : a = Reconcile(r)
    OBVIOUS
  <2>5. /\ Sound(a) /\ a.stock = r.stock /\ a.next = r.next
        /\ DOMAIN a.attempts = DOMAIN r.attempts
        /\ \A j \in DOMAIN r.attempts :
             /\ a.attempts[j].user = r.attempts[j].user
             /\ a.attempts[j].key = r.attempts[j].key
             /\ a.attempts[j].state = StateAfter(r, j)
    BY <1>3, NothingDue
  <2>6. ASSUME NEW j \in DOMAIN a.attempts
        PROVE  /\ a.attempts[j].user = b.attempts[j].user
               /\ a.attempts[j].key = b.attempts[j].key
               /\ a.attempts[j].state = b.attempts[j].state
    <3>1. j \in DOMAIN t.attempts
      BY <1>11, <2>5
    <3>2. CASE j = i
      <4>1. StateAfter(r, i) = "purchased"
        BY <1>7, <1>11, <2>1, <2>3 DEF StateAfter
      <4> QED
        BY <1>5, <1>11, <1>12, <2>5, <3>2, <4>1
    <3>3. CASE j # i
      <4>1. r.attempts[j] = t.attempts[j] /\ b.attempts[j] = q.attempts[j]
        BY <1>5, <1>11, <1>12, <3>1, <3>3
      <4>2. StateAfter(r, j) = StateAfter(t, j)
        BY <1>4, <2>1, <2>3, <4>1 DEF StateAfter
      <4> QED
        BY <1>5, <1>11, <2>5, <3>1, <4>1, <4>2
    <3> QED
      BY <3>2, <3>3
  <2>7. a.stock = b.stock /\ a.next = b.next /\ DOMAIN a.attempts = DOMAIN b.attempts
    BY <1>5, <1>11, <1>12, <2>5
  <2>8. Shown(a) = Shown(b)
    <3>1. Sound(a) /\ Sound(b)
      BY <1>12, <2>5
    <3> QED
      BY <2>6, <2>7, <3>1, ShownAlike
  <2> QED
    BY <2>4, <2>8
<1> QED
  BY <1>6, <1>13, <1>14

LEMMA MockStepStandsFor ==
  ASSUME NEW t, MockProduct(t), NEW r \in MockSteps(t), r # t, r.next <= MaxSequence,
         ~Deviates(t, r)
  PROVE  StandsFor(t, r)
BY JoinStandsFor, LeaveStandsFor, StartStandsFor, PurchaseStandsFor DEF MockSteps, Deviates

(***************************************************************************)
(* What the mock does and no repository would.                             *)
(***************************************************************************)
LEMMA OnlyJoinsAppend ==
  ASSUME NEW t, Sound(t), Due(t) = {}
  PROVE  /\ Reconcile(t).next = t.next
         /\ \A u : CancelTx(t, u).next = t.next
         /\ \A u : \A i \in DOMAIN t.attempts : StartCheckoutTx(t, i, u).next = t.next
         /\ \A i \in DOMAIN t.attempts, ref \in References :
              PaymentTx(t, i, "succeeded", ref, {}).next = t.next
<1> PICK q : q = Reconcile(t)
  OBVIOUS
<1>1. ASSUME NEW x, WellFormed(x) PROVE Reconcile(x).next = x.next
  BY <1>1 DEF Reconcile, ReconcileBounded, WellFormed
<1>2. Sound(q) /\ q.next = t.next /\ DOMAIN q.attempts = DOMAIN t.attempts
  BY NothingDue
<1>3. ASSUME NEW u PROVE CancelTx(t, u).next = t.next
  <2>1. CASE Cancellable(q, u) = {}
    BY <1>2, <2>1 DEF CancelTx
  <2>2. CASE Cancellable(q, u) # {}
    <3> PICK i : i = ToCancel(q, u)
      OBVIOUS
    <3>1. i \in Cancellable(q, u)
      BY <2>2 DEF ToCancel
    <3>2. i \in DOMAIN q.attempts /\ q.attempts[i].state \in Active
      BY <3>1 DEF Cancellable, InState
    <3>3. LegalMove(q.attempts[i].state, "cancelled")
      BY <3>2 DEF Active, Reserving, LegalMove
    <3> PICK b : b = Released(q, i, "cancelled")
      OBVIOUS
    <3>4. Sound(b)
      BY <1>2, <3>2, <3>3, ReleaseKeepsSound
    <3>5. b.next = q.next
      BY <1>2 DEF Released, Sound, WellFormed
    <3>6. CancelTx(t, u) = Reconcile(b)
      BY <2>2 DEF CancelTx
    <3> QED
      BY <1>1, <1>2, <3>4, <3>5, <3>6 DEF Sound
  <2> QED
    BY <2>1, <2>2
<1>4. ASSUME NEW i \in DOMAIN t.attempts, NEW u PROVE StartCheckoutTx(t, i, u).next = t.next
  BY <1>2 DEF StartCheckoutTx, Sound, WellFormed
<1>5. ASSUME NEW i \in DOMAIN t.attempts, NEW ref \in References
      PROVE  PaymentTx(t, i, "succeeded", ref, {}).next = t.next
  <2> DEFINE code == PaymentCode(q, i, "succeeded", ref, {})
  <2>1. CASE code # "accepted"
    BY <1>2, <2>1 DEF PaymentTx
  <2>2. CASE code = "accepted"
    <3>1. q.attempts[i].state = "checkout"
      BY <2>2 DEF PaymentCode
    <3> PICK b : b = Purchased(q, i, ref)
      OBVIOUS
    <3>2. Sound(b) /\ b.next = q.next
      BY <1>2, <3>1, PurchaseKeepsSound
    <3>3. PaymentTx(t, i, "succeeded", ref, {}) = Reconcile(b)
      BY <2>2 DEF PaymentTx
    <3> QED
      BY <1>1, <1>2, <3>2, <3>3 DEF Sound
  <2> QED
    BY <2>1, <2>2
<1>6. Reconcile(t).next = t.next
  BY <1>2
<1> QED
  BY <1>3, <1>4, <1>5, <1>6

(* A user with an attempt gets it; anybody else is admitted to the         *)
(* reconciled line, if there is one.                                       *)
LEMMA JoinAppendsToReconciled ==
  ASSUME NEW t, Sound(t), Due(t) = {}, NEW u, NEW k, NEW percent
  PROVE  \/ JoinTx(t, u, k, percent) = t
         \/ t.stock = 0 /\ JoinTx(t, u, k, percent) = Reconcile(t)
         \/ t.stock # 0 /\ JoinTx(t, u, k, percent) = CreateAttempt(Reconcile(t), u, k, percent)
<1>1. Reconcile(t).stock = t.stock
  BY NothingDue
<1>2. \A i \in ActiveOf(t, u) : Effective(t, i)
  <2> TAKE i \in ActiveOf(t, u)
  <2>1. i \in DOMAIN t.attempts /\ t.attempts[i].state \in {"waiting"} \cup Reserving
    BY DEF ActiveOf, InState, Active
  <2>2. t.attempts[i].left \in Nat
    BY <2>1, Fields DEF Sound, Attempt
  <2>3. t.attempts[i].state \in Reserving => t.attempts[i].left # 0
    BY <2>1 DEF Due, Holders, InState
  <2> QED
    BY <2>1, <2>2, <2>3 DEF Effective
<1>3. CASE ActiveOf(t, u) = {}
  BY <1>1, <1>3 DEF JoinTx, Refreshed, AdmitTx
<1>4. CASE ActiveOf(t, u) # {}
  BY <1>2, <1>4 DEF JoinTx
<1> QED
  BY <1>3, <1>4

(* A larger buffer has no fewer places.                                    *)
LEMMA LargestBuffer ==
  ASSUME NEW stock \in Nat, NEW percent \in 0 .. MaxWaitingBuffer
  PROVE  /\ WaitingCapacity(stock, percent) \in Int
         /\ WaitingCapacity(stock, MaxWaitingBuffer) \in Int
         /\ WaitingCapacity(stock, percent) <= WaitingCapacity(stock, MaxWaitingBuffer)
<1>1. MaxWaitingBuffer \in Nat /\ percent \in Nat /\ percent <= MaxWaitingBuffer
  BY BufferAssumption
<1>2. stock * percent <= stock * MaxWaitingBuffer
  BY <1>1
<1> PICK a \in Nat : a = stock * percent
  BY <1>1
<1> PICK b \in Nat : b = stock * MaxWaitingBuffer
  BY <1>1
<1>3. (a + 99) \div 100 <= (b + 99) \div 100
  BY <1>2
<1> QED
  BY <1>3 DEF WaitingCapacity

LEMMA NewcomersStandForNothing ==
  ASSUME NEW t, MockProduct(t), NEW r \in MockSteps(t), r # t, r.next <= MaxSequence,
         Overtakes(t, r) \/ WaitsBeyondBuffer(t, r)
  PROVE  ~StandsFor(t, r)
<1>1. /\ Sound(t) /\ Due(t) = {} /\ Sound(r) /\ Due(r) = {}
      /\ t.next \in Nat /\ r.next > t.next
  <2>1. r.next > t.next
    BY DEF Overtakes, WaitsBeyondBuffer, Joined
  <2> QED
    BY <2>1, MockStepKeeps, Fields DEF MockProduct, Sound
<1>2. /\ t.stock \in Nat /\ t.reserved \in Nat /\ FreeStock(t) \in Nat
      /\ Waiting(t) \in SUBSET Nat /\ IsFiniteSet(Waiting(t)) /\ Cardinality(Waiting(t)) \in Nat
  BY <1>1, LineSets
<1>3. PICK u \in Users, k \in Keys : r = MockJoin(t, u, k)
  <2>1. ASSUME NEW u \in Users PROVE MockLeave(t, u).next = t.next
    BY <1>1 DEF MockLeave, Released, Sound, WellFormed
  <2>2. ASSUME NEW i \in DOMAIN t.attempts, NEW u \in Users PROVE MockStart(t, i, u).next = t.next
    BY <1>1 DEF MockStart, Sound, WellFormed
  <2>3. ASSUME NEW i \in DOMAIN t.attempts, NEW u \in Users
        PROVE  MockCompleteDemo(t, i, u).next = t.next
    BY <1>1 DEF MockCompleteDemo, Purchased, Sound, WellFormed
  <2>4. r.next # t.next
    BY <1>1
  <2> QED
    BY <2>1, <2>2, <2>3, <2>4 DEF MockSteps
<1>4. /\ Admissible(t) /\ t.next # MaxSequence
      /\ \/ t.reserved < t.stock /\ r = Appended(t, u, k, "checkout", CheckoutTTL)
         \/ t.reserved >= t.stock /\ r = Appended(t, u, k, "waiting", 0)
  BY <1>3, MockJoinAppends
<1>5. t.stock # 0
  BY <1>4 DEF Admissible
<1> PICK state \in {"checkout", "waiting"}, left \in Nat :
      /\ r = Appended(t, u, k, state, left)
      /\ state = "checkout" <=> t.reserved < t.stock
  BY <1>2, <1>4, TTLAssumption
<1>6. /\ r.stock = t.stock /\ r.next = t.next + 1
      /\ DOMAIN r.attempts = DOMAIN t.attempts \cup {t.next}
      /\ r.attempts[t.next].state = state
      /\ \A i \in DOMAIN t.attempts : r.attempts[i] = t.attempts[i]
  <2>1. r.next = t.next + 1
    BY <1>1 DEF Appended, Sound, WellFormed
  <2> QED
    BY <1>1, <1>4, <2>1, AppendKeepsSound
<1> PICK a : a = Reconcile(r)
  OBVIOUS
<1>7. /\ a.next = r.next /\ DOMAIN a.attempts = DOMAIN r.attempts
      /\ a.attempts[t.next].state = StateAfter(r, t.next)
  BY <1>1, <1>6, NothingDue
<1> PICK q : q = Reconcile(t)
  OBVIOUS
<1>8. /\ Sound(q) /\ q.stock = t.stock /\ q.next = t.next
      /\ q.reserved = t.reserved + Cardinality(NextInLine(t))
  BY <1>1, <1>5, NothingDue
<1>9. ASSUME NEW s, Shown(a) = Shown(s)
      PROVE  /\ s.next = t.next + 1
             /\ t.next \in DOMAIN s.attempts
             /\ s.attempts[t.next].state = StateAfter(r, t.next)
  <2>1. Shown(a).next = Shown(s).next /\ Shown(a).attempts = Shown(s).attempts
    BY <1>9
  <2>2. s.next = t.next + 1
    BY <1>6, <1>7, <2>1 DEF Shown
  <2>3. DOMAIN s.attempts = DOMAIN a.attempts
    BY <2>1 DEF Shown
  <2>4. t.next \in DOMAIN a.attempts /\ t.next \in DOMAIN s.attempts
    BY <1>6, <1>7, <2>3
  <2>5. Shown(a).attempts[t.next].state = a.attempts[t.next].state
        /\ Shown(s).attempts[t.next].state = s.attempts[t.next].state
    BY <2>4 DEF Shown
  <2> QED
    BY <1>7, <2>1, <2>2, <2>4, <2>5
<1>10. SUFFICES ASSUME StandsFor(t, r) PROVE FALSE
  OBVIOUS
<1>11. PICK v \in Users, l \in Keys, percent \in WaitingBuffers :
         Shown(a) = Shown(JoinTx(t, v, l, percent))
  <2>1. RepositoryShows(t, Shown(a))
    BY <1>10 DEF StandsFor
  <2>2. \A s : Shown(a) = Shown(s) => s.next # t.next
    <3> TAKE s
    <3>1. SUFFICES ASSUME Shown(a) = Shown(s) PROVE s.next # t.next
      OBVIOUS
    <3>2. s.next = t.next + 1
      BY <1>9, <3>1
    <3> QED
      BY <1>1, <3>2
  <2>3. /\ \A w \in Users : Shown(a) # Shown(CancelTx(t, w))
        /\ \A i \in DOMAIN t.attempts : Shown(a) # Shown(StartCheckoutTx(t, i, t.attempts[i].user))
        /\ \A i \in DOMAIN t.attempts, ref \in References :
             Shown(a) # Shown(PaymentTx(t, i, "succeeded", ref, {}))
    BY <1>1, <2>2, OnlyJoinsAppend
  <2> QED
    BY <2>1, <2>3 DEF RepositoryShows
<1> PICK s : s = JoinTx(t, v, l, percent)
  OBVIOUS
<1>12. /\ s.next = t.next + 1 /\ s.attempts[t.next].state = StateAfter(r, t.next)
  BY <1>9, <1>11
<1>13. s = CreateAttempt(q, v, l, percent)
  <2>1. s # t
    BY <1>1, <1>12
  <2> QED
    BY <1>1, <1>5, <2>1, JoinAppendsToReconciled
<1>14. t.next \in DOMAIN r.attempts /\ t.next \notin DOMAIN t.attempts
  BY <1>1, <1>6, Fields DEF Sound
<1>15. CASE Overtakes(t, r)
  <2>1. state = "checkout" /\ Cardinality(Waiting(t)) >= FreeStock(t)
    BY <1>6, <1>15 DEF Overtakes, Joined
  <2>2. Cardinality(NextInLine(t)) = FreeStock(t)
    BY <1>2, <2>1, FirstNCounts DEF NextInLine
  <2>3. q.reserved = q.stock
    BY <1>2, <1>8, <2>2 DEF FreeStock
  <2>4. ~ (q.reserved < q.stock)
    BY <1>2, <1>8, <2>3
  <2>5. s = Appended(q, v, l, "waiting", 0)
    <3>1. s \in {q, Appended(q, v, l, "waiting", 0)}
      <4>1. q.next # MaxSequence /\ q.reserved >= q.stock
        BY <1>2, <1>4, <1>8, <2>3
      <4> QED
        BY <1>13, <2>4, <4>1 DEF CreateAttempt
    <3>2. s # q
      BY <1>1, <1>8, <1>12
    <3> QED
      BY <3>1, <3>2
  <2>6. s.attempts[t.next].state = "waiting"
    <3>1. s.attempts = [i \in DOMAIN q.attempts \cup {q.next} |->
             IF i = q.next THEN [user |-> v, key |-> l, state |-> "waiting",
                                 left |-> 0, ref |-> NoReference]
             ELSE q.attempts[i]]
      BY <1>8, <2>5 DEF Appended, Sound, WellFormed
    <3> QED
      BY <1>8, <3>1
  <2>7. StateAfter(r, t.next) = "checkout"
    <3>1. t.next \notin Waiting(r)
      BY <1>6, <2>1 DEF Waiting, InState
    <3>2. NextInLine(r) \in SUBSET Waiting(r)
      BY <1>1, LineSets
    <3> QED
      BY <1>6, <2>1, <3>1, <3>2 DEF StateAfter
  <2> QED
    BY <1>12, <2>6, <2>7
<1>16. CASE WaitsBeyondBuffer(t, r)
  <2>1. /\ state = "waiting" /\ t.reserved >= t.stock
        /\ Cardinality(Waiting(t)) >= WaitingCapacity(t.stock, MaxWaitingBuffer)
    BY <1>2, <1>6, <1>16 DEF WaitsBeyondBuffer, Joined
  <2>2. q = t
    <3>1. ~HasReconciliationWork(t)
      BY <1>1, <1>2, <1>5, <2>1 DEF HasReconciliationWork
    <3> QED
      BY <1>1, <3>1, SettledStays
  <2>3. ~ (Cardinality(Waiting(t)) < WaitingCapacity(t.stock, percent))
    <3>1. percent \in 0 .. MaxWaitingBuffer
      BY MockAssumption
    <3>2. /\ WaitingCapacity(t.stock, percent) \in Int
          /\ WaitingCapacity(t.stock, MaxWaitingBuffer) \in Int
          /\ WaitingCapacity(t.stock, percent) <= WaitingCapacity(t.stock, MaxWaitingBuffer)
      BY <1>2, <3>1, LargestBuffer
    <3> QED
      BY <1>2, <2>1, <3>2
  <2>4. CreateAttempt(t, v, l, percent) = t
    <3>1. ~ (t.reserved < t.stock) /\ t.next # MaxSequence
      BY <1>2, <1>4, <2>1
    <3> QED
      BY <2>1, <2>3, <3>1 DEF CreateAttempt
  <2> QED
    BY <1>1, <1>12, <1>13, <2>2, <2>4
<1> QED
  BY <1>15, <1>16

LEMMA LeaversStandForNothing ==
  ASSUME NEW t, MockProduct(t), NEW r \in MockSteps(t), r # t, LeavesSoldOut(t, r)
  PROVE  ~StandsFor(t, r)
<1>1. Sound(t) /\ Due(t) = {} /\ t.stock = 0 /\ Waiting(r) # Waiting(t)
  BY DEF MockProduct, LeavesSoldOut
<1>2. Holders(t) = {} /\ InState(t, Active) = Waiting(t)
  BY <1>1, NoStockNoHolder
<1>3. PICK u \in Users : r = MockLeave(t, u)
  <2>1. ASSUME NEW w \in Users, NEW k \in Keys PROVE MockJoin(t, w, k) = t
    BY <1>1 DEF MockJoin, Admissible
  <2>2. ASSUME NEW i \in DOMAIN t.attempts, NEW w \in Users PROVE MockStart(t, i, w) = t
    BY <1>2 DEF MockStart, Holders, InState, Reserving
  <2>3. ASSUME NEW i \in DOMAIN t.attempts, NEW w \in Users PROVE MockCompleteDemo(t, i, w) = t
    BY <1>2 DEF MockCompleteDemo, Holders, InState, Reserving
  <2> QED
    BY <2>1, <2>2, <2>3 DEF MockSteps
<1> PICK i : i = ToCancel(t, u)
  OBVIOUS
<1>4. i \in Cancellable(t, u) /\ r = Released(t, i, "cancelled") /\ MockProduct(r)
  <2>1. Cancellable(t, u) # {} /\ r = Released(t, i, "cancelled")
    BY <1>3 DEF MockLeave
  <2> QED
    BY <2>1, MockLeaveKeeps DEF ToCancel
<1>5. i \in Waiting(t) /\ i \in DOMAIN t.attempts /\ t.attempts[i].state = "waiting"
  BY <1>2, <1>4 DEF Cancellable, Waiting, InState
<1>6. /\ DOMAIN r.attempts = DOMAIN t.attempts
      /\ r.attempts[i].state = "cancelled"
  <2>1. /\ DOMAIN r.attempts = DOMAIN t.attempts
        /\ r.attempts[i] = Moved(t.attempts[i], "cancelled", 0)
    BY <1>1, <1>4, <1>5, ReleaseKeepsSound DEF LegalMove
  <2>2. t.attempts[i] \in Attempt /\ "cancelled" \in Active \cup Terminal
    BY <1>1, <1>5, Fields DEF Sound, Terminal
  <2> QED
    BY <2>1, <2>2, MovedFields
<1> PICK a : a = Reconcile(r)
  OBVIOUS
<1>7. DOMAIN a.attempts = DOMAIN t.attempts /\ a.attempts[i].state = "cancelled"
  <2>1. Sound(r) /\ Due(r) = {}
    BY <1>4 DEF MockProduct
  <2>2. DOMAIN a.attempts = DOMAIN t.attempts /\ a.attempts[i].state = StateAfter(r, i)
    BY <1>5, <1>6, <2>1, NothingDue
  <2>3. i \notin Waiting(r) /\ NextInLine(r) \in SUBSET Waiting(r)
    BY <1>6, <2>1, LineSets DEF Waiting, InState
  <2> QED
    BY <1>6, <2>2, <2>3 DEF StateAfter
<1> PICK q : q = Reconcile(t)
  OBVIOUS
<1>8. /\ DOMAIN q.attempts = DOMAIN t.attempts
      /\ \A j \in DOMAIN t.attempts : q.attempts[j].state = StateAfter(t, j)
  BY <1>1, NothingDue
<1>9. \A j \in DOMAIN q.attempts : q.attempts[j].state \notin Active
  <2> TAKE j \in DOMAIN q.attempts
  <2>1. CASE j \in Waiting(t)
    BY <1>1, <1>8, <2>1 DEF StateAfter, Active, Reserving
  <2>2. CASE j \notin Waiting(t)
    <3>1. NextInLine(t) \in SUBSET Waiting(t)
      BY <1>1, LineSets
    <3>2. t.attempts[j].state \notin Active
      BY <1>2, <1>8, <2>2 DEF InState
    <3> QED
      BY <1>8, <2>2, <3>1, <3>2 DEF StateAfter
  <2> QED
    BY <2>1, <2>2
<1>10. q.attempts[i].state = "sold_out"
  BY <1>1, <1>5, <1>8 DEF StateAfter
<1>11. ASSUME NEW s \in {t, q} PROVE Shown(a) # Shown(s)
  <2>1. i \in DOMAIN s.attempts /\ s.attempts[i].state # "cancelled"
    BY <1>5, <1>8, <1>10
  <2>2. /\ Shown(a).attempts[i].state = "cancelled"
        /\ Shown(s).attempts[i].state = s.attempts[i].state
    BY <1>5, <1>7, <2>1 DEF Shown
  <2> QED
    BY <2>1, <2>2
<1>12. ASSUME NEW w PROVE CancelTx(t, w) = q
  <2>1. Cancellable(q, w) = {}
    BY <1>9 DEF Cancellable, InState
  <2> QED
    BY <2>1 DEF CancelTx
<1>13. ASSUME NEW j \in DOMAIN t.attempts, NEW w PROVE StartCheckoutTx(t, j, w) = q
  BY <1>8, <1>9 DEF StartCheckoutTx, Active, Reserving
<1>14. ASSUME NEW j \in DOMAIN t.attempts, NEW ref \in References
       PROVE  PaymentTx(t, j, "succeeded", ref, {}) = q
  <2>1. q.attempts[j].state # "checkout"
    BY <1>8, <1>9 DEF Active, Reserving
  <2>2. PaymentCode(q, j, "succeeded", ref, {}) # "accepted"
    BY <2>1 DEF PaymentCode
  <2> QED
    BY <2>2 DEF PaymentTx
<1>15. ASSUME NEW w, NEW l, NEW percent PROVE JoinTx(t, w, l, percent) \in {t, q}
  BY <1>1, JoinAppendsToReconciled
<1>16. ~RepositoryShows(t, Shown(a))
  BY <1>11, <1>12, <1>13, <1>14, <1>15 DEF RepositoryShows
<1> QED
  BY <1>16 DEF StandsFor

LEMMA MockStepDeviates ==
  ASSUME NEW t, MockProduct(t), NEW r \in MockSteps(t), r # t, r.next <= MaxSequence
  PROVE  StandsFor(t, r) <=> ~Deviates(t, r)
BY MockStepStandsFor, NewcomersStandForNothing, LeaversStandForNothing DEF Deviates

MockInv == MockProduct(mock)

LEMMA InitMock == Init => MockInv
BY FixturesAreSound DEF Init, MockInv

LEMMA NextMock == MockInv /\ [Next]_vars => MockInv'
<1> SUFFICES ASSUME MockInv, [Next]_vars PROVE MockInv'
  OBVIOUS
<1>1. CASE Start
  BY <1>1, FixturesAreSound DEF Start, MockInv
<1>2. CASE ServeMock
  BY <1>2, MockStepKeeps DEF ServeMock, MockInv
<1>3. CASE Stop
  BY <1>3, FixturesAreSound DEF Stop, MockInv
<1>4. CASE UNCHANGED mock
  BY <1>4 DEF MockInv
<1>5. Start \/ ServeMock \/ Stop \/ UNCHANGED mock
  BY DEF Next, Life, Accept, Serve, Elsewhere, WorkersReturn, Expire, ShutdownServer,
         CloseDatabase, GiveUpOnWorkers, Return, Exits, vars
<1> QED
  BY <1>1, <1>2, <1>3, <1>4, <1>5

(* The mock's counter is the number of reservations it shows, at any time. *)
THEOREM MockIsSound == Spec => []MockInv
BY InitMock, NextMock, PTL DEF Spec

(* Up to the reconciliation it leaves out, the mock does what a repository *)
(* would have done, save in the three cases, and in each of them no        *)
(* repository that LoadFrom lets run would have done it: for whichever     *)
(* request, fixture and capacity of the mock.                              *)
THEOREM MockKeeps == Spec => MockKeepsToTheQueue
<1>1. MockInv /\ [Next]_vars
        => [phase = phase' /\ mock' # mock
              => (StandsFor(mock, mock') <=> ~Deviates(mock, mock'))]_vars
  <2> SUFFICES ASSUME MockInv, Next, phase = phase', mock' # mock
               PROVE  StandsFor(mock, mock') <=> ~Deviates(mock, mock')
    OBVIOUS
  <2>1. CASE Start
    <3>1. phase = "new" /\ \E env \in Environments : phase' = Outcome(env)
      BY <2>1 DEF Start
    <3>2. phase' # "new"
      BY <3>1, ServedOrRejected
    <3> QED
      BY <3>1, <3>2
  <2>2. CASE Stop
    BY <2>2 DEF Stop
  <2>3. CASE ServeMock
    BY <2>3, MockStepDeviates DEF ServeMock, MockInv
  <2>4. Start \/ ServeMock \/ Stop
    BY DEF Next, Life, Accept, Serve, Elsewhere, WorkersReturn, Expire, ShutdownServer,
           CloseDatabase, GiveUpOnWorkers, Return, Exits
  <2> QED
    BY <2>1, <2>2, <2>3, <2>4
<1> QED
  BY <1>1, InitMock, NextMock, PTL DEF Spec, MockKeepsToTheQueue
=============================================================================
