----------------------------- MODULE Application -----------------------------
(***************************************************************************)
(* One run of the backend process: it loads its configuration, builds      *)
(* itself from it, serves requests beside its workers, and shuts down      *)
(* within a timeout.                                                       *)
(*                                                                         *)
(* With a database the requests are those of EmbeddingRefresh, and other   *)
(* processes refresh the same embeddings; in mock mode they are the        *)
(* operations of MockAPI on one of its products, which share nothing.      *)
(***************************************************************************)
EXTENDS EmbeddingRefresh, MockAPI, Configuration

CONSTANTS Environments,   \* the environments the process may be started in
          MaxJoins        \* bound: joins of a mock product under new keys

VARIABLES phase,    \* how far main and Application.Run have come
          workers,  \* workersDone: "running" or "done"
          expired,  \* the shutdown context has ended
          mock      \* a product of the mock state

lifeVars == <<config, open, phase, workers, expired>>
vars == <<lifeVars, requestVars, mock>>

(* Before and after any request could see the mock state. *)
NoMock == Fixture(0, 0, 1, TRUE, << >>)

Init == /\ phase = "new" /\ workers = "done" /\ expired = FALSE
        /\ config = [mode |-> "none", ai |-> FALSE, pool |-> 0] /\ open = FALSE
        /\ RequestInit
        /\ mock = NoMock

(***************************************************************************)
(* main, until Run.                                                        *)
(***************************************************************************)
Outcome(env) == CASE ~LoadFrom(env) -> "rejected"
                  [] LoadFrom(env) /\ ~New(env) -> "refused"
                  [] LoadFrom(env) /\ New(env) /\ RefreshPanics(env) -> "crashed"
                  [] OTHER -> "serving"

Start ==
  /\ phase = "new"
  /\ \E env \in Environments :
       /\ phase' = Outcome(env)
       /\ IF phase' = "serving"
          THEN /\ config' = [mode |-> env.mode, ai |-> env.ai, pool |-> env.maxOpen]
               /\ open' = (env.mode = "postgres")
               /\ workers' = "running"
          ELSE UNCHANGED <<config, open, workers>>
       /\ mock' \in (IF phase' = "serving" /\ env.mode = "mock" THEN newState ELSE {mock})
  /\ UNCHANGED <<expired, requestVars>>

(***************************************************************************)
(* Requests.  The server accepts them while it listens; those it has       *)
(* accepted go on during the shutdown, and until the process ends.         *)
(***************************************************************************)
Alive == phase \in {"serving", "draining", "waiting", "closed"}
UsesDatabase == config.mode = "postgres"

Accept(r) ==
  /\ phase = "serving" /\ UsesDatabase
  /\ Get(r) \/ BeginTx(r)
  /\ UNCHANGED <<lifeVars, mock>>

Serve(r) == Alive /\ (Proceeds(r) \/ Fails(r)) /\ UNCHANGED <<lifeVars, mock>>

(* Bounded: the key of a fixture is used again to replay its join only.    *)
ServeMock == /\ phase = "serving" /\ config.mode = "mock"
             /\ mock' \in MockSteps(mock)
             /\ LET joins == {i \in DOMAIN mock'.attempts : mock'.attempts[i].key # FixtureKey}
                IN  /\ Cardinality(joins) <= MaxJoins
                    /\ DOMAIN mock'.attempts \subseteq DOMAIN mock.attempts \cup joins
             /\ mock'.next <= MaxSequence
             /\ UNCHANGED <<lifeVars, requestVars>>

(* Other processes and whoever edits the catalog are followed while this   *)
(* process serves.  A refresh elsewhere that fails leaves things as they   *)
(* were, so peers are those that go through.                               *)
Refreshing == phase = "serving" /\ UsesDatabase /\ config.ai

Elsewhere == /\ Refreshing
             /\ \/ \E r \in Peers : PeerAcquires(r) \/ Proceeds(r)
                \/ LoseConnection
                \/ Edit
             /\ UNCHANGED <<lifeVars, mock>>

(***************************************************************************)
(* Shutdown.                                                               *)
(***************************************************************************)
(* A signal, or an error of the listener; the workers are cancelled.       *)
Stop == /\ phase = "serving"
        /\ phase' = "draining" /\ mock' = NoMock
        /\ UNCHANGED <<config, open, workers, expired, requestVars>>

WorkersReturn == /\ phase \in {"draining", "waiting"} /\ workers = "running"
                 /\ workers' = "done"
                 /\ UNCHANGED <<config, open, phase, expired, requestVars, mock>>

Expire == /\ phase \in {"draining", "waiting"} /\ ~expired
          /\ expired' = TRUE
          /\ UNCHANGED <<config, open, phase, workers, requestVars, mock>>

(* server.Shutdown returns when no connection is active, or too late.      *)
MutClosesListenerOnly == phase = "draining"
Drained == phase = "draining" /\ (expired \/ \A r \in Own : at[r] = "idle")

ShutdownServer == /\ Drained
                  /\ phase' = "waiting"
                  /\ UNCHANGED <<config, open, workers, expired, requestVars, mock>>

CloseDatabase == /\ phase = "waiting" /\ workers = "done"
                 /\ phase' = "closed" /\ open' = FALSE
                 /\ UNCHANGED <<config, workers, expired, requestVars, mock>>

(* The process ends, and with it the requests it was still serving.        *)
Exits == /\ phase' = "exited" /\ open' = FALSE
         /\ at' = [r \in Requests |-> IF r \in Own THEN "idle" ELSE at[r]]
         /\ doc' = [r \in Requests |-> IF r \in Own THEN 0 ELSE doc[r]]
         /\ mutex' = NoRequest
         /\ lock' = IF lock \in Own THEN NoRequest ELSE lock
         /\ UNCHANGED <<config, workers, expired, content, cached, mock>>

(* waitForWorkers; when both channels are ready, select takes either.      *)
MutWaitsWithoutTimeout == phase = "waiting" /\ expired /\ workers = "done"
TooLate == phase = "waiting" /\ expired

GiveUpOnWorkers == TooLate /\ Exits

Return == phase = "closed" /\ Exits

-----------------------------------------------------------------------------
Life == \/ Stop \/ WorkersReturn \/ Expire \/ ShutdownServer
        \/ CloseDatabase \/ GiveUpOnWorkers \/ Return

Next == \/ Start
        \/ \E r \in Own : Accept(r) \/ Serve(r)
        \/ Elsewhere \/ ServeMock
        \/ Life

Spec == Init /\ [][Next]_vars

(***************************************************************************)
(* Fairness.  Nothing says how long workers take, that anyone stops the    *)
(* process, that it is asked for anything, or that a query fails while the *)
(* database is up.  Waiters are served by the mutex and by the pool in     *)
(* turn, and other processes refresh now and then, not always in vain.     *)
(***************************************************************************)
FairSpec ==
  /\ Spec
  /\ WF_vars(Expire)
  /\ WF_vars(ShutdownServer \/ CloseDatabase \/ GiveUpOnWorkers \/ Return)
  /\ \A r \in Own : SF_vars(Alive /\ Proceeds(r) /\ UNCHANGED <<lifeVars, mock>>)
  /\ \A r \in Peers :
       SF_vars(Refreshing /\ (PeerAcquires(r) \/ Proceeds(r)) /\ UNCHANGED <<lifeVars, mock>>)

-----------------------------------------------------------------------------
(***************************************************************************)
(* Properties.                                                             *)
(***************************************************************************)
(* An environment that LoadFrom accepts is one that New builds an          *)
(* application of, and whose workers do not bring the process down: the    *)
(* checks of config.go cover the demands of every constructor behind it.   *)
LoadedConfigurationsStart == phase \notin {"refused", "crashed"}

(* The pool is closed under nobody: no worker is still running then, and a *)
(* request only when it has outlived the shutdown timeout.                 *)
DatabaseOutlivesItsUsers ==
  phase = "closed" =>
    workers = "done" /\ (expired \/ \A r \in Own : at[r] = "idle")

(* A stopped process ends, even if its requests or workers never do.       *)
ShutdownCompletes == phase = "draining" ~> phase = "exited"

(* "Embedding failures must never make the sold-out journey unavailable":  *)
(* a request is answered whatever the provider, the lock and the other     *)
(* processes do, provided the pool has a connection beside the one that    *)
(* TryAcquireEmbeddingRefresh sets apart.                                  *)
EveryRequestIsAnswered ==
  \A r \in Own : (at[r] # "idle" /\ ~Starved) ~> at[r] = "idle"

(* The stored embeddings come to be those of the catalog as it is, though  *)
(* refreshes fail, lose their lock and store what they read long ago.      *)
EmbeddingsCatchUp ==
  []<>(Refreshing /\ ~Starved => cached = content)

(* Up to the reconciliation it leaves out, the mock does what a repository *)
(* would have done, and does something else in exactly three cases: a      *)
(* newcomer takes a unit ahead of those who wait for it, somebody waits    *)
(* beyond the largest buffer that config.go permits, or leaves a line that *)
(* is sold out.                                                            *)
MockKeepsToTheQueue ==
  [][phase = phase' /\ mock' # mock
       => (StandsFor(mock, mock') <=> ~Deviates(mock, mock'))]_vars
=============================================================================
