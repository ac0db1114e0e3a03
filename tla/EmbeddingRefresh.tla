-------------------------- MODULE EmbeddingRefresh --------------------------
(***************************************************************************)
(* Requests for alternatives, which refresh the cache of product           *)
(* embeddings on their way, and the connection pool they share with the    *)
(* queue's transactions.                                                   *)
(*                                                                         *)
(* A refresh is serialised twice: by a mutex within its process and by an  *)
(* advisory lock between processes, which belongs to the session of a      *)
(* connection that is kept out of the pool until the refresh ends.  Its    *)
(* queries take further connections from the same pool.                    *)
(*                                                                         *)
(* Own requests run in the process the model is about.  A peer is a        *)
(* refresh in some other process, which has a mutex and a pool of its own. *)
(* A query that needs nothing else while it runs is one step.              *)
(***************************************************************************)
EXTENDS Naturals, FiniteSets

CONSTANTS Own, Peers, NoRequest,
          MaxContent   \* bound: versions of the catalog

VARIABLES config,    \* mode, ai (an embedder is configured) and pool size
          open,      \* the pool is not closed
          at,        \* what each request is about to do
          mutex,     \* embeddingMu
          lock,      \* the request whose session holds the advisory lock
          doc,       \* the documents a refresh has read
          content,   \* version of the catalog
          cached     \* version the stored embeddings were made of, or 0

Requests == Own \cup Peers

ASSUME RequestAssumption == NoRequest \notin Requests /\ Own \cap Peers = {}

requestVars == <<at, mutex, lock, doc, content, cached>>

(***************************************************************************)
(* The pool.                                                               *)
(***************************************************************************)
Holding == {"list", "embed", "upsert", "release", "transaction"}

Free(r) == \/ r \in Peers
           \/ open /\ Cardinality({q \in Own : at[q] \in Holding}) < config.pool

(* A pool of one connection cannot serve a refresh. *)
Starved == config.ai /\ config.pool < 2

Go(r, step) == at' = [at EXCEPT ![r] = step]
AfterRefresh(r) == IF r \in Peers THEN "idle" ELSE "semantic"
Unlock(r) == mutex' = IF mutex = r THEN NoRequest ELSE mutex

RequestInit == /\ at = [r \in Requests |-> "idle"]
               /\ mutex = NoRequest /\ lock = NoRequest
               /\ doc = [r \in Requests |-> 0]
               /\ content = 1 /\ cached = 0

(***************************************************************************)
(* Alternatives, and any transaction of the queue.  A request is followed  *)
(* from its first successful query on: until then it holds nothing.        *)
(***************************************************************************)
Get(r) == /\ at[r] = "idle" /\ Free(r)
          /\ Go(r, IF config.ai THEN "lock" ELSE "fallback")
          /\ UNCHANGED <<mutex, lock, doc, content, cached>>

ListSemanticAlternatives(r) ==
  /\ at[r] = "semantic" /\ Free(r)
  /\ \/ cached # 0 /\ Go(r, "idle")
     \/ Go(r, "fallback")                     \* nothing similar is available
  /\ UNCHANGED <<mutex, lock, doc, content, cached>>

ListFallbackAlternatives(r) ==
  /\ at[r] = "fallback" /\ Free(r)
  /\ Go(r, "idle")
  /\ UNCHANGED <<mutex, lock, doc, content, cached>>

BeginTx(r) == /\ at[r] = "idle" /\ Free(r)
              /\ Go(r, "transaction")
              /\ UNCHANGED <<mutex, lock, doc, content, cached>>

Commit(r) == /\ at[r] = "transaction"
             /\ Go(r, "idle")
             /\ UNCHANGED <<mutex, lock, doc, content, cached>>

(***************************************************************************)
(* refreshEmbeddings.                                                      *)
(***************************************************************************)
Lock(r) == /\ at[r] = "lock" /\ mutex = NoRequest
           /\ mutex' = r
           /\ Go(r, "acquire")
           /\ UNCHANGED <<lock, doc, content, cached>>

MutKeepsTheMutex(r) ==
  /\ at[r] = "acquire" /\ Free(r)
  /\ IF lock = NoRequest
     THEN lock' = r /\ Go(r, "list") /\ UNCHANGED mutex
     ELSE Go(r, "semantic") /\ UNCHANGED <<lock, mutex>>
  /\ UNCHANGED <<doc, content, cached>>
TryAcquireEmbeddingRefresh(r) ==
  /\ at[r] = "acquire" /\ Free(r)
  /\ IF lock = NoRequest
     THEN lock' = r /\ Go(r, "list") /\ UNCHANGED mutex
     ELSE Go(r, "semantic") /\ Unlock(r) /\ UNCHANGED lock
  /\ UNCHANGED <<doc, content, cached>>

MutNeverRefreshed == cached = 0
Stale == cached # content

ListEmbeddingDocuments(r) ==
  /\ at[r] = "list" /\ Free(r)
  /\ IF Stale THEN doc' = [doc EXCEPT ![r] = content] /\ Go(r, "embed")
     ELSE Go(r, "release") /\ UNCHANGED doc
  /\ UNCHANGED <<mutex, lock, content, cached>>

Embed(r) == /\ at[r] = "embed"
            /\ Go(r, "upsert")
            /\ UNCHANGED <<mutex, lock, doc, content, cached>>

UpsertEmbeddings(r) ==
  /\ at[r] = "upsert" /\ Free(r)
  /\ cached' = doc[r]
  /\ doc' = [doc EXCEPT ![r] = 0]
  /\ Go(r, "release")
  /\ UNCHANGED <<mutex, lock, content>>

Release(r) ==
  /\ at[r] = "release"
  /\ lock' = IF lock = r THEN NoRequest ELSE lock
  /\ Unlock(r)
  /\ Go(r, AfterRefresh(r))
  /\ UNCHANGED <<doc, content, cached>>

(***************************************************************************)
(* Every query may fail, and so may the provider; a client that goes away  *)
(* makes what its request waits for fail.                                  *)
(***************************************************************************)
FailedAt(r) ==
  CASE at[r] \in {"fallback", "transaction"} -> "idle"
    [] at[r] = "acquire" -> "semantic"
    [] at[r] \in {"list", "embed", "upsert"} -> "release"
    [] at[r] = "semantic" -> "fallback"

Fails(r) ==
  /\ at[r] \notin {"idle", "lock", "release"}
  /\ Go(r, FailedAt(r))
  /\ IF at[r] = "acquire" THEN Unlock(r) ELSE UNCHANGED mutex
  /\ doc' = [doc EXCEPT ![r] = 0]
  /\ UNCHANGED <<lock, content, cached>>

(* A closed pool refuses at once, and the HTTP client has a timeout.       *)
FailsPromptly(r) == r \in Own /\ (~open \/ at[r] = "embed")

(* The session that holds the lock ends with its connection.               *)
LoseConnection == /\ lock # NoRequest
                  /\ lock' = NoRequest
                  /\ UNCHANGED <<at, mutex, doc, content, cached>>

Edit == /\ content < MaxContent
        /\ content' = content + 1
        /\ UNCHANGED <<at, mutex, lock, doc, cached>>

(***************************************************************************)
(* Requests.                                                               *)
(***************************************************************************)
(* A refresh elsewhere matters to nobody until it has the lock.            *)
PeerAcquires(r) == /\ at[r] = "idle" /\ lock = NoRequest
                   /\ lock' = r
                   /\ Go(r, "list")
                   /\ UNCHANGED <<mutex, doc, content, cached>>

Query(r) == \/ TryAcquireEmbeddingRefresh(r)
            \/ ListEmbeddingDocuments(r) \/ UpsertEmbeddings(r)
            \/ ListSemanticAlternatives(r) \/ ListFallbackAlternatives(r)

(* What a request does unless something fails, or has to.                  *)
Proceeds(r) == \/ Query(r) \/ Lock(r) \/ Commit(r) \/ Embed(r) \/ Release(r)
               \/ FailsPromptly(r) /\ Fails(r)
=============================================================================
