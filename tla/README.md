# GoodQueue in TLA+

GoodQueue sells scarce products through a queue: a user who joins either gets a
reservation at once or waits, waiting users are invited when stock becomes
free, reservations have deadlines, and a payment provider reports what became
of a payment. This directory holds TLA+ models of that system, TLC
configurations that check them on small instances, and proofs, checked by
TLAPS, that hold for instances of every size.

Line numbers in this file and in `PROJECT.json` refer to the sources under
`src/`. `PROJECT.json` maps each definition to the lines it models.

## 1. The system

### Components

| Component | Source | State | Operations | Module |
|---|---|---|---|---|
| Queue transactions | `internal/repository/postgres/queue_attempt.go`, `internal/pkg/domain/queue_attempt.go` | `products` (stock, reserved, next sequence, enabled), `queue_attempts`, `inventory_adjustments`, rows added to `notification_outbox` | `Join`, `StartCheckout`, `Cancel`, `FindCurrent`, `AdjustStock`, `ReconcileNextProduct` | `QueueTransaction`, `ProductQueue` |
| Payment inbox | `internal/repository/postgres/payment.go` | `payment_inbox` (status, claim token and generation, lease, answer) | `ProcessPayment` = `ClaimPayment`, `ProcessPaymentClaim`, `RetryPaymentClaim` | `PaymentInbox` |
| Demo payment | `internal/usecase/payment.go` | none | `CompleteDemo`: read, pay, read | `DemoPayment` |
| Notification outbox, delivery worker | `internal/repository/postgres/notification_outbox.go`, `internal/worker` | `notification_outbox` (status, lease, attempts, `available_at`) | claim, classify, publish, finalise, retry | `NotificationOutbox` |
| Reconciliation supervisor | `internal/worker/worker.go` | the cycle's list of visited products | `reconcileCycle`, `runLoop` | `ReconcileSupervisor` |
| Adaptive queue controller | `internal/adaptivequeue` | the waiting-buffer percentage, a snapshot | `Refresh` | `AdaptiveQueue` |
| Application lifecycle | `internal/app/app.go` | started, server, workers, the pool | `New`, `Run` | `Application` |
| Configuration | `internal/app/config/config.go` | none | `LoadFrom`, the constructors' own checks | `Configuration` |
| Recommendations, embedding refresh | `internal/repository/postgres/recommendation.go`, `internal/usecase/product.go` | embeddings, an advisory lock, a mutex, pool connections | `Alternatives`, `refreshEmbeddings` | `EmbeddingRefresh` |
| Mock API | `internal/mockapi` | an in-memory queue behind a mutex | as the queue's, without time | `MockAPI` |
| Load-test runner | `internal/loadtestrunner` | the current run | `Start`, `execute` | `LoadtestRunner` |
| Load-test data, k6 scenario, verifier | `internal/loadtest`, `loadtest/k6` | files, rows of a test run, k6's items | `GenerateData`, `Seed`, `advanceItem`, `Verify` | `LoadtestScenario` |
| HTTP, metrics, catalog, frontend, generated code | the rest | none of their own that the queue depends on | | |

### Interaction

The components share nothing but the database. A queue operation is one
transaction, and it begins by locking the product's row (`withLockedProduct`,
417): transactions of one product run one after the other, in an order nobody
controls, and those of different products are unrelated except for the unique
index on payment references. Most operations first *reconcile*: they expire
reservations past their deadline, sell out the line of a product without stock
and promote waiting attempts into free stock, writing an outbox row for each
promotion. The background worker does the same, a bounded number of steps at a
time, to any product that `selectEligibleProduct` finds to have work.

A payment event takes up to three transactions (claim, apply, retry), an
outbox row at least three statements (claim, classify, finalise) with a
publication between them. Several server processes do this at once, and each
may stop anywhere.

### What is hard, and what must hold

* Order of transactions. Joins, expiries, cancellations, purchases and stock
  changes in any order must keep the stored counter equal to what it counts,
  serve the line in order, give a user one place, and leave no promotable stock.
* Deadlines. A reservation is past its deadline before anything notices. No
  late request may use it.
* Repetition. Joins, adjustments and payment events are retried with a key;
  each takes effect once, for ever.
* Several transactions. Claims lapse while their holder is still running; a
  commit is reported as failed; a process dies between two of them.
* Two products and one reference, where no lock helps.
* Progress. With nobody but the worker and the clock, nobody waits for ever.
* One pool for everything. A request that keeps a connection and asks for another
  waits for the others that do the same, and the pool is closed at the end.
* Second opinions. The mock, the verifier and k6 each restate what the queue does. The
  verifier and k6 must agree with it and with one another; where the mock does not has
  to be known.

The hazards are listed at their source lines under `hazards` in
`PROJECT.json`, each with the properties that would catch it.

## 2. The modules

### QueueTransaction: what one transaction does

Pure operators on a record `t`, the product with its attempts. An operator
`XTx(t, ...)` is the whole body of the transaction X, its reconciliations
included, and returns the product it commits.

| Field or operator | Code |
|---|---|
| `t.stock`, `t.reserved`, `t.next`, `t.enabled` | `lockedProduct` (62) |
| `t.attempts`, a sequence | the product's `queue_attempts` by `queue_sequence`; the attempt's number is its sequence |
| an attempt's `left` | ticks to its deadline: 0 means the deadline has passed |
| `t.outbox` | attempts with an invitation row |
| `t.failed` | the operation returned an internal error (`ErrReservedInvariant`, a limit): the transaction rolls back |
| `Reconcile`, `ReconcileBounded` | `reconcileLockedProduct`, `reconcileLockedProductBounded` (595-690) |
| `JoinTx` and its parts `Replayed`, `ActiveOf`, `Refreshed`, `AdmitTx`, `CreateAttempt` | `Join`, `findReplay`, `findActiveAttempt`, `createAttempt` |
| `StartCheckoutTx`, `CancelTx`, `AdjustTx` | `StartCheckout`, `Cancel`, `AdjustStock` |
| `PaymentTx`, `PaymentCode` | `processClaimForProduct` and the two `apply...Payment` |

Identifiers, versions, timestamps kept for display and the texts of errors are
abstracted away. A transaction that answers with a refusal (`ErrQueueFull`,
`ErrOutOfStock`, ...) commits what it reconciled, as the code does by returning
the refusal outside the transaction.

### ProductQueue: one product over time

The variables are the product and `inventory_adjustments`. Each operation is
one action, because the product lock makes it one step; `Tick` is the database
clock. Payments arrive for any attempt, with any outcome and reference, at any
time, as often as anyone likes. A crash inside a transaction is a rollback,
which is a stuttering step.

### PaymentInbox: payment events in several transactions

Composes any number of products (by `QueueTransaction`) with the inbox.
A handler is a request in some process; its steps are the transactions of
`ProcessPayment`. `Answered` lets a committed transaction be reported as failed,
`Fail` rolls one back, `Crash` stops a handler anywhere, and leases and backoffs
lapse by `Tick`. `MeetUniqueIndex` is the refused update of two purchases with one
reference that did not see each other, and `CompensateConflict` the second
transaction that follows. The queue's own transactions go on in between
(`Queue`). A claim's token and generation are abstracted to the handler holding
it: a handler has one claim at a time.

`EachProductIsAProductQueue` is a refinement: seen from product `p`, all of this is
`Queues(p)`, a `ProductQueue` whose payments are applied and nobody adjusts its
stock. It is checked and proved, so what is proved of `ProductQueue` holds of each
product here.

### DemoPayment: paying without a provider

Extends `PaymentInbox` with `CompleteDemo`, one step for each transaction: `Find` (the
user's current attempt, `FindCurrent`), `Pay` and `Process` (the inbox, under an event
id digested from attempt and idempotency key), `Look`. `answered` remembers what the
requests with one key have been told, which is what idempotency is about. The
queue's own transactions go on between the steps.

### NotificationOutbox: delivery under a lease

Rows appear as transactions of the queue add them, and stand in a `line` by
`available_at`; which one a claim takes is `NextClaim`. A failed row waits for
`Backoff`, the shift loop of `exponentialBackoff` on words of `WordBits` bits. Each worker goes through `deliverNotification` step by step.
Its `window` is the time to `LeaseUntil - PublisherTimeout` on the worker's own
clock, which may be behind the database's by a lag smaller than the publisher's
timeout. `live` says which invitations are still of use; how an invitation
lapses is `ProductQueue`'s matter and here it just does. A publisher honours
the deadline of its context (`Tick` does not pass it), and may have delivered
although it reports a failure.

### ReconcileSupervisor: the loops over all products

`runLoop`, `reconcileCycle` and `ReconcileNextProduct` step by step. Of a product
it knows only how many transitions are due (`due`), where it stands by
`updated_at` (`order`) and who has it locked. `Look` and `Lock` are two steps
because the `SELECT ... FOR UPDATE OF p SKIP LOCKED` decides on the snapshot it
began with (`seen`): the product it locks may have been settled since. Requests
lock products too, and settle what they commit. `Poisoned` products are those
whose reconciliation fails whenever it is tried: they keep their `updated_at`, so
they come first again in every cycle. `Afterwards` is the choice between sleeping
and starting over.

### LoadtestRunner: one run at a time, and what runs leave behind

`RunnerSpec`: `Start` and, step by step, the goroutine `execute` of every run with the seed, k6
and verifier processes it waits for; `state` is the one `Runner.state` they all
write. `rows` is `loadtest.runs` and `files` the runs' directories: seeding, the
stored verdict, `--mark-failed` and the cleanup of one disposable run, which
removes directories before rows. `Faults` says what may go wrong; the runner's
container may restart. Writing the mark and setting `KeepData` is one step, since
no order of the two with another run's steps makes a difference.

### AdaptiveQueue: the waiting-buffer percentage

`Refresh` in four steps: the request statistics, the purchase statistics with the
bounded step and the store, and the status, which is written under another lock.
Outcomes are counts in any unit, since only their ratio and the sample threshold
matter; the request statistics are abstracted to the reason a refresh is skipped
for. A disabled controller never changes anything and is left out.

### Application: one run of the process

Composes `Configuration`, `EmbeddingRefresh` and `MockAPI`. `Start` loads an environment and
builds the application; `Stop` is a signal or an error of the listener; then
`ShutdownServer`, the workers' return and `CloseDatabase` follow in the order of `Run`, and
`Expire` ends the context that the first two share. `GiveUpOnWorkers` is
`waitForWorkers` returning early: the process ends without closing the pool. When
both its channels are ready, either is taken, as Go's `select` does.

*Configuration.* An environment is a record of values after parsing. `LoadFrom` is what
`config.go` demands, `New`, `NewEmbedder` and `validateConfig` what the code behind it
demands. `RefreshPanics` is a fact about Go that no check in the code sees: `app.go:93`
declares a `*loadtest.PrometheusClient`, and passing it on as an interface makes a nil
client differ from `nil`. `NewController`'s check for a missing reader therefore never
fires; only the rule at `config.go:315` keeps the worker from panicking. (For the
same reason the router registers the load-test metrics routes without
Prometheus too.)

*EmbeddingRefresh.* Requests go through `Alternatives`: mutex, advisory lock on a
connection kept out of the pool, documents, provider, upsert, release, then
the semantic and the fallback query. Other requests hold a connection for a
transaction. A query may fail anywhere. A request is followed from its first
successful query on: before that it holds nothing. `Peers` are refreshes in
other processes; one that fails leaves things as they were, so the peers are
those that go through. `LoseConnection` ends the session that holds the lock while
its holder goes on. There is one embedding model, and `content` is the version of
the catalog, `cached` the version the stored embeddings were made of.

*MockAPI.* The operations of the mock on one product, as functions on the record
that `QueueTransaction` uses, from the four products of `newState`. `RepositoryShows(t, shown)`
says that some transaction of a repository makes of `t` a product that looks like `shown`
to clients: a cancellation, a payment, a start by the attempt's own user, or a join with any
percentage of `WaitingBuffers`, all of which `config.go` permits and the largest of which is
among them. `StandsFor` compares the mock's step with that, up to the reconciliation it leaves
out, and `Deviates` names the three cases in which the mock does what no repository does:

| Case | What the mock does | What a repository does |
|---|---|---|
| `Overtakes` | after a `Leave` has freed a unit, `Join` gives it to the newcomer (`services.go:239`) | the reconciliation after the cancellation promotes the head of the line |
| `WaitsBeyondBuffer` | up to `WaitingCapacity` people wait, 10 in the fixtures (`services.go:68`, `229`) | at most `stock * 500 / 100` (`config.go:30`), 5 on a product with one unit |
| `LeavesSoldOut` | somebody who waits for stock that is gone becomes `cancelled` (`services.go:302`) | the last sale has made the attempt `sold_out` |

`docs/mock-api.md:21` says that the mock does not replace the PostgreSQL mode where admission
is concerned, so none of the three contradicts it. `MockKeepsToTheQueue` says that these are
all the differences there are, and that each is one. Deadlines are beyond it: the mock never
reads them, so the two are compared before any has passed.

`ServeMock` stays below `MaxSequence` and `MaxJoins`, bounds the mock does not have, and uses
the key of the fixtures again only to replay a join; `MockAssumption` leaves room for the
fixtures, and for a reference other than the mock's own.

### LoadtestScenario: k6, the queue and the verifier

`GenerateData` draws a plan (purchase, cancel, let the deadline pass, or only poll)
for every pair of user and product. k6 plays the pairs one request at a time:
`Join`, `Poll`, and what `advanceItem` does with the entry it saw last, `StartCheckout`,
`Cancel`, `Pay`, `Wait`, `Conclude`. Requests and answers get lost (`LoseJoin`, `Unanswered`,
`PollFails`), a payment may be left open with a 202, the worker and the clock go on.
The server's side is `QueueTransaction`; `trail` keeps what the timestamp columns
tell. Then `ReadProducts` and `ReadAttempts` are two of `Verify`'s statements, with the worker
in between, and `Verdict` is made of `Evaluate`'s checks and
`evaluatePurchaseOutcomes`, each an operator with the code's name.

### What each module is checked with

`MC...` modules hold the instances' definitions. Operators named `Mut...`
are mutated forms of the definition that follows them, each a bug one could
have written; `PROJECT.json` pairs each with the property it must break. They
are used by no specification.

## 3. The runs

| Run | Instance | What it shows |
|---|---|---|
| `product_queue_safety` | 3 users, 2 keys, up to 4 attempts, stock 2, waiting buffer 0 or 150 %, worker limit 1 | no order of transactions, deadlines and late, repeated or contradictory payments breaks the counter, the line, idempotency, finality, the deadlines or settledness |
| `product_queue_liveness` | 3 users, up to 3 attempts, 2 adjustments, stock 0 to 2, no symmetry | every unit is accounted for while a seller moves the stock; all invitations are announced; nobody waits and no reservation is held for ever |
| `payment_inbox_safety` | 2 products, 2 handlers, 2 events, 5 reports that contradict and repeat each other or share a reference | a payment takes effect once, buys or is returned; its answer is final; the unique index catches what locking cannot; the refinement |
| `payment_inbox_liveness` | 1 product, 2 handlers, 2 events | every recorded event is concluded |
| `demo_payment` | 1 user, 2 attempts, 1 handler | violation: a repeated request contradicts the answer it had |
| `notification_outbox` | 2 workers, 1 invitation, 1 compensation no publisher accepts, lease 4, timeout 2, lag 0 or 1, words of 3 bits | a publisher holds the lease; nothing is lost; what is sent stays sent; waits double without overflow; a row that fails for ever holds nobody up |
| `reconcile_supervisor` | 2 supervisors, 2 products, one poisoned, batch 1, 2 products per cycle | a batch cut short is resumed at once, the poisoned product starves nobody and does not keep the loops from sleeping |
| `adaptive_queue` | 20 to 150 %, steps of 50, up to 3 outcomes of a kind | limits, no overshoot, and convergence |
| `application` | 2 requests, 1 peer, pools of 1 and 2, 1 edit of the catalog; 5 demo users; 4 mock products; some 2300 environments | what loads also starts; the pool is closed under nobody in time; a shutdown ends; requests are answered; embeddings catch up; the mock departs from the permitted repositories in three cases and no other |
| `loadtest_scenario` | 2 users, 2 products, all plans, one unit each, buffer 0 or 100 % | the tables satisfy the verifier's checks at any moment; the verifier and k6 agree; k6 never has to give up |
| `loadtest_runner_faults` | 3 runs, everything may fail | the runner is never stuck and kept data survives, overlapping runs included |
| `loadtest_runner_seed_fails` | 2 runs, seeding may fail | violation: two runs execute at once |

The violations are findings.

* When seeding fails, `execute` sets the status to `failed` (`runner.go:186`) before it
  has marked the run and finished; `Start` takes a status that is not active for a
  runner that is free. The second run executes beside the first one's last steps,
  and the first one's `finish` then writes its outcome into the state of the second,
  after which a third may start. `loadtest/README.md:122` promises
  `409 ALREADY RUNNING` during an active process.
* `CompleteDemo` asks for the user's *current* attempt first and compares it with the
  one to be paid (`usecase/payment.go:61`). A user who has paid and joined again
  is told `attempt not found` when the first request is repeated with its key, although
  the inbox holds its answer. `handler/demo_payment.go:31` says that the operation is
  idempotent.

### Bounds, and why they are enough

* `MaxSequence` bounds `next_queue_sequence`, as the 64-bit column does: a join
  beyond it fails and rolls back, which is the code's behaviour. Four attempts by
  three users give a holder, somebody waiting, a newcomer behind them and a
  second attempt by one of them, which is what the ordering and uniqueness
  properties need.
* `MaxStock` stands for the 32-bit limit of `allocatable_stock`. At 2 there can be
  one unit reserved and one free, an adjustment can invite two at once, and it can
  reach and pass the limit.
* Deadlines are counted down in ticks. A checkout lasts 2 ticks in the safety run
  and an invitation 1, so that they lapse together and one after the other.
* A worker's transition limit of 1 is the smallest: every reconciliation with
  more than one step to make is cut short.
* Two handlers and two workers are enough for a claim to be taken over while its
  first holder is still running; a third would only take over again. Two events
  contradict each other about one attempt; a third event repeats one of them.
* A lease of twice the publisher's timeout is the least that `LoadFromEnv` accepts
  (`config.go:203`).
* `MaxLapses` bounds how often anything falls due in the supervisor's model. With 3
  a product can need two batches of 1 while another one fails. `PoisonAssumption`,
  fewer poisoned products than a cycle visits, is needed and not enforced by the
  code: `GOODQUEUE_MAX_PRODUCTS_PER_CYCLE` may be 1.
* `MaxOutcomes` bounds the outcomes in the controller's window. Up to 3 of a kind give
  ratios of 0 to 300 %, below, between and above the limits, and no purchase at all.
* Three load-test runs are one that fails, one that overlaps it and one that cleans
  up; a fourth would overlap in the same way.
* `MaxAttempts` caps `attempt_count` where the backoff has reached its maximum;
  `WordBits` of 3 make `RetryMax` the largest value of the word, where a shift too many
  would be lost.
* The sets of environments vary together what some check compares: mode, pools and
  keys; the durations; the percentages with the flags they depend on. The others
  are at an accepted value. Percentages go one beyond the limit.
* `MaxContent` of 2 is an edit of the catalog while a refresh is on its way with the
  older documents. One peer takes the lock away and stores older documents over
  newer ones; a second would do the same.
* `MockCapacity` of 3 and buffers of 0 and 200 % stand for 10 and 0 to 500 %: with one unit the
  largest buffer has fewer places than the mock, with three it has more. `MaxJoins` of 4 is
  what it takes on the product with three units to use them up, wait, and be joined by a
  newcomer after a `Leave`, with enough free units for everyone and with too few; the
  percentages between the extremes add no outcome, since a join is admitted or is not.
* In the load-test scenario two users on one product with one unit are a holder and
  somebody who waits or, with a buffer of 0, is turned away; two products with one
  user each are the independent case. A pair has at most one attempt, as k6 joins once.
* Users, keys, references, handlers and workers are interchangeable where
  `SYMMETRY` is used; no liveness run uses it.

`notification_outbox` does not check deadlock: when every row is sent the system has
nothing left to do. Nor do the load-test runs, `application` and `demo_payment`, which
end when the runs, the process or the requests there are have ended.

### Fairness

* `ProductQueue`: the clock (`WF(Tick)`) and the worker (`WF(WorkerReconcile)`). That
  a product with work is reached is `HealthyProductsSettle` of `ReconcileSupervisor`. Users are not fair: they
  may leave at any moment, and the properties hold all the same.
* `PaymentInbox`: nothing in the server returns to a recorded event by itself, so
  the provider must deliver it again until it is concluded (`SF(Redelivered)`), as
  providers do when they are answered 202 or with an error. A transaction that is
  tried again and again succeeds at last (`SF(Processed)`), though handlers may
  crash infinitely often.
* `NotificationOutbox`: the clock and the workers in `Steady`, at least one, go on; the
  other may stop anywhere for ever. Every `Publish` call returns, since its context
  has a deadline. Invitations lapse, and from some time on nothing breaks (`<>[]` no
  trouble) and no worker sleeps through its lease (`Oversleeps`). The order of the line
  is in the model, so no fairness between rows is assumed: that is what
  `EveryNotificationConcludes` shows.
* `ReconcileSupervisor`: the loops go on and requests end, and from some time on
  the database fails nobody but the poisoned products. Which product a cycle
  takes is in the model (`order`), so again no fairness between products.
* `AdaptiveQueue`: the ticker goes on (`WF(ReadRequests)`) and the statistics are good
  enough again and again (`SF(Adjust)`); `PercentSettles` promises nothing otherwise.
* `Application`: the shutdown context expires and `Run` takes the steps it can. A
  waiter for the mutex or the pool is served in turn, as Go and `database/sql` do, so a
  request's own steps are strongly fair while the process is alive; a closed pool
  and a provider's HTTP timeout fail a request promptly. Refreshes elsewhere happen
  now and then and not always in vain, which `EmbeddingsCatchUp` needs when this process
  is not asked for anything. Workers, signals, arrivals and other failures are
  not fair: `ShutdownCompletes` holds though workers never return.
* `LoadtestScenario`: the clock, the worker, k6's next action; and a poll that is
  repeated for ever is answered at last. `GiveUp` is not fair: the timeouts are not
  what ends an item.

## 4. The proofs

TLAPS checks the `...Proofs` modules for every choice of the constants that
meets the named assumptions of the modules: any number of users, products,
handlers, events, workers, rows, supervisors and runs, any durations, limits and
stock. The assumptions say that durations and limits are positive, that a
"no value" is none of the values, that deltas are not zero, that the initial stock
fits, and what `config.go` demands of leases, timeouts and backoffs.
`PowerAssumption` of `NotificationOutbox` is plain arithmetic (powers of two double),
stated because the provers do not know exponentiation; TLC evaluates it, as it does
every other assumption. `MockAssumption` and `ConfigAssumption` say that the fixtures and the
seeded stocks fit the bounds, and that `WaitingBuffers` are permitted percentages with the
largest among them. No proof needs `PoisonAssumption` or fairness.

### The queue

The inductive invariant is `Good(product)` of `QueueTransactionProofs`, with the
typing of the adjustments. It says that the record is well typed, that the
counter is the number of holders and at most the stock, that a later attempt of
anyone behind a waiting one waits or was cancelled, that only a user's last
attempt is active, that keys are not repeated, that invitations have their rows
and that somebody who waits has none. None of these parts is inductive
alone: that a newcomer can be given a reservation without overtaking anyone
needs that nobody waits while stock is free, which a *reconciled* product has
(`Settled`) and an arbitrary committed product has not, since deadlines lapse between
transactions. The argument therefore runs through the operators:

1. `ReconcileKeepsGood`: a bounded reconciliation preserves `Good`, with any
   limit. The cardinality lemmas on the sets that change state account for the
   counter.
2. `ReconcileSettles`: with the limit requests use it leaves no work at all.
3. `JoinSettles`, `StartCheckoutSettles`, `CancelSettles`, `AdjustSettles` and
   `PaymentSettles`: a transaction preserves `Good` and, if it changed anything,
   ends settled. They follow from 1, from 2, and from a lemma on the transaction's
   own change of one attempt (`AppendKeepsGood`, `StartKeepsGood`,
   `ReleaseKeepsGood`, `PurchaseKeepsGood`).
4. `InvariantHolds` of `ProductQueueProofs`: one step per action of `Next`, each by
   the lemma of its transaction. `Tick` changes `left` only.
5. `Remembers`, in the same module: `Follows(t, t2)` relates a product to what a transaction may
   make of it (ends are final, deadlines hard, only a purchase writes a
   reference). It is transitive and holds of each transaction, and
   `Remembers` is what it preserves.
6. `StockConserved`: an invariant on the ledger. Units sold, units in stock and what the
   adjustments took add up; `KeepsWhatWasBought` and the like say
   which transactions write the stock or buy at all, and `AppliedUnits` that the set of
   units added grows by those of the one adjustment that was applied.

What a write keeps whatever the line looks like is `Sound` (typing and the counter),
and `SettledStays` says that reconciling a product that needs none changes nothing. The
mock, whose fixtures need not stand in order, is proved from `Sound` and from what a
reconciliation does where no deadline has passed.
The lemmas are about operators on a record, so `PaymentInboxProofs`, `ApplicationProofs` and
`LoadtestProofs` use them as they stand.

### The payment inbox

`IInv` of `PaymentInboxProofs`. `EveryPaymentAppliesOnce` speaks of events and attempts; what
makes it inductive is the correspondence between the two: an accepted event has
an attempt that ended as it says (`AcceptedApply`), an attempt that a payment ended
has its accepted event (`DecidedWereAccepted`), and no two (`AcceptedOnce`).
`NothingKept` says where the money of each concluded event is, and `OwnersApart` that
products own different references, which the unique index keeps true when two
transactions that cannot see each other meet it. Claims, tokens and leases appear
only in the typing of rows and handlers: a handler that has lost its claim is
stopped by `ClaimHolds`, whatever it believes.

`ProductsAreQueues` proves the refinement. `StepIsAQueueStep` takes the steps one by one: a
step of the inbox that does not commit to `p` leaves `p` alone; a commit is one
action of `Queues(p)`. The transaction operators are parameters of both
modules through `INSTANCE`, and the `Same...` lemmas identify the two copies. The
one step that has no namesake there is a payment whose reference another product
has used: it refuses what the reference would buy if `p` were alone, and
`TakenOnlyRefuses` shows that what is committed then is a mere reconciliation, which
`ProductQueue` may take as well.

### The notification outbox

`IInv` of `NotificationOutboxProofs`. A worker whose window is open holds a lease that
outlasts the window (`LeaseOutlastsWindow`), which is the margin of
`deliverNotification` less the lag of the clock. A worker that is done has a reason
(`DoneForAReason`), and knows how often the row it holds was tried (`Counted`), from which
`BackoffIsExact` follows with a lemma on the shift loop: its guard admits only products
up to `RetryMax`, so no bit leaves the word.

### The application

`LifeInv` of `ApplicationProofs` is one invariant over start, requests and shutdown: which
phase the process is in, what that says of its server, workers and pool
(`Shutdown`), and that the own request between `Lock` and `Unlock` is the one that holds
`embeddingMu` (`HeldWhileRefreshing`). `ConfigurationsStart` needs no invariant beyond the
phase, but the lemma `AcceptedIsServed`: every rule of the constructors follows from one
of `LoadFrom`'s. `DatabaseClosesLast` reads `Shutdown`, and `RefreshesExclude`, which no run
states, `HeldWhileRefreshing`.

`MockKeeps` compares two programs, in both directions and on every line the mock can get
into, for any users, keys, `MockCapacity` and `MaxWaitingBuffer`. Where the mock does not
deviate, its step is one of a repository (`MockStepStandsFor`, one lemma per operation);
where it deviates, no transaction with any permitted buffer shows the same
(`MockStepDeviates`). The two products are compared as a client sees them, after the
reconciliation the mock leaves out. The invariant, `MockProduct`, says that the mock's
product is `Sound`, that nothing in it is due, and that it was bought with the one
reference. The repository reconciles before its own change and the mock not at all, so the
lemmas carry the change across a reconciliation that only invites: `PrefixIsFirstN` and
`InvitedFromTheHead` say that it invites the first few of the line, and `ReleaseCommutes`
that giving up a place before or after that comes to the same. In the other direction
`OnlyJoinsAppend` leaves the join as the one transaction a newcomer can stand for, and
`LargestBuffer` lets the percentage be the largest.

### The load-test scenario

Two judges look at one run: `verify.go` at the tables, k6 at what it was answered.
`ScenarioInv` of `LoadtestProofs` has three parts.

* `ProductInv(t, T, stock)`: `Good`, `Remembers`, keys that are users, timestamps that go with
  states, and stock and sold units that add up to the stock that was seeded. It
  is all that the verifier's checks of inventory, sequences, keys and timestamps ask
  (`QueueEvaluates`), hence `VerifierAccepts`.
* `PairInv`: what k6 and the inbox know of an attempt is true of it (`Known`), though answers
  were lost: a terminal entry that k6 saw is the state, one it never saw is not
  claimed, a `purchased` attempt has its accepted event, a `cancelled` one was planned.
  `Advances` says what a transaction can do to a state, and `ServedStaysKnown` that nothing
  known is undone by it.
* `Scene`: the typing, and that all plans are of one scenario.

`JudgesAlwaysAgree` adds `ReadInv`: `Verify`'s first statement has read what its second still
finds. That is so only when k6 has passed, since then nobody is left for the
worker to move (`NobodyIsLeft`); when k6 has not passed the read may be torn, and the
verdict is the same nevertheless, since `evaluatePurchaseOutcomes` fails on what k6
failed on (`VerdictsAgree`).

### The supervisor, the runner, the controller

* `ReconcileSupervisorProofs`: `Accounted`, a cycle without failures that is as young as
  the last lapse, and has no more work to report, has left none at the products it
  visited. The type invariant, that a product is in one transaction at a time, is
  proved here and not in a run.
* `LoadtestProofs`, its first part: a run that is finishing knows its result, one that was not
  seeded has left nothing, what is to be kept is marked so, and what is on its
  way to be deleted nobody asked to keep.
* `AdaptiveQueueProofs`: `TargetIsPermitted` (clamping) and `StepIsBounded` say what the two
  operators return; the inductive invariant adds that a stored `stable` means the target
  is reached, which the status says only one step later.

| Theorem | Property |
|---|---|
| `ProductQueueProofs`: `TypeCorrect` | `TypeOK` |
| `ReservationsMatch` | `ReservedMatchesHolders`: `ErrReservedInvariant` is unreachable |
| `ServedInOrder` | `FirstComeFirstServed` |
| `OneActiveAttempt` | `ActiveAttemptIsLatest` |
| `JoinIsIdempotent` | `JoinKeyNamesOneAttempt` |
| `EveryInvitationAnnounced` | `InvitationsAreAnnounced` |
| `RequestsSettle` | `RequestsLeaveNoWork` |
| `EndsAreFinal` | `EndedAttemptsNeverChange` |
| `DeadlinesHold` | `DeadlinesAreHard` |
| `StockConserved` | `StockIsConserved` |
| `ReferencesBuyOnce` | `ReferenceBuysOnce`, which the inbox's property contains |
| `QueueTransactionProofs`: `ReconcileSettles` | the operator's own theorem |
| `PaymentInboxProofs`: `PaymentsApplyOnce` | `EveryPaymentAppliesOnce` |
| `PaymentsBuyOrReturn` | `EveryPaymentBuysOrIsReturned` |
| `ReferencesHaveOneOwner` | `ReferenceBuysOneAttempt` |
| `AnswersNeverChange` | `AnswersAreFinal` |
| `ProductsAreQueues`, `ImplementsProductQueue` | `EachProductIsAProductQueue` |
| `NotificationOutboxProofs`: `PublishersHoldTheirLease` | `PublisherHoldsLease` |
| `NoNotificationLost` | `NothingIsLost` |
| `SentNeverChanges` | `SentIsFinal` |
| `BackoffIsExact` | `RetriesBackOff` |
| `ReconcileSupervisorProofs`: `WorkIsResumed` | `UnfinishedWorkIsResumed` |
| `LoadtestProofs`: `NeverStuck` | `RunnerIsNeverStuck` |
| `KeptRunsAreSafe` | `KeptRunsSurvive` |
| `VerifierAccepts` | `VerifierAcceptsTheQueue` |
| `JudgesAlwaysAgree` | `JudgesAgree` |
| `ApplicationProofs`: `ConfigurationsStart` | `LoadedConfigurationsStart` |
| `DatabaseClosesLast` | `DatabaseOutlivesItsUsers` |
| `RefreshesExclude` | `OneRefreshAtATime` |
| `MockKeeps` | `MockKeepsToTheQueue` |
| `AdaptiveQueueProofs`: `PercentInRange` | `PercentStaysInRange` |
| `StatusTruthful` | `StatusIsTrue` |
| `RefreshApproaches` | `StepsApproachTheTarget` |

With these, every invariant and every action property that a passing run
checks is also proved. Only model-checked: liveness throughout, since the prover
handles neither `ENABLED` nor fairness (`NobodyWaitsForever` and its like need both); and
the violations, which are single behaviours.

## 5. Not modelled, and the plan

Left out for good: HTTP encoding, texts, metrics and logs, generated code, the
frontend (its requests are among those of `ProductQueue`), catalog queries, ranking
and vectors, parsing of the environment, migrations. An error of the database
inside a transaction is a rollback everywhere.

Left out of components that are otherwise modelled:

* Of the verifier: `checkFIFO` and `checkWaitingPositions`, which cannot fail of attempts kept
  in the order of their sequence (`created_at` is the clock read under the product
  lock, in `withLockedProduct`); `checkSeedRecords` and `checkReferences`, which are about
  rows nobody but `Seed` writes; the totals of `evaluateQueueScenario`.
* Of the embedding refresh: ranking and vectors. A pool of one connection is in the model
  but promised nothing: `GOODQUEUE_DATABASE_MAX_OPEN_CONNS=1`
  with an embedder is accepted, and then a refresh waits for the connection it has
  set apart itself until its client leaves. `EveryRequestIsAnswered` excludes it by
  `~Starved`; `usecase/product.go:42` says that embedding failures must never make the
  journey unavailable.
* Of the Prometheus client: its queries; only their results appear.
* Of the mock: reads, deadlines (nothing in it looks at them), and whatever concerns several
  products at once.
* Of the load-test runner: a property that forbids the loss of a failed run.
  `KeptRunsSurvive` is about data somebody asked to keep, and about runs the runner
  remembers; a restart forgets the request of a run that was executing. A run
  that failed without such a request can be lost when marking it fails
  (`runner.go:254`), although `loadtest/README.md:191` says failed runs are always kept.

Next, in this order:

1. An abstract specification of purchase rights (a unit is free, held or sold),
   implemented by `ProductQueue`, which the mock and the load test would then implement
   as well.
2. Retention of load-test runs: that failed runs are kept and disposable ones do
   not pile up, when marking fails and when runs overlap.
3. Proofs of the parts of liveness arguments that are safety: that each helpful
   step of the worker lowers a measure no other step raises.
