------------------------- MODULE NotificationOutbox -------------------------
(***************************************************************************)
(* The notification outbox and its delivery workers.                       *)
(*                                                                         *)
(* Transactions of the queue add rows: an invitation when an attempt is    *)
(* promoted, a compensation when a payment cannot buy what it paid for.    *)
(* Each server process runs one delivery worker, which claims a row under  *)
(* a lease, looks whether the invitation is still worth sending, publishes *)
(* it and writes down what became of it, each in a statement of its own.   *)
(* Workers are slow, crash, and lose the answers of the database; their    *)
(* clocks lag behind the database's.                                       *)
(***************************************************************************)
EXTENDS Integers, Sequences

CONSTANTS Invitations,       \* rows of type queue.invited
          Compensations,     \* rows of type payment.compensation_required
          Undeliverable,     \* rows no publisher ever accepts
          Workers,           \* one per server process
          Steady,            \* the workers whose processes go on for ever
          NoWorker,          \* lease_token IS NULL
          LeaseDuration,     \* OutboxLeaseDuration, in clock ticks
          PublisherTimeout,  \* in clock ticks
          RetryBase,         \* OutboxRetryBase
          RetryMax,          \* OutboxRetryMax
          Lags,              \* how far a worker's clock may be behind
          WordBits,          \* of a time.Duration
          MaxAttempts        \* attempt_count is not told apart above this

Rows == Invitations \cup Compensations

ASSUME RowAssumption == /\ Invitations \cap Compensations = {}
                        /\ Undeliverable \subseteq Rows
ASSUME WorkerAssumption == /\ NoWorker \notin Workers
                           /\ Steady \subseteq Workers /\ Steady # {}
(* The bounds LoadFromEnv demands of the durations.                        *)
ASSUME DurationAssumption ==
  /\ PublisherTimeout \in Nat \ {0} /\ LeaseDuration \in Nat
  /\ 2 * PublisherTimeout <= LeaseDuration
  /\ RetryBase \in Nat \ {0} /\ RetryMax \in Nat /\ RetryBase <= RetryMax
(* A clock that is a whole publisher timeout behind voids the margin that  *)
(* deliverNotification keeps to the end of the lease.                      *)
ASSUME LagAssumption == Lags \subseteq 0 .. (PublisherTimeout - 1)
ASSUME WordAssumption == WordBits \in Nat \ {0, 1} /\ RetryMax < 2 ^ (WordBits - 1)
(* Counts that are not told apart all have the longest backoff.            *)
ASSUME AttemptAssumption == MaxAttempts \in Nat /\ MaxAttempts >= WordBits
(* Arithmetic, for the proofs: powers of two double.                       *)
ASSUME PowerAssumption ==
  /\ 2 ^ 0 = 1
  /\ \A m, n \in 0 .. MaxAttempts : 2 ^ n \in Nat \ {0} /\ (m < n => 2 * 2 ^ m <= 2 ^ n)

VARIABLES rows,       \* notification_outbox
          line,       \* the rows, in the order of available_at
          live,       \* invitations that are invited and before their deadline
          published,  \* rows a publisher has accepted, at least once
          workers     \* where each worker is in deliverNotification

vars == <<rows, line, live, published, workers>>

NoRow == [status |-> "none", token |-> NoWorker, left |-> 0, attempts |-> 0]
Idle == [step |-> "idle"]

Init == /\ rows = [r \in Rows |-> NoRow]
        /\ line = << >>
        /\ live = {}
        /\ published = {}
        /\ workers = [w \in Workers |-> Idle]

-----------------------------------------------------------------------------
(* available_at, in ticks from now.  A claim leaves it where it was.       *)
Available(r) == IF rows[r].status = "processing" THEN 0 ELSE rows[r].left

(* Where a row belongs that becomes available in d ticks.                  *)
Placed(r, d) ==
  LET others == SelectSeq(line, LAMBDA q : q # r)
  IN  SelectSeq(others, LAMBDA q : Available(q) <= d) \o <<r>>
        \o SelectSeq(others, LAMBDA q : Available(q) > d)

(* A transaction adds a row, which is available at once; an invitation's   *)
(* deadline is still ahead.                                                *)
Enqueue(r) ==
  /\ rows[r] = NoRow
  /\ rows' = [rows EXCEPT ![r].status = "pending"]
  /\ line' = Placed(r, 0)
  /\ live' = live \cup ({r} \cap Invitations)
  /\ UNCHANGED <<published, workers>>

(* The user starts the checkout or cancels, or the deadline passes.        *)
Lapse(r) ==
  /\ r \in live
  /\ live' = live \ {r}
  /\ UNCHANGED <<rows, line, published, workers>>

-----------------------------------------------------------------------------
(***************************************************************************)
(* ClaimNotification: the first row in line that is due, or whose lease    *)
(* has run out.                                                            *)
(***************************************************************************)
Claimable(r) == /\ rows[r].status \in {"pending", "failed", "processing"}
                /\ rows[r].left = 0

NextClaim(r) == /\ Claimable(r)
                /\ \E i \in DOMAIN line :
                     line[i] = r /\ \A j \in 1 .. (i - 1) : ~Claimable(line[j])

(* window: the time until LeaseUntil - PublisherTimeout, as the worker's   *)
(* clock has it.                                                           *)
Claim(w) ==
  /\ workers[w] = Idle
  /\ \E r \in Rows, lag \in Lags :
       /\ NextClaim(r)
       /\ rows' = [rows EXCEPT ![r] =
            [status |-> "processing", token |-> w, left |-> LeaseDuration,
             attempts |-> IF @.attempts < MaxAttempts THEN @.attempts + 1
                                                      ELSE MaxAttempts]]
       /\ workers' = [workers EXCEPT ![w] =
            [step |-> "claimed", row |-> r, attempts |-> rows'[r].attempts,
             window |-> LeaseDuration - PublisherTimeout + lag]]
  /\ UNCHANGED <<line, live, published>>

(* ClassifyInvitation: only an invitation can become obsolete.             *)
MutJudgesAll(r) == r \notin live
Obsolete(r) == r \in Invitations /\ r \notin live

(* The worker no longer minds the time.                                    *)
Leaves(w, step) == workers' = [workers EXCEPT ![w].step = step, ![w].window = 0]

Classify(w) ==
  /\ workers[w].step = "claimed"
  /\ IF Obsolete(workers[w].row) THEN Leaves(w, "done")
     ELSE workers' = [workers EXCEPT ![w].step = "current"]
  /\ UNCHANGED <<rows, line, live, published>>

(* The publication must end a publisher timeout before the lease does.     *)
MutWindow(w) == PublisherTimeout
Window(w) == IF workers[w].window < PublisherTimeout THEN workers[w].window
                                                     ELSE PublisherTimeout
BeginPublish(w) ==
  /\ workers[w].step = "current"
  /\ Window(w) > 0
  /\ workers' = [workers EXCEPT ![w].step = "publishing", ![w].window = Window(w)]
  /\ UNCHANGED <<rows, line, live, published>>

TooLate(w) ==
  /\ workers[w].step = "current"
  /\ Window(w) = 0
  /\ Leaves(w, "failed")
  /\ UNCHANGED <<rows, line, live, published>>

(* Publish returns.  A failed or timed-out call may have delivered.        *)
PublishSucceeds(w) ==
  /\ workers[w].step = "publishing"
  /\ workers[w].row \notin Undeliverable
  /\ published' = published \cup {workers[w].row}
  /\ Leaves(w, "done")
  /\ UNCHANGED <<rows, line, live>>

PublishFails(w) ==
  /\ workers[w].step = "publishing"
  /\ \/ UNCHANGED published
     \/ /\ workers[w].row \notin Undeliverable
        /\ published' = published \cup {workers[w].row}
  /\ Leaves(w, "failed")
  /\ UNCHANGED <<rows, line, live>>

(* Every write is for the claim the worker was given: the token and the    *)
(* generation tell it from every other one.                                *)
MutUnfenced(w) == rows[workers[w].row].status # "none"
HoldsClaim(w) == /\ rows[workers[w].row].status = "processing"
                 /\ rows[workers[w].row].token = w

(* MarkNotificationSent and MarkNotificationObsolete; ErrStaleClaim is only *)
(* logged.                                                                 *)
Finalize(w) ==
  /\ workers[w].step = "done"
  /\ rows' = IF HoldsClaim(w)
             THEN [rows EXCEPT ![workers[w].row].status = "sent",
                               ![workers[w].row].token = NoWorker,
                               ![workers[w].row].left = 0]
             ELSE rows
  /\ workers' = [workers EXCEPT ![w] = Idle]
  /\ UNCHANGED <<line, live, published>>

(* exponentialBackoff, in words of WordBits bits: a product that does not  *)
(* fit wraps around, and the guard is there to keep it from doing so.      *)
Smaller(a, b) == IF a < b THEN a ELSE b
Word(n) == LET r == n % 2 ^ WordBits
           IN  IF r < 2 ^ (WordBits - 1) THEN r ELSE r - 2 ^ WordBits

MutShiftsOut(n) ==
  IF n <= 1 THEN RetryBase
  ELSE Smaller(Word(RetryBase * Word(2 ^ (n - 1))), RetryMax)
Backoff(n) ==
  IF n <= 1 THEN RetryBase
  ELSE IF \/ n - 1 >= WordBits - 1
          \/ RetryBase > RetryMax \div Word(2 ^ Smaller(n - 1, WordBits - 2))
  THEN RetryMax
  ELSE Smaller(Word(RetryBase * Word(2 ^ (n - 1))), RetryMax)

MutAtOnce(r, n) == /\ rows' = [rows EXCEPT ![r].status = "failed", ![r].token = NoWorker, ![r].left = 0]
                   /\ UNCHANGED line
Rescheduled(r, n) == /\ rows' = [rows EXCEPT ![r].status = "failed", ![r].token = NoWorker,
                                             ![r].left = Backoff(n)]
                     /\ line' = Placed(r, Backoff(n))

RetryNotification(w) ==
  /\ workers[w].step = "failed"
  /\ IF HoldsClaim(w) THEN Rescheduled(workers[w].row, workers[w].attempts)
                      ELSE UNCHANGED <<rows, line>>
  /\ workers' = [workers EXCEPT ![w] = Idle]
  /\ UNCHANGED <<live, published>>

(* The process dies, or the database fails a read or a write; the lease    *)
(* stays.  A failed ClassifyInvitation goes to RetryNotification instead.  *)
Abandon(w) ==
  /\ workers[w] # Idle
  /\ \/ workers' = [workers EXCEPT ![w] = Idle]
     \/ workers[w].step = "claimed" /\ Leaves(w, "failed")
  /\ UNCHANGED <<rows, line, live, published>>

-----------------------------------------------------------------------------
Sooner(n) == IF n > 0 THEN n - 1 ELSE 0

(* A publication in flight is cancelled at its deadline.                   *)
Tick ==
  /\ \/ \E r \in Rows : rows[r].left > 0
     \/ \E w \in Workers : workers[w] # Idle /\ workers[w].window > 0
  /\ \A w \in Workers : workers[w].step = "publishing" => workers[w].window > 0
  /\ rows' = [r \in Rows |-> [rows[r] EXCEPT !.left = Sooner(@)]]
  /\ workers' = [w \in Workers |->
       IF workers[w] = Idle THEN Idle ELSE [workers[w] EXCEPT !.window = Sooner(@)]]
  /\ UNCHANGED <<line, live, published>>

Work(w) == \/ Claim(w) \/ Classify(w) \/ BeginPublish(w) \/ TooLate(w)
           \/ PublishSucceeds(w) \/ PublishFails(w)
           \/ Finalize(w) \/ RetryNotification(w)

Next == \/ \E r \in Rows : Enqueue(r) \/ Lapse(r)
        \/ \E w \in Workers : Work(w) \/ Abandon(w)
        \/ Tick

Spec == Init /\ [][Next]_vars

(***************************************************************************)
(* Fairness.  The clock and at least one process go on (a server may run   *)
(* alone; another may stop anywhere and for ever), a publication ends by   *)
(* the deadline of its context, invitations lapse, and there comes a time  *)
(* after which nothing breaks: no database call fails, no worker sleeps    *)
(* through its window or its lease and no publisher fails a row it can     *)
(* deliver.  (To write for a claim that was taken over changes nothing but *)
(* the worker, just as a failure would.)                                   *)
(***************************************************************************)
Trouble(w) == \/ Abandon(w) /\ ~(Finalize(w) \/ RetryNotification(w))
              \/ TooLate(w)
              \/ PublishFails(w) /\ workers[w].row \notin Undeliverable

Oversleeps == /\ Tick
              /\ \E w \in Workers : /\ workers[w] # Idle /\ HoldsClaim(w)
                                    /\ rows[workers[w].row].left = 1

FairSpec == /\ Spec
            /\ WF_vars(Tick)
            /\ \A w \in Steady : WF_vars(Work(w))
            /\ \A w \in Workers : WF_vars(PublishSucceeds(w) \/ PublishFails(w))
            /\ \A r \in Invitations : WF_vars(Lapse(r))
            /\ <>[][~Oversleeps /\ \A w \in Workers : ~Trouble(w)]_vars

-----------------------------------------------------------------------------
(***************************************************************************)
(* Invariants.                                                             *)
(***************************************************************************)
(* A row has a token exactly while it is processing and waits only until   *)
(* it is sent; what a worker works on has been added.                      *)
TypeOK ==
  /\ rows \in [Rows -> [status : {"none", "pending", "processing", "failed", "sent"},
                        token : Workers \cup {NoWorker}, left : Nat, attempts : 0 .. MaxAttempts]]
  /\ \A r \in Rows :
       /\ rows[r].token # NoWorker <=> rows[r].status = "processing"
       /\ rows[r].status \in {"none", "pending", "sent"} => rows[r].left = 0
       /\ r \in live => rows[r].status # "none"
  /\ published \subseteq Rows \ Undeliverable
  /\ workers \in [Workers -> {Idle} \cup
       [step : {"claimed", "current", "publishing", "done", "failed"},
        row : Rows, attempts : 1 .. MaxAttempts, window : 0 .. LeaseDuration]]
  /\ \A w \in Workers : workers[w] # Idle => rows[workers[w].row].status # "none"

Publishing(w) == workers[w].step = "publishing"

(* Whoever is publishing a row holds its lease: nobody else is publishing  *)
(* it, nobody else can claim it, and it was not sent by another worker in  *)
(* the meantime.  This rests on the publisher timeout that                 *)
(* deliverNotification keeps free before LeaseUntil, for a worker that was *)
(* suspended anywhere after its claim and whose clock is behind.           *)
PublisherHoldsLease ==
  \A w \in Workers : Publishing(w) =>
    HoldsClaim(w) /\ rows[workers[w].row].left > 0

(* No notification is lost: what is marked sent was accepted by a          *)
(* publisher, or is an invitation that is of no use any more.  A           *)
(* compensation is never dropped.                                          *)
NothingIsLost ==
  \A r \in Rows : rows[r].status = "sent" => r \in published \/ r \in Invitations \ live

(***************************************************************************)
(* What a step may never do.                                               *)
(***************************************************************************)
(* A row that is sent stays sent, and no worker starts to publish it: a    *)
(* late worker's retry does not undo what a faster one finished.           *)
SentIsFinal ==
  [][\A r \in Rows : rows[r].status = "sent" => rows'[r] = rows[r]]_vars

(* A row that failed waits twice as long as it did the last time, up to    *)
(* the longest backoff, however often it has failed: exponentialBackoff    *)
(* gives what the arithmetic without a word size would.                    *)
RetriesBackOff ==
  [][\A r \in Rows :
       rows[r].status = "processing" /\ rows'[r].status = "failed" =>
         rows'[r].left = Smaller(RetryBase * 2 ^ (rows[r].attempts - 1), RetryMax)]_vars

(***************************************************************************)
(* Liveness.                                                               *)
(***************************************************************************)
(* Every row that can be delivered is concluded, and so is every           *)
(* invitation: a row no publisher accepts does not hold up the others,     *)
(* though it comes back for ever, and a dead worker's claim is taken over. *)
EveryNotificationConcludes ==
  \A r \in Invitations \cup (Rows \ Undeliverable) :
    (rows[r] # NoRow) ~> (rows[r].status = "sent")
=============================================================================
