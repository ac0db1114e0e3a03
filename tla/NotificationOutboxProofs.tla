----------------------- MODULE NotificationOutboxProofs -----------------------
(***************************************************************************)
(* Leases keep publications apart and no notification is lost, for any     *)
(* number of rows and workers and all durations that LoadFromEnv accepts.  *)
(*                                                                         *)
(* The argument: a worker whose window is open, as its own clock has it,   *)
(* holds a lease that outlasts the window, since its clock is less than    *)
(* the margin of one publisher timeout behind; and while a lease lasts no  *)
(* other worker claims the row.  A row is marked sent only by a worker     *)
(* that published it or found it obsolete, and what is obsolete stays so.  *)
(* The backoff never leaves the word, because the guard in front of the    *)
(* shift admits only products up to RetryMax.                              *)
(***************************************************************************)
EXTENDS NotificationOutbox, TLAPS

Steps == {"claimed", "current", "publishing", "done", "failed"}
Busy == [step : Steps, row : Rows, attempts : 1 .. MaxAttempts, window : 0 .. LeaseDuration]
RowType == [status : {"none", "pending", "processing", "failed", "sent"},
            token : Workers \cup {NoWorker}, left : Nat, attempts : 0 .. MaxAttempts]

(* The worker still means to publish.                                      *)
Open(x) == \/ x.step \in {"claimed", "current"} /\ x.window > 0
           \/ x.step = "publishing"

LeaseOutlastsWindow ==
  \A w \in Workers : Open(workers[w]) =>
    HoldsClaim(w) /\ rows[workers[w].row].left > workers[w].window

DoneForAReason ==
  \A w \in Workers : workers[w].step = "done" =>
    workers[w].row \in published \/ workers[w].row \in Invitations \ live

(* A worker knows how often the row it holds was tried.                    *)
Counted ==
  \A w \in Workers : workers[w] # Idle /\ HoldsClaim(w) =>
    rows[workers[w].row].attempts = workers[w].attempts

IInv == TypeOK /\ LeaseOutlastsWindow /\ DoneForAReason /\ Counted /\ NothingIsLost

Doubled(n) == Smaller(RetryBase * 2 ^ (n - 1), RetryMax)

SentStays == \A r \in Rows : rows[r].status = "sent" => rows'[r] = rows[r]
BacksOff == \A r \in Rows :
  rows[r].status = "processing" /\ rows'[r].status = "failed" =>
    rows'[r].left = Doubled(rows[r].attempts)
Lawful == SentStays /\ BacksOff

-----------------------------------------------------------------------------
LEMMA Durations ==
  /\ PublisherTimeout \in Nat \ {0} /\ LeaseDuration \in Nat /\ RetryBase \in Nat \ {0}
  /\ LeaseDuration - PublisherTimeout >= PublisherTimeout
  /\ \A lag \in Lags : lag \in Nat /\ lag < PublisherTimeout
  /\ MaxAttempts \in Nat \ {0}
<1>1. MaxAttempts \in Nat \ {0}
  BY WordAssumption, AttemptAssumption
<1> QED
  BY <1>1, DurationAssumption, LagAssumption

LEMMA BusyWorker ==
  ASSUME TypeOK, NEW w \in Workers, workers[w] # Idle
  PROVE  /\ workers[w] \in Busy /\ workers[w].row \in Rows
         /\ workers[w].step \in Steps /\ workers[w].window \in 0 .. LeaseDuration
         /\ workers[w].attempts \in 1 .. MaxAttempts
         /\ rows[workers[w].row].status # "none" /\ DOMAIN workers = Workers
<1>1. workers[w] \in Busy /\ DOMAIN workers = Workers
  BY DEF TypeOK, Busy, Steps
<1> QED
  BY <1>1 DEF TypeOK, Busy

LEMMA NoStepIsIdle ==
  ASSUME NEW x, x.step \in Steps
  PROVE  x # Idle
BY DEF Steps, Idle

(* A worker goes on and writes at most to published.                       *)
LEMMA WorkerStep ==
  ASSUME IInv, NEW w \in Workers, NEW x \in {Idle} \cup Busy,
         workers' = [workers EXCEPT ![w] = x],
         UNCHANGED rows, UNCHANGED live,
         published \subseteq published', published' \subseteq Rows \ Undeliverable,
         workers[w] # Idle,
         x # Idle => x.row = workers[w].row /\ x.attempts = workers[w].attempts,
         Open(x) => HoldsClaim(w) /\ rows[x.row].left > x.window,
         x.step = "done" => x.row \in published' \/ x.row \in Invitations \ live
  PROVE  IInv' /\ Lawful
<1>1. /\ workers'[w] = x /\ \A v \in Workers : v # w => workers'[v] = workers[v]
      /\ workers' \in [Workers -> {Idle} \cup Busy]
  BY DEF IInv, TypeOK, Busy, Steps
<1>2. rows[workers[w].row].status # "none"
  BY BusyWorker DEF IInv
<1>3. TypeOK'
  BY <1>1, <1>2 DEF IInv, TypeOK, Busy, Steps
<1>4. LeaseOutlastsWindow'
  <2> SUFFICES ASSUME NEW v \in Workers, Open(workers'[v])
               PROVE  HoldsClaim(v)' /\ rows'[workers'[v].row].left > workers'[v].window
    BY DEF LeaseOutlastsWindow
  <2>1. CASE v = w
    <3>1. x # Idle
      BY <1>1, <2>1 DEF Open, Idle
    <3> QED
      BY <1>1, <2>1, <3>1 DEF HoldsClaim
  <2>2. CASE v # w
    BY <1>1, <2>2 DEF IInv, LeaseOutlastsWindow, HoldsClaim
  <2> QED
    BY <2>1, <2>2
<1>5. DoneForAReason'
  BY <1>1 DEF IInv, DoneForAReason
<1>6. Counted'
  <2> SUFFICES ASSUME NEW v \in Workers, workers'[v] # Idle, HoldsClaim(v)'
               PROVE  rows'[workers'[v].row].attempts = workers'[v].attempts
    BY DEF Counted
  <2>1. /\ workers[v] # Idle /\ workers'[v].row = workers[v].row
        /\ workers'[v].attempts = workers[v].attempts
    BY <1>1
  <2> QED
    BY <2>1 DEF IInv, Counted, HoldsClaim
<1>7. NothingIsLost' /\ Lawful
  BY DEF IInv, NothingIsLost, Lawful, SentStays, BacksOff
<1> QED
  BY <1>3, <1>4, <1>5, <1>6, <1>7 DEF IInv

(* A worker writes a row for its claim, and is done with it.               *)
LEMMA RowStep ==
  ASSUME IInv, NEW w \in Workers, NEW r \in Rows, NEW row \in RowType,
         workers[w] # Idle, r = workers[w].row, HoldsClaim(w),
         rows' = [rows EXCEPT ![r] = row],
         workers' = [workers EXCEPT ![w] = Idle],
         row.status \in {"failed", "sent"}, row.token = NoWorker,
         row.status = "sent" =>
           row.left = 0 /\ (r \in published \/ r \in Invitations \ live),
         row.status = "failed" => row.left = Doubled(workers[w].attempts),
         UNCHANGED live, UNCHANGED published
  PROVE  IInv' /\ Lawful
<1>1. /\ workers'[w] = Idle /\ \A v \in Workers : v # w => workers'[v] = workers[v]
      /\ workers' \in [Workers -> {Idle} \cup Busy]
  BY DEF IInv, TypeOK, Busy, Steps
<1>2. /\ rows'[r] = row /\ \A q \in Rows : q # r => rows'[q] = rows[q]
      /\ rows' \in [Rows -> RowType]
  BY DEF IInv, TypeOK, RowType
<1>3. rows[r].status = "processing" /\ rows[r].token = w
  BY DEF HoldsClaim
<1>4. TypeOK'
  <2>1. \A q \in Rows : /\ rows'[q].token # NoWorker <=> rows'[q].status = "processing"
                        /\ rows'[q].status \in {"none", "pending", "sent"} => rows'[q].left = 0
                        /\ q \in live' => rows'[q].status # "none"
    BY <1>2 DEF IInv, TypeOK
  <2>2. \A v \in Workers : workers'[v] # Idle => rows'[workers'[v].row].status # "none"
    <3> SUFFICES ASSUME NEW v \in Workers, workers'[v] # Idle
                 PROVE  rows'[workers'[v].row].status # "none"
      OBVIOUS
    <3>1. v # w /\ workers'[v] = workers[v] /\ workers[v] # Idle
      BY <1>1
    <3>2. workers[v].row \in Rows /\ rows[workers[v].row].status # "none"
      BY <3>1, BusyWorker DEF IInv
    <3> QED
      BY <1>2, <3>1, <3>2
  <2>3. published' \subseteq Rows \ Undeliverable
    BY DEF IInv, TypeOK
  <2> QED
    BY <1>1, <1>2, <2>1, <2>2, <2>3 DEF TypeOK, RowType, Busy, Steps
<1>5. LeaseOutlastsWindow'
  <2> SUFFICES ASSUME NEW v \in Workers, Open(workers'[v])
               PROVE  HoldsClaim(v)' /\ rows'[workers'[v].row].left > workers'[v].window
    BY DEF LeaseOutlastsWindow
  <2>1. v # w /\ workers'[v] = workers[v] /\ workers[v] # Idle
    BY <1>1 DEF Open, Idle
  <2>2. /\ workers[v].row \in Rows /\ HoldsClaim(v)
        /\ rows[workers[v].row].left > workers[v].window
    BY <2>1, BusyWorker DEF IInv, LeaseOutlastsWindow
  <2>3. workers[v].row # r
    BY <1>3, <2>1, <2>2 DEF HoldsClaim
  <2> QED
    BY <1>2, <2>1, <2>2, <2>3 DEF HoldsClaim
<1>6. DoneForAReason'
  BY <1>1 DEF IInv, DoneForAReason, Idle
<1>7. NothingIsLost' /\ SentStays
  BY <1>2, <1>3 DEF IInv, NothingIsLost, SentStays
<1>8. BacksOff
  BY <1>2 DEF IInv, Counted, BacksOff
<1>9. Counted'
  <2> SUFFICES ASSUME NEW v \in Workers, workers'[v] # Idle, HoldsClaim(v)'
               PROVE  rows'[workers'[v].row].attempts = workers'[v].attempts
    BY DEF Counted
  <2>1. v # w /\ workers'[v] = workers[v] /\ workers[v] # Idle
    BY <1>1
  <2>2. workers[v].row \in Rows
    BY <2>1, BusyWorker DEF IInv
  <2>3. workers[v].row # r
    BY <1>2, <2>1 DEF HoldsClaim
  <2> QED
    BY <1>2, <2>1, <2>2, <2>3 DEF IInv, Counted, HoldsClaim
<1> QED
  BY <1>4, <1>5, <1>6, <1>7, <1>8, <1>9 DEF IInv, Lawful

-----------------------------------------------------------------------------
(***************************************************************************)
(* One lemma per action.                                                   *)
(***************************************************************************)
LEMMA LeavesStep ==
  ASSUME IInv, NEW w \in Workers, workers[w] # Idle, NEW s \in {"done", "failed"},
         Leaves(w, s), UNCHANGED rows, UNCHANGED live,
         published \subseteq published', published' \subseteq Rows \ Undeliverable,
         s = "done" => workers[w].row \in published'
                         \/ workers[w].row \in Invitations \ live
  PROVE  IInv' /\ Lawful
<1>1. s \in Steps /\ 0 \in 0 .. LeaseDuration
  BY Durations DEF Steps
<1> DEFINE x == [workers[w] EXCEPT !.step = s, !.window = 0]
<1>2. /\ workers' = [workers EXCEPT ![w] = x] /\ x \in Busy
      /\ x.step = s /\ x.window = 0 /\ x.row = workers[w].row
      /\ x.attempts = workers[w].attempts
  <2>1. workers[w] \in Busy /\ DOMAIN workers = Workers
    BY BusyWorker DEF IInv
  <2>2. /\ x \in Busy /\ x.step = s /\ x.window = 0 /\ x.row = workers[w].row
        /\ x.attempts = workers[w].attempts
    BY <1>1, <2>1 DEF Busy
  <2>3. workers' = [workers EXCEPT ![w] = x]
    BY <2>1 DEF Leaves
  <2> QED
    BY <2>2, <2>3
<1> HIDE DEF x
<1>3. ~Open(x)
  BY <1>2 DEF Open
<1> QED
  BY <1>2, <1>3, WorkerStep

LEMMA ClassifyStep ==
  ASSUME IInv, NEW w \in Workers, Classify(w)
  PROVE  IInv' /\ Lawful
<1>1. /\ workers[w] # Idle /\ workers[w].step = "claimed"
      /\ UNCHANGED rows /\ UNCHANGED live /\ UNCHANGED published
  BY DEF Classify, Idle
<1>2. published' \subseteq Rows \ Undeliverable
  BY <1>1 DEF IInv, TypeOK
<1>3. CASE Obsolete(workers[w].row)
  BY <1>1, <1>2, <1>3, LeavesStep DEF Classify, Obsolete
<1>4. CASE ~Obsolete(workers[w].row)
  <2>1. workers' = [workers EXCEPT ![w].step = "current"]
    BY <1>4 DEF Classify
  <2>2. workers[w] \in Busy /\ DOMAIN workers = Workers
    BY <1>1, BusyWorker DEF IInv
  <2> DEFINE x == [workers[w] EXCEPT !.step = "current"]
  <2>3. /\ x \in Busy /\ x.step = "current" /\ x.row = workers[w].row
        /\ x.window = workers[w].window
        /\ x.attempts = workers[w].attempts
    BY <2>2 DEF Busy, Steps
  <2>4. workers' = [workers EXCEPT ![w] = x]
    BY <2>1, <2>2
  <2> HIDE DEF x
  <2>5. Open(x) => HoldsClaim(w) /\ rows[x.row].left > x.window
    BY <1>1, <2>3 DEF Open, IInv, LeaseOutlastsWindow
  <2> QED
    BY <1>1, <1>2, <2>3, <2>4, <2>5, WorkerStep
<1> QED
  BY <1>3, <1>4

LEMMA BeginPublishStep ==
  ASSUME IInv, NEW w \in Workers, BeginPublish(w)
  PROVE  IInv' /\ Lawful
<1> DEFINE n == Window(w)
<1>1. /\ workers[w] # Idle /\ workers[w].step = "current" /\ n > 0
      /\ UNCHANGED rows /\ UNCHANGED live /\ UNCHANGED published
      /\ workers' = [workers EXCEPT ![w].step = "publishing", ![w].window = n]
  BY DEF BeginPublish, Idle
<1>2. workers[w].window \in 0 .. LeaseDuration /\ workers[w].row \in Rows
  BY <1>1, BusyWorker DEF IInv
<1>3. n \in 0 .. LeaseDuration /\ n <= workers[w].window /\ "publishing" \in Steps
  BY <1>2, Durations DEF Window, Steps
<1> HIDE DEF n
<1> DEFINE x == [workers[w] EXCEPT !.step = "publishing", !.window = n]
<1>4. /\ workers' = [workers EXCEPT ![w] = x] /\ x \in Busy
      /\ x.step = "publishing" /\ x.window = n /\ x.row = workers[w].row
      /\ x.attempts = workers[w].attempts
  <2>1. workers[w] \in Busy /\ DOMAIN workers = Workers
    BY <1>1, BusyWorker DEF IInv
  <2>2. /\ x \in Busy /\ x.step = "publishing" /\ x.window = n /\ x.row = workers[w].row
        /\ x.attempts = workers[w].attempts
    BY <1>3, <2>1 DEF Busy
  <2>3. workers' = [workers EXCEPT ![w] = x]
    BY <1>1, <2>1
  <2> QED
    BY <2>2, <2>3
<1> HIDE DEF x
<1>5. HoldsClaim(w) /\ rows[workers[w].row].left > workers[w].window
  <2>1. workers[w].window > 0
    BY <1>1, <1>2, <1>3, Durations
  <2> QED
    BY <1>1, <2>1 DEF Open, IInv, LeaseOutlastsWindow
<1>6. rows[workers[w].row].left \in Nat
  BY <1>2 DEF IInv, TypeOK
<1>7. rows[x.row].left > x.window
  BY <1>2, <1>3, <1>4, <1>5, <1>6
<1>8. published' \subseteq Rows \ Undeliverable
  BY <1>1 DEF IInv, TypeOK
<1> QED
  BY <1>1, <1>4, <1>5, <1>7, <1>8, WorkerStep

LEMMA PublicationStep ==
  ASSUME IInv, NEW w \in Workers, TooLate(w) \/ PublishSucceeds(w) \/ PublishFails(w)
  PROVE  IInv' /\ Lawful
<1>1. /\ workers[w] # Idle /\ UNCHANGED rows /\ UNCHANGED live
  BY DEF TooLate, PublishSucceeds, PublishFails, Idle
<1>2. workers[w].row \in Rows /\ published \subseteq Rows \ Undeliverable
  BY <1>1, BusyWorker DEF IInv, TypeOK
<1>3. published \subseteq published' /\ published' \subseteq Rows \ Undeliverable
  BY <1>2 DEF TooLate, PublishSucceeds, PublishFails
<1>4. CASE PublishSucceeds(w)
  <2>1. workers[w].row \in published' /\ Leaves(w, "done")
    BY <1>4 DEF PublishSucceeds
  <2> QED
    BY <1>1, <1>3, <2>1, LeavesStep
<1>5. CASE TooLate(w) \/ PublishFails(w)
  <2>1. Leaves(w, "failed")
    BY <1>5 DEF TooLate, PublishFails
  <2> QED
    BY <1>1, <1>3, <2>1, LeavesStep
<1> QED
  BY <1>4, <1>5

LEMMA AbandonStep ==
  ASSUME IInv, NEW w \in Workers, Abandon(w)
  PROVE  IInv' /\ Lawful
<1>1. /\ workers[w] # Idle /\ UNCHANGED rows /\ UNCHANGED live /\ UNCHANGED published
  BY DEF Abandon
<1>2. published' \subseteq Rows \ Undeliverable
  BY <1>1 DEF IInv, TypeOK
<1>3. CASE workers' = [workers EXCEPT ![w] = Idle]
  <2>1. ~Open(Idle) /\ Idle.step # "done"
    BY DEF Open, Idle
  <2> QED
    BY <1>1, <1>2, <1>3, <2>1, WorkerStep
<1>4. CASE Leaves(w, "failed")
  BY <1>1, <1>2, <1>4, LeavesStep
<1> QED
  BY <1>3, <1>4 DEF Abandon

(* A step that writes no row but one that nobody works on.                 *)
LEMMA ClaimStep ==
  ASSUME IInv, NEW w \in Workers, Claim(w)
  PROVE  IInv' /\ Lawful
<1>1. PICK r \in Rows, lag \in Lags :
        /\ NextClaim(r)
        /\ rows' = [rows EXCEPT ![r] =
             [status |-> "processing", token |-> w, left |-> LeaseDuration,
              attempts |-> IF @.attempts < MaxAttempts THEN @.attempts + 1
                                                       ELSE MaxAttempts]]
        /\ workers' = [workers EXCEPT ![w] =
             [step |-> "claimed", row |-> r, attempts |-> rows'[r].attempts,
              window |-> LeaseDuration - PublisherTimeout + lag]]
  BY DEF Claim
<1>2. /\ workers[w] = Idle /\ UNCHANGED live /\ UNCHANGED published
      /\ rows[r].left = 0 /\ rows[r].status \notin {"none", "sent"}
  BY <1>1 DEF Claim, NextClaim, Claimable
<1>3. rows[r] \in RowType /\ DOMAIN rows = Rows /\ DOMAIN workers = Workers
  BY DEF IInv, TypeOK, RowType
<1> DEFINE count == IF rows[r].attempts < MaxAttempts THEN rows[r].attempts + 1 ELSE MaxAttempts
           row == [status |-> "processing", token |-> w, left |-> LeaseDuration,
                   attempts |-> count]
           x == [step |-> "claimed", row |-> r, attempts |-> count,
                 window |-> LeaseDuration - PublisherTimeout + lag]
<1>4. count \in 1 .. MaxAttempts /\ count \in 0 .. MaxAttempts
  BY <1>3, Durations DEF RowType
<1>5. rows' = [rows EXCEPT ![r] = row]
  BY <1>1, <1>3
<1>6. rows'[r] = row /\ rows'[r].attempts = count
  BY <1>3, <1>5
<1>7. workers' = [workers EXCEPT ![w] = x]
  BY <1>1, <1>6
<1> HIDE DEF count
<1>8. /\ row \in RowType /\ row.status = "processing" /\ row.token = w
      /\ row.left = LeaseDuration /\ row.token # NoWorker
  BY <1>4, Durations, WorkerAssumption DEF RowType
<1>9. /\ x \in Busy /\ x.row = r /\ x.step = "claimed" /\ LeaseDuration > x.window
      /\ x.attempts = row.attempts
  BY <1>4, Durations DEF Busy, Steps
<1> HIDE DEF row, x
<1>10. /\ workers'[w] = x /\ \A v \in Workers : v # w => workers'[v] = workers[v]
       /\ workers' \in [Workers -> {Idle} \cup Busy]
  BY <1>7, <1>9 DEF IInv, TypeOK, Busy, Steps
<1>11. /\ \A q \in Rows : q # r => rows'[q] = rows[q]
       /\ rows' \in [Rows -> RowType]
  BY <1>5, <1>8 DEF IInv, TypeOK, RowType
<1>12. TypeOK'
  <2>1. \A q \in Rows : /\ rows'[q].token # NoWorker <=> rows'[q].status = "processing"
                        /\ rows'[q].status \in {"none", "pending", "sent"} => rows'[q].left = 0
                        /\ q \in live' => rows'[q].status # "none"
    BY <1>2, <1>6, <1>8, <1>11 DEF IInv, TypeOK
  <2>2. \A q \in Rows : rows[q].status # "none" => rows'[q].status # "none"
    BY <1>6, <1>8, <1>11
  <2>3. \A v \in Workers : workers'[v] # Idle => rows'[workers'[v].row].status # "none"
    <3> SUFFICES ASSUME NEW v \in Workers, workers'[v] # Idle
                 PROVE  rows'[workers'[v].row].status # "none"
      OBVIOUS
    <3>1. CASE v = w
      BY <1>6, <1>8, <1>9, <1>10, <3>1
    <3>2. CASE v # w
      <4>1. workers'[v] = workers[v] /\ workers[v].row \in Rows
              /\ rows[workers[v].row].status # "none"
        BY <1>10, <3>2, BusyWorker DEF IInv
      <4> QED
        BY <2>2, <4>1
    <3> QED
      BY <3>1, <3>2
  <2>4. published' \subseteq Rows \ Undeliverable
    BY <1>2 DEF IInv, TypeOK
  <2> QED
    BY <1>10, <1>11, <2>1, <2>3, <2>4 DEF TypeOK, RowType, Busy, Steps
<1>13. LeaseOutlastsWindow'
  <2> SUFFICES ASSUME NEW v \in Workers, Open(workers'[v])
               PROVE  HoldsClaim(v)' /\ rows'[workers'[v].row].left > workers'[v].window
    BY DEF LeaseOutlastsWindow
  <2>1. CASE v = w
    BY <1>6, <1>8, <1>9, <1>10, <2>1 DEF HoldsClaim
  <2>2. CASE v # w
    <3>1. workers'[v] = workers[v] /\ workers[v] # Idle
      BY <1>10, <2>2 DEF Open, Idle
    <3>2. /\ workers[v].row \in Rows /\ workers[v].window \in 0 .. LeaseDuration
          /\ HoldsClaim(v) /\ rows[workers[v].row].left > workers[v].window
      BY <3>1, BusyWorker DEF IInv, LeaseOutlastsWindow
    <3>3. workers[v].row # r
      BY <1>2, <3>2, Durations
    <3> QED
      BY <1>11, <3>1, <3>2, <3>3 DEF HoldsClaim
  <2> QED
    BY <2>1, <2>2
<1>14. DoneForAReason'
  BY <1>2, <1>9, <1>10 DEF IInv, DoneForAReason
<1>15. NothingIsLost' /\ Lawful
  BY <1>2, <1>6, <1>8, <1>11 DEF IInv, NothingIsLost, Lawful, SentStays, BacksOff
<1>16. Counted'
  <2> SUFFICES ASSUME NEW v \in Workers, workers'[v] # Idle, HoldsClaim(v)'
               PROVE  rows'[workers'[v].row].attempts = workers'[v].attempts
    BY DEF Counted
  <2>1. CASE v = w
    BY <1>6, <1>9, <1>10, <2>1
  <2>2. CASE v # w
    <3>1. workers'[v] = workers[v] /\ workers[v] # Idle
      BY <1>10, <2>2
    <3>2. workers[v].row \in Rows
      BY <3>1, BusyWorker DEF IInv
    <3>3. workers[v].row # r
      BY <1>6, <1>8, <2>2, <3>1 DEF HoldsClaim
    <3> QED
      BY <1>11, <3>1, <3>2, <3>3 DEF IInv, Counted, HoldsClaim
  <2> QED
    BY <2>1, <2>2
<1> QED
  BY <1>12, <1>13, <1>14, <1>15, <1>16 DEF IInv

LEMMA FinalizeStep ==
  ASSUME IInv, NEW w \in Workers, Finalize(w)
  PROVE  IInv' /\ Lawful
<1>1. /\ workers[w] # Idle /\ workers[w].step = "done"
      /\ UNCHANGED live /\ UNCHANGED published
      /\ workers' = [workers EXCEPT ![w] = Idle]
  BY DEF Finalize, Idle
<1>2. published' \subseteq Rows \ Undeliverable
  BY <1>1 DEF IInv, TypeOK
<1>3. CASE ~HoldsClaim(w)
  <2>1. ~Open(Idle) /\ Idle.step # "done" /\ UNCHANGED rows
    BY <1>3 DEF Open, Idle, Finalize
  <2> QED
    BY <1>1, <1>2, <2>1, WorkerStep
<1>4. CASE HoldsClaim(w)
  <2>1. PICK r : r = workers[w].row
    OBVIOUS
  <2>2. r \in Rows /\ rows[r] \in RowType /\ DOMAIN rows = Rows
    BY <1>1, <2>1, BusyWorker DEF IInv, TypeOK, RowType
  <2> DEFINE row == [rows[r] EXCEPT !.status = "sent", !.token = NoWorker, !.left = 0]
  <2>3. row \in RowType /\ row.status = "sent" /\ row.token = NoWorker /\ row.left = 0
    BY <2>2 DEF RowType
  <2>4. rows' = [rows EXCEPT ![r].status = "sent", ![r].token = NoWorker, ![r].left = 0]
    BY <1>4, <2>1 DEF Finalize
  <2>5. rows' = [rows EXCEPT ![r] = row]
    BY <2>2, <2>4
  <2> HIDE DEF row
  <2>6. r \in published \/ r \in Invitations \ live
    BY <1>1, <2>1 DEF IInv, DoneForAReason
  <2> QED
    BY <1>1, <1>4, <2>1, <2>2, <2>3, <2>5, <2>6, RowStep
<1> QED
  BY <1>3, <1>4

(* The words of exponentialBackoff hold what the arithmetic gives.         *)
LEMMA WordKeeps ==
  ASSUME NEW v \in Nat, v < 2 ^ (WordBits - 1)
  PROVE  Word(v) = v
<1>1. 2 ^ (WordBits - 1) \in Nat /\ 2 ^ WordBits \in Nat /\ v < 2 ^ WordBits
  BY WordAssumption, AttemptAssumption, PowerAssumption
<1>2. v % 2 ^ WordBits = v
  BY <1>1
<1> QED
  BY <1>1, <1>2 DEF Word

LEMMA BackoffDoubles ==
  ASSUME NEW n \in 1 .. MaxAttempts
  PROVE  Backoff(n) = Doubled(n) /\ Backoff(n) \in Nat
<1> DEFINE k == n - 1
           P == 2 ^ k
<1>1. /\ MaxAttempts \in Nat /\ WordBits \in Nat /\ WordBits > 1 /\ MaxAttempts >= WordBits
      /\ RetryBase \in Nat /\ RetryBase > 0 /\ RetryMax \in Nat /\ RetryBase <= RetryMax
      /\ RetryMax < 2 ^ (WordBits - 1) /\ 2 ^ (WordBits - 1) \in Nat
  BY WordAssumption, AttemptAssumption, PowerAssumption, DurationAssumption
<1>2. k \in 0 .. MaxAttempts /\ P \in Nat \ {0}
  BY <1>1, PowerAssumption
<1>3. Doubled(n) = Smaller(RetryBase * P, RetryMax)
  BY DEF Doubled
<1>4. CASE n = 1
  <2>1. P = 1
    BY <1>4, PowerAssumption
  <2>2. Backoff(n) = RetryBase
    BY <1>4 DEF Backoff
  <2> HIDE DEF P
  <2> QED
    BY <1>1, <1>3, <2>1, <2>2 DEF Smaller
<1>5. CASE n > 1 /\ k >= WordBits - 1
  <2>1. 2 ^ (WordBits - 1) <= P
    BY <1>1, <1>2, <1>5, PowerAssumption
  <2>2. RetryMax < P
    BY <1>1, <1>2, <2>1
  <2>3. P <= RetryBase * P
    BY <1>1, <1>2
  <2>4. RetryMax < RetryBase * P /\ RetryBase * P \in Nat
    BY <1>1, <1>2, <2>2, <2>3
  <2>5. Backoff(n) = RetryMax
    BY <1>1, <1>5 DEF Backoff
  <2> QED
    BY <1>1, <1>3, <2>4, <2>5 DEF Smaller
<1>6. CASE n > 1 /\ k < WordBits - 1
  <2>1. P < 2 ^ (WordBits - 1)
    BY <1>1, <1>2, <1>6, PowerAssumption
  <2>2. Word(P) = P
    BY <1>2, <2>1, WordKeeps
  <2>3. Smaller(k, WordBits - 2) = k
    BY <1>1, <1>2, <1>6 DEF Smaller
  <2>4. Backoff(n) = IF RetryBase > RetryMax \div P THEN RetryMax
                     ELSE Smaller(Word(RetryBase * P), RetryMax)
    BY <1>1, <1>6, <2>2, <2>3 DEF Backoff
  <2> HIDE DEF P, k
  <2>5. CASE RetryBase > RetryMax \div P
    <3>1. RetryBase * P > RetryMax /\ RetryBase * P \in Nat
      BY <1>1, <1>2, <2>5
    <3> QED
      BY <1>1, <1>3, <2>4, <2>5, <3>1 DEF Smaller
  <2>6. CASE ~ (RetryBase > RetryMax \div P)
    <3>1. RetryBase * P <= RetryMax /\ RetryBase * P \in Nat
      BY <1>1, <1>2, <2>6
    <3>2. Word(RetryBase * P) = RetryBase * P
      BY <1>1, <3>1, WordKeeps
    <3> QED
      BY <1>1, <1>3, <2>4, <2>6, <3>1, <3>2 DEF Smaller
  <2> QED
    BY <2>5, <2>6
<1> QED
  BY <1>1, <1>2, <1>4, <1>5, <1>6

LEMMA RetryStep ==
  ASSUME IInv, NEW w \in Workers, RetryNotification(w)
  PROVE  IInv' /\ Lawful
<1>1. /\ workers[w] # Idle /\ UNCHANGED live /\ UNCHANGED published
      /\ workers' = [workers EXCEPT ![w] = Idle]
  BY DEF RetryNotification, Idle
<1>2. published' \subseteq Rows \ Undeliverable
  BY <1>1 DEF IInv, TypeOK
<1>3. CASE ~HoldsClaim(w)
  <2>1. ~Open(Idle) /\ Idle.step # "done" /\ UNCHANGED rows
    BY <1>3 DEF Open, Idle, RetryNotification
  <2> QED
    BY <1>1, <1>2, <2>1, WorkerStep
<1>4. CASE HoldsClaim(w)
  <2>1. PICK r, n : r = workers[w].row /\ n = workers[w].attempts
    OBVIOUS
  <2>2. /\ r \in Rows /\ rows[r] \in RowType /\ DOMAIN rows = Rows
        /\ n \in 1 .. MaxAttempts
    BY <1>1, <2>1, BusyWorker DEF IInv, TypeOK, RowType
  <2> DEFINE d == Backoff(n)
  <2>3. d = Doubled(n) /\ d \in Nat
    BY <2>2, BackoffDoubles
  <2>4. rows' = [rows EXCEPT ![r].status = "failed", ![r].token = NoWorker, ![r].left = d]
    BY <1>4, <2>1 DEF RetryNotification, Rescheduled
  <2> HIDE DEF d
  <2> DEFINE row == [rows[r] EXCEPT !.status = "failed", !.token = NoWorker, !.left = d]
  <2>5. row \in RowType /\ row.status = "failed" /\ row.token = NoWorker /\ row.left = d
    BY <2>2, <2>3 DEF RowType
  <2>6. rows' = [rows EXCEPT ![r] = row]
    BY <2>2, <2>4
  <2> HIDE DEF row
  <2>7. row.left = Doubled(workers[w].attempts)
    BY <2>1, <2>3, <2>5
  <2> QED
    BY <1>1, <1>4, <2>1, <2>2, <2>5, <2>6, <2>7, RowStep
<1> QED
  BY <1>3, <1>4

LEMMA EnqueueStep ==
  ASSUME IInv, NEW r \in Rows, Enqueue(r)
  PROVE  IInv' /\ Lawful
<1>1. /\ rows[r] = NoRow /\ UNCHANGED published /\ UNCHANGED workers
      /\ rows' = [rows EXCEPT ![r].status = "pending"]
      /\ live' = live \cup ({r} \cap Invitations)
  BY DEF Enqueue
<1>2. /\ rows[r].status = "none" /\ rows[r].left = 0 /\ rows[r].token = NoWorker
      /\ rows[r] \in RowType /\ DOMAIN rows = Rows
  BY <1>1 DEF NoRow, IInv, TypeOK, RowType
<1> DEFINE row == [rows[r] EXCEPT !.status = "pending"]
<1>3. row \in RowType /\ row.status = "pending" /\ row.left = 0 /\ row.token = NoWorker
  BY <1>2 DEF RowType
<1>4. rows' = [rows EXCEPT ![r] = row]
  BY <1>1, <1>2
<1> HIDE DEF row
<1>5. /\ rows'[r] = row /\ \A q \in Rows : q # r => rows'[q] = rows[q]
      /\ rows' \in [Rows -> RowType]
  BY <1>2, <1>3, <1>4 DEF IInv, TypeOK, RowType
<1>6. \A w \in Workers : workers[w] # Idle => workers[w].row \in Rows /\ workers[w].row # r
  BY <1>2, BusyWorker DEF IInv
<1>7. TypeOK'
  <2>1. \A q \in Rows : /\ rows'[q].token # NoWorker <=> rows'[q].status = "processing"
                        /\ rows'[q].status \in {"none", "pending", "sent"} => rows'[q].left = 0
                        /\ q \in live' => rows'[q].status # "none"
    BY <1>1, <1>2, <1>3, <1>5 DEF IInv, TypeOK
  <2>2. \A w \in Workers : workers'[w] # Idle => rows'[workers'[w].row].status # "none"
    BY <1>1, <1>5, <1>6, BusyWorker DEF IInv
  <2>3. published' \subseteq Rows \ Undeliverable
    BY <1>1 DEF IInv, TypeOK
  <2> QED
    BY <1>1, <1>5, <2>1, <2>2, <2>3 DEF IInv, TypeOK, RowType
<1>8. LeaseOutlastsWindow'
  BY <1>1, <1>5, <1>6 DEF IInv, LeaseOutlastsWindow, HoldsClaim, Open, Idle
<1>9. DoneForAReason'
  <2> SUFFICES ASSUME NEW w \in Workers, workers'[w].step = "done"
               PROVE  workers'[w].row \in published' \/ workers'[w].row \in Invitations \ live'
    BY DEF DoneForAReason
  <2>1. workers[w] # Idle
    BY <1>1 DEF Idle
  <2> QED
    BY <1>1, <1>6, <2>1 DEF IInv, DoneForAReason
<1>10. Counted'
  BY <1>1, <1>5, <1>6 DEF IInv, Counted, HoldsClaim
<1>11. NothingIsLost' /\ Lawful
  BY <1>1, <1>2, <1>3, <1>5 DEF IInv, NothingIsLost, Lawful, SentStays, BacksOff
<1> QED
  BY <1>7, <1>8, <1>9, <1>10, <1>11 DEF IInv

LEMMA LapseStep ==
  ASSUME IInv, NEW r \in Rows, Lapse(r)
  PROVE  IInv' /\ Lawful
<1>1. /\ live' = live \ {r} /\ UNCHANGED rows
      /\ UNCHANGED published /\ UNCHANGED workers
  BY DEF Lapse
<1>2. TypeOK'
  BY <1>1 DEF IInv, TypeOK
<1>3. LeaseOutlastsWindow' /\ Counted'
  BY <1>1 DEF IInv, LeaseOutlastsWindow, Counted, HoldsClaim
<1>4. DoneForAReason'
  BY <1>1 DEF IInv, DoneForAReason
<1>5. NothingIsLost' /\ Lawful
  BY <1>1 DEF IInv, NothingIsLost, Lawful, SentStays, BacksOff
<1> QED
  BY <1>2, <1>3, <1>4, <1>5 DEF IInv

LEMMA TickStep ==
  ASSUME IInv, Tick
  PROVE  IInv' /\ Lawful
<1>1. /\ UNCHANGED published /\ UNCHANGED live
      /\ rows' = [r \in Rows |-> [rows[r] EXCEPT !.left = Sooner(@)]]
      /\ \A w \in Workers : workers[w].step = "publishing" => workers[w].window > 0
  BY DEF Tick
<1>2. ASSUME NEW r \in Rows
      PROVE  /\ rows'[r] \in RowType /\ rows'[r].status = rows[r].status
             /\ rows'[r].token = rows[r].token /\ rows'[r].attempts = rows[r].attempts
             /\ rows[r].left \in Nat /\ rows'[r].left = Sooner(rows[r].left)
             /\ rows[r].left = 0 => rows'[r] = rows[r]
  <2> DEFINE n == Sooner(rows[r].left)
  <2>1. rows[r] \in RowType
    BY DEF IInv, TypeOK, RowType
  <2>2. rows'[r] = [rows[r] EXCEPT !.left = n]
    BY <1>1
  <2>3. n \in Nat /\ (rows[r].left = 0 => n = rows[r].left)
    BY <2>1 DEF RowType, Sooner
  <2> HIDE DEF n
  <2>4. /\ rows'[r] \in RowType /\ rows'[r].status = rows[r].status
        /\ rows'[r].token = rows[r].token /\ rows'[r].attempts = rows[r].attempts
        /\ rows[r].left \in Nat /\ rows'[r].left = n
    BY <2>1, <2>2, <2>3 DEF RowType
  <2>5. rows[r].left = 0 => rows'[r] = rows[r]
    BY <2>1, <2>2, <2>3 DEF RowType
  <2> QED
    BY <2>4, <2>5 DEF n
<1>3. \A w \in Workers : workers[w] = Idle => workers'[w] = Idle
  BY DEF Tick
<1>4. ASSUME NEW w \in Workers, workers[w] # Idle
      PROVE  /\ workers'[w] \in Busy /\ workers'[w].step = workers[w].step
             /\ workers'[w].row = workers[w].row /\ workers[w].row \in Rows
             /\ workers'[w].attempts = workers[w].attempts
             /\ workers[w].window \in Nat /\ workers'[w].window = Sooner(workers[w].window)
  <2> DEFINE n == Sooner(workers[w].window)
  <2>1. workers[w] \in Busy
    BY <1>4, BusyWorker DEF IInv
  <2>2. workers'[w] = [workers[w] EXCEPT !.window = n]
    BY <1>4 DEF Tick
  <2>3. n \in 0 .. LeaseDuration
    BY <2>1, Durations DEF Busy, Sooner
  <2> HIDE DEF n
  <2>4. /\ workers'[w] \in Busy /\ workers'[w].step = workers[w].step
        /\ workers'[w].row = workers[w].row /\ workers[w].row \in Rows
        /\ workers'[w].attempts = workers[w].attempts
        /\ workers[w].window \in Nat /\ workers'[w].window = n
    BY <2>1, <2>2, <2>3, Durations DEF Busy
  <2> QED
    BY <2>4 DEF n
<1>5. TypeOK'
  <2>1. rows' \in [Rows -> RowType]
    <3>1. rows' = [r \in Rows |-> rows'[r]]
      BY <1>1
    <3> QED
      BY <1>2, <3>1
  <2>2. workers' \in [Workers -> {Idle} \cup Busy]
    <3>1. workers' = [w \in Workers |-> workers'[w]]
      BY DEF Tick
    <3> QED
      BY <1>3, <1>4, <3>1
  <2>3. \A r \in Rows : /\ rows'[r].token # NoWorker <=> rows'[r].status = "processing"
                        /\ rows'[r].status \in {"none", "pending", "sent"} => rows'[r].left = 0
                        /\ r \in live' => rows'[r].status # "none"
    BY <1>1, <1>2 DEF IInv, TypeOK
  <2>4. \A w \in Workers : workers'[w] # Idle => rows'[workers'[w].row].status # "none"
    BY <1>2, <1>3, <1>4, BusyWorker DEF IInv
  <2>5. published' \subseteq Rows \ Undeliverable
    BY <1>1 DEF IInv, TypeOK
  <2> QED
    BY <2>1, <2>2, <2>3, <2>4, <2>5 DEF TypeOK, RowType, Busy, Steps
<1>6. LeaseOutlastsWindow'
  <2> SUFFICES ASSUME NEW w \in Workers, Open(workers'[w])
               PROVE  HoldsClaim(w)' /\ rows'[workers'[w].row].left > workers'[w].window
    BY DEF LeaseOutlastsWindow
  <2>1. workers[w] # Idle
    BY <1>3 DEF Open, Idle
  <2>2. Open(workers[w]) /\ workers[w].window > 0
    BY <1>1, <1>4, <2>1 DEF Open, Sooner
  <2>3. HoldsClaim(w) /\ rows[workers[w].row].left > workers[w].window
    BY <2>2 DEF IInv, LeaseOutlastsWindow
  <2>4. HoldsClaim(w)'
    BY <1>2, <1>4, <2>1, <2>3 DEF HoldsClaim
  <2> QED
    BY <1>2, <1>4, <2>1, <2>2, <2>3, <2>4 DEF Sooner
<1>7. DoneForAReason'
  BY <1>1, <1>3, <1>4 DEF IInv, DoneForAReason, Idle
<1>8. Counted'
  BY <1>2, <1>3, <1>4 DEF IInv, Counted, HoldsClaim
<1>9. NothingIsLost' /\ Lawful
  BY <1>1, <1>2 DEF IInv, TypeOK, NothingIsLost, Lawful, SentStays, BacksOff
<1> QED
  BY <1>5, <1>6, <1>7, <1>8, <1>9 DEF IInv

LEMMA InitIInv == Init => IInv
<1> SUFFICES ASSUME Init PROVE IInv
  OBVIOUS
<1>1. NoRow \in RowType
  BY Durations DEF NoRow, RowType
<1>2. \A r \in Rows : rows[r] = NoRow
  BY DEF Init
<1>3. \A w \in Workers : workers[w] = Idle /\ ~Open(workers[w])
  BY DEF Init, Open, Idle
<1>4. TypeOK
  BY <1>1, <1>2, <1>3, WorkerAssumption DEF Init, TypeOK, RowType, NoRow
<1> QED
  BY <1>2, <1>3, <1>4
  DEF IInv, LeaseOutlastsWindow, DoneForAReason, Counted, NothingIsLost, NoRow, Idle

LEMMA StutterStep == IInv /\ UNCHANGED vars => IInv' /\ Lawful
BY DEF vars, IInv, TypeOK, LeaseOutlastsWindow, DoneForAReason, Counted, NothingIsLost,
       HoldsClaim, Open, Lawful, SentStays, BacksOff

LEMMA NextStep == IInv /\ [Next]_vars => IInv' /\ Lawful
<1> SUFFICES ASSUME IInv, [Next]_vars PROVE IInv' /\ Lawful
  OBVIOUS
<1>1. ASSUME NEW w \in Workers, Work(w) PROVE IInv' /\ Lawful
  BY <1>1, ClaimStep, ClassifyStep, BeginPublishStep, PublicationStep, FinalizeStep,
     RetryStep DEF Work
<1> QED
  BY <1>1, AbandonStep, EnqueueStep, LapseStep, TickStep, StutterStep DEF Next

-----------------------------------------------------------------------------
THEOREM InvariantHolds == Spec => []IInv
<1>1. Init => IInv
  BY InitIInv
<1>2. IInv /\ [Next]_vars => IInv'
  BY NextStep
<1> QED
  BY <1>1, <1>2, PTL DEF Spec

(* The CHECK constraints of notification_outbox hold of every row, and a   *)
(* worker only works on rows that were added.                              *)
THEOREM TypeCorrect == Spec => []TypeOK
<1>1. IInv => TypeOK
  BY DEF IInv
<1> QED
  BY <1>1, InvariantHolds, PTL

(* deliverNotification publishes only while its claim is the row's claim:  *)
(* two workers never publish one row at the same time.                     *)
THEOREM PublishersHoldTheirLease == Spec => []PublisherHoldsLease
<1>1. IInv => PublisherHoldsLease
  <2> SUFFICES ASSUME IInv, NEW w \in Workers, Publishing(w)
               PROVE  HoldsClaim(w) /\ rows[workers[w].row].left > 0
    BY DEF PublisherHoldsLease
  <2>1. workers[w] # Idle
    BY DEF Publishing, Idle
  <2>2. workers[w].window \in 0 .. LeaseDuration /\ workers[w].row \in Rows
    BY <2>1, BusyWorker DEF IInv
  <2>3. HoldsClaim(w) /\ rows[workers[w].row].left > workers[w].window
    BY DEF IInv, LeaseOutlastsWindow, Open, Publishing
  <2>4. rows[workers[w].row].left \in Nat
    BY <2>2 DEF IInv, TypeOK
  <2> QED
    BY <2>2, <2>3, <2>4, Durations
<1> QED
  BY <1>1, InvariantHolds, PTL

(* What MarkNotificationSent concludes was accepted by a publisher; what   *)
(* MarkNotificationObsolete concludes was an invitation of no use.         *)
THEOREM NoNotificationLost == Spec => []NothingIsLost
<1>1. IInv => NothingIsLost
  BY DEF IInv
<1> QED
  BY <1>1, InvariantHolds, PTL

(* The token and generation in every UPDATE keep a late worker from        *)
(* writing to a row that was concluded.                                    *)
THEOREM SentNeverChanges == Spec => SentIsFinal
<1>1. IInv /\ [Next]_vars =>
        [\A r \in Rows : rows[r].status = "sent" => rows'[r] = rows[r]]_vars
  BY NextStep DEF Lawful, SentStays
<1> QED
  BY <1>1, InvariantHolds, PTL DEF Spec, SentIsFinal

(* exponentialBackoff doubles up to RetryMax without ever leaving the      *)
(* word, for every word size, base, maximum and attempt count.             *)
THEOREM BackoffIsExact == Spec => RetriesBackOff
<1>1. IInv /\ [Next]_vars =>
        [\A r \in Rows :
           rows[r].status = "processing" /\ rows'[r].status = "failed" =>
             rows'[r].left = Smaller(RetryBase * 2 ^ (rows[r].attempts - 1), RetryMax)]_vars
  BY NextStep DEF Lawful, BacksOff, Doubled
<1> QED
  BY <1>1, InvariantHolds, PTL DEF Spec, RetriesBackOff
=============================================================================
