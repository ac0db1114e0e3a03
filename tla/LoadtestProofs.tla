--------------------------- MODULE LoadtestProofs ---------------------------
(***************************************************************************)
(* Proofs about the load test: LoadtestRunner, for any runs and faults,    *)
(* and LoadtestScenario, for any users, products, plans and stocks.        *)
(***************************************************************************)
EXTENDS LoadtestRunner, LoadtestScenario, QueueTransactionProofs

-----------------------------------------------------------------------------
(***************************************************************************)
(* The runner.                                                             *)
(***************************************************************************)

Steps == {"none", "started", "cleaning", "removing", "deleting", "seeding", "seeded",
          "running", "verifying", "reporting", "preserving", "finishing", "ended"}
Results == {"none", "completed", "failed"}
Statuses == {"idle", "starting", "cleaning", "seeding", "running",
             "verifying", "completed", "failed"}

Shape ==
  /\ state \in [run : Runs \cup {NoRun}, status : Statuses, keep : BOOLEAN,
                seed : {"pending", "running", "pass", "fail"},
                verifier : {"pending", "running", "pass", "fail"}]
  /\ jobs \in [Runs -> [step : Steps, keep : BOOLEAN, victim : Runs \cup {NoRun},
                        result : Results]]
  /\ rows \in [Runs -> [status : {"none", "seeded", "completed", "failed"}, keep : BOOLEAN]]
  /\ files \subseteq Runs

(* A run that is about to finish knows its result.                         *)
HasResult(r) == jobs[r].step \in {"reporting", "preserving", "finishing"}
                  => jobs[r].result # "none"

(* A run that has not been seeded has left nothing.                        *)
Fresh(r) == jobs[r].step \in {"none", "started", "cleaning", "removing", "deleting"}
              => rows[r] = NoRow /\ r \notin files

(* What a run was asked to keep is marked so, and only data that nobody    *)
(* asked to keep is on its way to be deleted, whatever became of its row.  *)
Marked(r) == rows[r] # NoRow /\ jobs[r].keep => rows[r].keep
Doomed(r) == jobs[r].step \in {"removing", "deleting"} =>
               /\ jobs[r].victim \in Runs
               /\ jobs[jobs[r].victim].step # "none"
               /\ ~jobs[jobs[r].victim].keep

IInv == /\ Shape /\ RunnerIsNeverStuck
        /\ \A r \in Runs : HasResult(r) /\ Fresh(r) /\ Marked(r) /\ Doomed(r)

(* The invariant includes the type invariant.                              *)
LEMMA Typed == IInv => TypeOK
  BY DEF IInv, Shape, TypeOK, Fresh, Doomed, At, Statuses, Results

(* The runner starts idle.                                                 *)
LEMMA Initially == RunnerInit => IInv
  BY RunAssumption DEF RunnerInit, IInv, Shape, Steps, Results, Statuses, RunnerIsNeverStuck,
     HasResult, Fresh, Marked, Doomed, IdleState, NoJob, NoRow, IsActive, Executing

(***************************************************************************)
(* Writing one job.                                                        *)
(***************************************************************************)
OneJob(r, step, result) ==
  /\ jobs' \in [Runs -> [step : Steps, keep : BOOLEAN, victim : Runs \cup {NoRun},
                         result : Results]]
  /\ \A q \in Runs \ {r} : jobs'[q] = jobs[q]
  /\ jobs'[r].step = step /\ jobs'[r].result = result
  /\ jobs'[r].keep = jobs[r].keep /\ jobs'[r].victim = jobs[r].victim

LEMMA GoesWrites ==
  ASSUME Shape, NEW r \in Runs, NEW step \in Steps, Goes(r, step)
  PROVE  OneJob(r, step, jobs[r].result)
BY DEF Shape, Goes, OneJob

LEMMA EndsWrites ==
  ASSUME Shape, NEW r \in Runs, NEW step \in Steps, NEW result \in Results,
         Ends(r, step, result)
  PROVE  OneJob(r, step, result)
BY DEF Shape, Ends, OneJob

(* A step of run r that touches the rows of others only to delete them     *)
(* preserves the invariant if r itself is left as it should be.            *)
LEMMA JobStep ==
  ASSUME IInv, Shape', NEW r \in Runs,
         \A q \in Runs \ {r} : jobs'[q] = jobs[q],
         jobs'[r].step # "none",
         jobs[r].step = "none" \/ jobs'[r].keep = jobs[r].keep,
         jobs'[r].step = "ended" => ~IsActive(state'.status),
         \A q \in Runs \ {r} : rows'[q] \in {rows[q], NoRow},
         files' \subseteq files \cup {r},
         HasResult(r)', Fresh(r)', Marked(r)',
         jobs'[r].step \in {"removing", "deleting"} =>
           /\ jobs'[r].victim \in Runs
           /\ jobs[jobs'[r].victim].step # "none"
           /\ ~jobs[jobs'[r].victim].keep
  PROVE  IInv'
<1>1. RunnerIsNeverStuck'
  <2>1. CASE jobs'[r].step = "ended"
    BY <2>1 DEF RunnerIsNeverStuck, IsActive
  <2>2. CASE jobs'[r].step # "ended"
    BY <2>2 DEF RunnerIsNeverStuck, Executing
  <2> QED
    BY <2>1, <2>2
<1>2. ASSUME NEW q \in Runs PROVE HasResult(q)' /\ Fresh(q)' /\ Marked(q)'
  <2>1. CASE q = r
    BY <2>1
  <2>2. CASE q # r
    <3>1. /\ HasResult(q) /\ Fresh(q) /\ Marked(q)
          /\ jobs'[q] = jobs[q] /\ rows'[q] \in {rows[q], NoRow}
          /\ q \in files' => q \in files
      BY <2>2 DEF IInv
    <3> QED
      BY <3>1 DEF HasResult, Fresh, Marked
  <2> QED
    BY <2>1, <2>2
<1>3. ASSUME NEW q \in Runs PROVE Doomed(q)'
  <2> SUFFICES ASSUME jobs'[q].step \in {"removing", "deleting"}
               PROVE  /\ jobs'[q].victim \in Runs
                      /\ jobs'[jobs'[q].victim].step # "none"
                      /\ ~jobs'[jobs'[q].victim].keep
    BY DEF Doomed
  <2> DEFINE v == jobs'[q].victim
  <2>1. v \in Runs /\ jobs[v].step # "none" /\ ~jobs[v].keep
    <3>1. CASE q = r
      BY <3>1
    <3>2. CASE q # r
      BY <3>2 DEF IInv, Doomed
    <3> QED
      BY <3>1, <3>2
  <2>2. jobs'[v].step # "none" /\ ~jobs'[v].keep
    <3>1. CASE v = r
      BY <2>1, <3>1
    <3>2. CASE v # r
      BY <2>1, <3>2
    <3> QED
      BY <3>1, <3>2
  <2> QED
    BY <2>1, <2>2
<1> QED
  BY <1>1, <1>2, <1>3 DEF IInv

(* Every step of the runner preserves the invariant.                       *)
LEMMA Inductive == IInv /\ [RunnerNext]_runnerVars => IInv'
<1> SUFFICES ASSUME IInv, [RunnerNext]_runnerVars PROVE IInv'
  OBVIOUS
<1>1. ASSUME NEW r \in Runs, Begin(r) PROVE IInv'
  <2>1. OneJob(r, "cleaning", jobs[r].result)
    BY <1>1, GoesWrites DEF Begin, IInv, Steps, Results
  <2>2. Shape'
    BY <1>1, <2>1 DEF OneJob, Begin, IInv, Shape, Statuses
  <2> QED
    BY <1>1, <2>1, <2>2, JobStep
    DEF OneJob, Begin, IInv, Shape, HasResult, Fresh, Marked, Doomed, At, NoRow
<1>2. ASSUME NEW r \in Runs, RemoveDirectories(r) PROVE IInv'
  <2>1. OneJob(r, "deleting", jobs[r].result)
    BY <1>2, GoesWrites DEF RemoveDirectories, IInv, Steps, Results
  <2>2. Shape'
    BY <1>2, <2>1 DEF OneJob, RemoveDirectories, IInv, Shape, Statuses
  <2> QED
    BY <1>2, <2>1, <2>2, JobStep
    DEF OneJob, RemoveDirectories, IInv, Shape, HasResult, Fresh, Marked, Doomed, At, NoRow
<1>3. ASSUME NEW r \in Runs, FailCleanup(r) PROVE IInv'
  <2>1. OneJob(r, "finishing", "failed")
    BY <1>3, EndsWrites DEF FailCleanup, IInv, Steps, Results
  <2>2. Shape'
    BY <1>3, <2>1 DEF OneJob, FailCleanup, IInv, Shape, Statuses
  <2> QED
    BY <1>3, <2>1, <2>2, JobStep
    DEF OneJob, FailCleanup, IInv, Shape, HasResult, Fresh, Marked, Doomed, At, NoRow
<1>4. ASSUME NEW r \in Runs, Seed(r) PROVE IInv'
  <2>1. OneJob(r, "seeded", jobs[r].result)
    BY <1>4, GoesWrites DEF Seed, IInv, Steps, Results
  <2>2. Shape'
    BY <1>4, <2>1 DEF OneJob, Seed, IInv, Shape, Statuses
  <2> QED
    BY <1>4, <2>1, <2>2, JobStep
    DEF OneJob, Seed, IInv, Shape, HasResult, Fresh, Marked, Doomed, At, NoRow
<1>5. ASSUME NEW r \in Runs, WriteData(r) PROVE IInv'
  <2>1. OneJob(r, "running", jobs[r].result)
    BY <1>5, GoesWrites DEF WriteData, IInv, Steps, Results
  <2>2. Shape'
    BY <1>5, <2>1 DEF OneJob, WriteData, IInv, Shape, Statuses
  <2> QED
    BY <1>5, <2>1, <2>2, JobStep
    DEF OneJob, WriteData, IInv, Shape, HasResult, Fresh, Marked, Doomed, At, NoRow
<1>6. ASSUME NEW r \in Runs, FailSeed(r) PROVE IInv'
  <2>1. OneJob(r, "preserving", "failed")
    BY <1>6, EndsWrites DEF FailSeed, IInv, Steps, Results
  <2>2. Shape'
    BY <1>6, <2>1 DEF OneJob, FailSeed, IInv, Shape, Statuses
  <2> QED
    BY <1>6, <2>1, <2>2, JobStep
    DEF OneJob, FailSeed, IInv, Shape, HasResult, Fresh, Marked, Doomed, At, NoRow
<1>7. ASSUME NEW r \in Runs, RunK6(r) PROVE IInv'
  <2>1. OneJob(r, "verifying", jobs[r].result)
    BY <1>7, GoesWrites DEF RunK6, IInv, Steps, Results
  <2>2. Shape'
    BY <1>7, <2>1 DEF OneJob, RunK6, IInv, Shape, Statuses
  <2> QED
    BY <1>7, <2>1, <2>2, JobStep
    DEF OneJob, RunK6, IInv, Shape, HasResult, Fresh, Marked, Doomed, At, NoRow
<1>8. ASSUME NEW r \in Runs, FailK6(r) PROVE IInv'
  <2>1. OneJob(r, "preserving", "failed")
    BY <1>8, EndsWrites DEF FailK6, IInv, Steps, Results
  <2>2. Shape'
    BY <1>8, <2>1 DEF OneJob, FailK6, IInv, Shape, Statuses
  <2> QED
    BY <1>8, <2>1, <2>2, JobStep
    DEF OneJob, FailK6, IInv, Shape, HasResult, Fresh, Marked, Doomed, At, NoRow
<1>9. ASSUME NEW r \in Runs, NEW passed \in BOOLEAN, PersistOutcome(r, passed) PROVE IInv'
  <2>1. OneJob(r, "reporting", VerdictOf(passed))
    BY <1>9, EndsWrites DEF PersistOutcome, IInv, Steps, Results, VerdictOf
  <2>2. rows' = [rows EXCEPT ![r] = [rows[r] EXCEPT !.status = VerdictOf(passed)]]
    BY <1>9 DEF PersistOutcome
  <2>3. /\ rows' \in [Runs -> [status : {"none", "seeded", "completed", "failed"}, keep : BOOLEAN]]
        /\ rows'[r].keep = rows[r].keep
        /\ \A q \in Runs \ {r} : rows'[q] = rows[q]
    <3>1. [rows[r] EXCEPT !.status = VerdictOf(passed)]
            \in [status : {"none", "seeded", "completed", "failed"}, keep : BOOLEAN]
      BY DEF IInv, Shape, VerdictOf
    <3>2. [rows[r] EXCEPT !.status = VerdictOf(passed)].keep = rows[r].keep
      BY DEF IInv, Shape
    <3> QED
      BY <2>2, <3>1, <3>2 DEF IInv, Shape
  <2>4. Shape'
    BY <1>9, <2>1, <2>3 DEF OneJob, PersistOutcome, IInv, Shape
  <2> QED
    BY <1>9, <2>1, <2>3, <2>4, JobStep
    DEF OneJob, PersistOutcome, IInv, Shape, HasResult, Fresh, Marked, Doomed, At, NoRow, VerdictOf
<1>10. ASSUME NEW r \in Runs, ReportPass(r) PROVE IInv'
  <2>1. OneJob(r, "finishing", jobs[r].result)
    BY <1>10, GoesWrites DEF ReportPass, IInv, Steps, Results
  <2>2. Shape'
    BY <1>10, <2>1 DEF OneJob, ReportPass, IInv, Shape, Statuses
  <2> QED
    BY <1>10, <2>1, <2>2, JobStep
    DEF OneJob, ReportPass, IInv, Shape, HasResult, Fresh, Marked, Doomed, At, NoRow
<1>11. ASSUME NEW r \in Runs, FailVerify(r) PROVE IInv'
  <2>1. OneJob(r, "preserving", "failed")
    BY <1>11, EndsWrites DEF FailVerify, IInv, Steps, Results
  <2>2. Shape'
    BY <1>11, <2>1 DEF OneJob, FailVerify, IInv, Shape, Statuses
  <2> QED
    BY <1>11, <2>1, <2>2, JobStep
    DEF OneJob, FailVerify, IInv, Shape, HasResult, Fresh, Marked, Doomed, At, NoRow
<1>12. ASSUME NEW r \in Runs, PreserveFailure(r) PROVE IInv'
  <2>1. OneJob(r, "finishing", jobs[r].result)
    BY <1>12, GoesWrites DEF PreserveFailure, IInv, Steps, Results, Preserved
  <2>2. Shape'
    <3>1. [status |-> "failed", keep |-> TRUE]
            \in [status : {"none", "seeded", "completed", "failed"}, keep : BOOLEAN]
      OBVIOUS
    <3>2. rows' \in [Runs -> [status : {"none", "seeded", "completed", "failed"}, keep : BOOLEAN]]
      BY <1>12, <3>1 DEF PreserveFailure, Preserved, IInv, Shape
    <3> QED
      BY <1>12, <2>1, <3>2 DEF OneJob, PreserveFailure, IInv, Shape, Statuses
  <2>3. HasResult(r)'
    BY <1>12, <2>1 DEF OneJob, PreserveFailure, IInv, HasResult, At
  <2>4. /\ \A q \in Runs \ {r} : rows'[q] = rows[q]
        /\ Marked(r)'
    <3>1. CASE rows' = rows
      BY <3>1, <2>1 DEF OneJob, IInv, Marked
    <3>2. CASE rows' = [rows EXCEPT ![r] = [status |-> "failed", keep |-> TRUE]]
      BY <3>2 DEF IInv, Shape, Marked
    <3> QED
      BY <1>12, <3>1, <3>2 DEF PreserveFailure, Preserved
  <2> QED
    BY <1>12, <2>1, <2>2, <2>3, <2>4, JobStep
    DEF OneJob, PreserveFailure, IInv, Fresh, At
<1>13. ASSUME NEW r \in Runs, Finish(r) PROVE IInv'
  <2>1. OneJob(r, "ended", jobs[r].result)
    BY <1>13, GoesWrites DEF Finish, IInv, Steps, Results, FinalStatus
  <2>2. jobs[r].result \in {"completed", "failed"}
    BY <1>13 DEF Finish, IInv, Shape, HasResult, At, Results
  <2>3. state' \in [run : Runs \cup {NoRun}, status : Statuses, keep : BOOLEAN,
                    seed : {"pending", "running", "pass", "fail"},
                    verifier : {"pending", "running", "pass", "fail"}]
        /\ state'.status = jobs[r].result
    BY <1>13, <2>2 DEF Finish, FinalStatus, IInv, Shape, Statuses
  <2>4. Shape'
    BY <1>13, <2>1, <2>3 DEF OneJob, Finish, IInv, Shape
  <2>5. ~IsActive(state'.status)
    BY <2>2, <2>3 DEF IsActive
  <2> QED
    BY <1>13, <2>1, <2>3, <2>4, <2>5, JobStep
    DEF OneJob, Finish, IInv, Shape, HasResult, Fresh, Marked, Doomed, At, NoRow, FinalStatus
<1>14. ASSUME NEW r \in Runs, Cleanup(r) PROVE IInv'
  <2>1. OneJob(r, "seeding", jobs[r].result)
    BY <1>14, GoesWrites DEF Cleanup, IInv, Steps
  <2>2. At(r, "cleaning") \/ At(r, "deleting")
    BY <1>14 DEF Cleanup, Cleaned, NothingToClean
  <2>3. /\ rows' \in [Runs -> [status : {"none", "seeded", "completed", "failed"}, keep : BOOLEAN]]
        /\ \A q \in Runs : rows'[q] \in {rows[q], NoRow}
    <3>1. CASE UNCHANGED rows
      BY <3>1 DEF IInv, Shape
    <3>2. CASE rows' = [rows EXCEPT ![jobs[r].victim] = NoRow]
      <4>1. NoRow \in [status : {"none", "seeded", "completed", "failed"}, keep : BOOLEAN]
        BY DEF NoRow
      <4> QED
        BY <3>2, <4>1 DEF IInv, Shape
    <3> QED
      BY <1>14, <3>1, <3>2 DEF Cleanup, Cleaned
  <2>4. Shape'
    BY <1>14, <2>1, <2>3 DEF OneJob, Cleanup, IInv, Shape, Statuses
  <2>5. Marked(r)'
    BY <2>1, <2>3 DEF OneJob, IInv, Marked
  <2> QED
    BY <1>14, <2>1, <2>2, <2>3, <2>4, <2>5, JobStep
    DEF OneJob, Cleanup, IInv, HasResult, Fresh, At
<1>15. ASSUME NEW r \in Runs, NEW keep \in BOOLEAN, Start(r, keep) PROVE IInv'
  <2> DEFINE j == [[jobs[r] EXCEPT !.step = "started"] EXCEPT !.keep = keep]
  <2>1. jobs' = [jobs EXCEPT ![r] = j]
    BY <1>15 DEF Start, IInv, Shape
  <2>2. /\ j \in [step : Steps, keep : BOOLEAN, victim : Runs \cup {NoRun}, result : Results]
        /\ j.step = "started"
    <3>1. jobs[r] \in [step : Steps, keep : BOOLEAN, victim : Runs \cup {NoRun}, result : Results]
      BY DEF IInv, Shape
    <3>2. "started" \in Steps
      BY DEF Steps
    <3> QED
      BY <3>1, <3>2
  <2> HIDE DEF j
  <2>3. /\ \A q \in Runs \ {r} : jobs'[q] = jobs[q]
        /\ jobs'[r].step = "started"
        /\ jobs' \in [Runs -> [step : Steps, keep : BOOLEAN, victim : Runs \cup {NoRun},
                               result : Results]]
    BY <2>1, <2>2 DEF IInv, Shape
  <2>4. Shape'
    BY <1>15, <2>3 DEF Start, IdleState, IInv, Shape, Statuses
  <2>5. rows'[r] = NoRow /\ r \notin files'
    BY <1>15 DEF Start, IInv, Fresh, At
  <2> QED
    BY <1>15, <2>3, <2>4, <2>5, JobStep DEF Start, IInv, HasResult, Fresh, Marked, At
<1>16. ASSUME NEW r \in Runs, FindDisposableUIRun(r) PROVE IInv'
  <2>1. PICK v \in Runs : /\ Disposable(v)
                          /\ jobs' = [jobs EXCEPT ![r].step = "removing", ![r].victim = v]
    BY <1>16 DEF FindDisposableUIRun
  <2> DEFINE j == [[jobs[r] EXCEPT !.step = "removing"] EXCEPT !.victim = v]
  <2>2. jobs' = [jobs EXCEPT ![r] = j]
    BY <2>1 DEF IInv, Shape
  <2>3. /\ j \in [step : Steps, keep : BOOLEAN, victim : Runs \cup {NoRun}, result : Results]
        /\ j.step = "removing" /\ j.victim = v /\ j.keep = jobs[r].keep
    <3>1. jobs[r] \in [step : Steps, keep : BOOLEAN, victim : Runs \cup {NoRun}, result : Results]
      BY DEF IInv, Shape
    <3>2. "removing" \in Steps
      BY DEF Steps
    <3> QED
      BY <3>1, <3>2
  <2> HIDE DEF j
  <2>4. /\ \A q \in Runs \ {r} : jobs'[q] = jobs[q]
        /\ jobs'[r].step = "removing" /\ jobs'[r].victim = v /\ jobs'[r].keep = jobs[r].keep
        /\ jobs' \in [Runs -> [step : Steps, keep : BOOLEAN, victim : Runs \cup {NoRun},
                               result : Results]]
    BY <2>2, <2>3 DEF IInv, Shape
  <2>5. Shape'
    BY <1>16, <2>4 DEF FindDisposableUIRun, IInv, Shape
  <2>6. jobs[v].step # "none" /\ ~jobs[v].keep
    BY <2>1 DEF Disposable, IInv, Shape, Fresh, Marked, NoRow
  <2>7. rows'[r] = NoRow /\ r \notin files'
    BY <1>16 DEF FindDisposableUIRun, IInv, Fresh, At
  <2> QED
    BY <1>16, <2>4, <2>5, <2>6, <2>7, JobStep
    DEF FindDisposableUIRun, IInv, HasResult, Fresh, Marked, At
<1>17. ASSUME RestartRunner PROVE IInv'
  <2>1. ASSUME NEW q \in Runs
        PROVE  jobs'[q] = IF Executing(q) THEN [NoJob EXCEPT !.step = "ended"] ELSE jobs[q]
    BY <1>17 DEF RestartRunner
  <2>2. /\ [NoJob EXCEPT !.step = "ended"]
             \in [step : Steps, keep : BOOLEAN, victim : Runs \cup {NoRun}, result : Results]
        /\ [NoJob EXCEPT !.step = "ended"].step = "ended"
        /\ ~[NoJob EXCEPT !.step = "ended"].keep
    <3>1. NoJob \in [step : Steps, keep : BOOLEAN, victim : Runs \cup {NoRun}, result : Results]
          /\ ~NoJob.keep
      BY DEF NoJob, Steps, Results
    <3>2. "ended" \in Steps
      BY DEF Steps
    <3> QED
      BY <3>1, <3>2
  <2>3. ASSUME NEW q \in Runs
        PROVE  \/ jobs'[q].step = "ended" /\ ~jobs'[q].keep
               \/ jobs'[q] = jobs[q] /\ jobs[q].step \in {"none", "ended"}
    BY <2>1, <2>2 DEF Executing
  <2>4. Shape'
    <3>1. jobs' = [q \in Runs |-> IF Executing(q) THEN [NoJob EXCEPT !.step = "ended"] ELSE jobs[q]]
      BY <1>17 DEF RestartRunner
    <3>3. jobs' \in [Runs -> [step : Steps, keep : BOOLEAN, victim : Runs \cup {NoRun},
                             result : Results]]
      BY <3>1, <2>2 DEF IInv, Shape
    <3> QED
      BY <1>17, <3>3 DEF RestartRunner, IdleState, IInv, Shape, Statuses
  <2>5. RunnerIsNeverStuck'
    BY <1>17 DEF RestartRunner, IdleState, RunnerIsNeverStuck, IsActive
  <2>6. ASSUME NEW q \in Runs PROVE HasResult(q)' /\ Fresh(q)' /\ Marked(q)' /\ Doomed(q)'
    BY <1>17, <2>3 DEF RestartRunner, IInv, HasResult, Fresh, Marked, Doomed
  <2> QED
    BY <2>4, <2>5, <2>6 DEF IInv
<1>18. CASE UNCHANGED runnerVars
  BY <1>18 DEF runnerVars, IInv, Shape, RunnerIsNeverStuck, Executing, HasResult, Fresh, Marked, Doomed
<1> QED
  BY <1>1, <1>2, <1>3, <1>4, <1>5, <1>6, <1>7, <1>8, <1>9, <1>10, <1>11, <1>12,
     <1>13, <1>14, <1>15, <1>16, <1>17, <1>18 DEF RunnerNext, Execute

-----------------------------------------------------------------------------
(* IInv holds for ever.                                                    *)
THEOREM Invariance == RunnerSpec => []IInv
<1>1. RunnerInit => IInv
  BY Initially
<1>2. IInv /\ [RunnerNext]_runnerVars => IInv'
  BY Inductive
<1> QED
  BY <1>1, <1>2, PTL DEF RunnerSpec

(* Whatever runs overlap, fail or are cut off, each run is at one of its   *)
(* steps and has left behind only what those steps leave.                  *)
THEOREM RunnerTypeCorrect == RunnerSpec => []TypeOK
<1> QED
  BY Invariance, Typed, PTL

(* When the last run has ended the runner accepts another one: whichever   *)
(* goroutine finishes last writes a final status.                          *)
THEOREM NeverStuck == RunnerSpec => []RunnerIsNeverStuck
<1>1. IInv => RunnerIsNeverStuck
  BY DEF IInv
<1> QED
  BY <1>1, Invariance, PTL

(* The cleanup never deletes the rows of a run that was started with       *)
(* keep_data, though it deletes long after it has chosen its victim.       *)
THEOREM KeptRunsAreSafe == RunnerSpec => KeptRunsSurvive
<1> DEFINE Safe == \A r \in Runs : jobs[r].keep /\ rows[r] # NoRow => rows'[r] # NoRow
<1>1. IInv /\ [RunnerNext]_runnerVars => [Safe]_runnerVars
  <2> SUFFICES ASSUME IInv, RunnerNext, NEW v \in Runs, jobs[v].keep, rows[v] # NoRow
               PROVE  rows'[v] # NoRow
    OBVIOUS
  <2>1. ASSUME NEW r \in Runs, Execute(r) PROVE rows'[v] # NoRow
    <3>1. CASE Cleanup(r)
      BY <3>1 DEF Cleanup, Cleaned, IInv, Shape, Doomed, At
    <3>2. CASE Seed(r)
      BY <3>2 DEF Seed, IInv, Shape, NoRow
    <3>3. ASSUME NEW passed \in BOOLEAN, PersistOutcome(r, passed) PROVE rows'[v] # NoRow
      <4>1. CASE v = r
        <5>1. rows'[r] = [rows[r] EXCEPT !.status = VerdictOf(passed)]
          BY <3>3 DEF PersistOutcome, IInv, Shape
        <5>2. rows'[r].status = VerdictOf(passed)
          BY <5>1 DEF IInv, Shape
        <5> QED
          BY <4>1, <5>2 DEF NoRow, VerdictOf
      <4>2. CASE v # r
        BY <3>3, <4>2 DEF PersistOutcome, IInv, Shape
      <4> QED
        BY <4>1, <4>2
    <3>4. CASE PreserveFailure(r)
      BY <3>4 DEF PreserveFailure, Preserved, IInv, Shape, NoRow
    <3>5. CASE rows' = rows
      BY <3>5
    <3> QED
      BY <2>1, <3>1, <3>2, <3>3, <3>4, <3>5
      DEF Execute, Begin, FindDisposableUIRun, RemoveDirectories, FailCleanup, WriteData,
          FailSeed, RunK6, FailK6, ReportPass, FailVerify, Finish
  <2>2. ASSUME NEW r \in Runs, NEW keep \in BOOLEAN, Start(r, keep) PROVE rows'[v] # NoRow
    BY <2>2 DEF Start
  <2>3. CASE RestartRunner
    BY <2>3 DEF RestartRunner
  <2> QED
    BY <2>1, <2>2, <2>3 DEF RunnerNext
<1> QED
  BY <1>1, Invariance, PTL DEF RunnerSpec, KeptRunsSurvive

-----------------------------------------------------------------------------
(***************************************************************************)
(* The scenario.                                                           *)
(***************************************************************************)

(***************************************************************************)
(* What a transaction does to the states of the attempts.  It reconciles,  *)
(* and moves the attempt it is about: moved says which, and where to.      *)
(***************************************************************************)
StateAdvances(t, i, new, moved) ==
  LET old == t.attempts[i].state
  IN  \/ new = old
      \/ old = "waiting" /\ new \in {"invited", "sold_out"}
      \/ i \in Due(t) /\ new = ExpiredState(t.attempts[i])
      \/ /\ <<i, new>> \in moved
         /\ \/ old \in Active /\ new = "cancelled"
            \/ old \in {"waiting", "invited"} /\ new = "checkout"
            \/ old = "checkout" /\ new = "purchased"

Advances(t, t2, moved) ==
  /\ DOMAIN t.attempts \subseteq DOMAIN t2.attempts
  /\ t.outbox \subseteq t2.outbox
  /\ Due(t2) \subseteq Due(t)
  /\ \A i \in DOMAIN t.attempts :
       /\ t2.attempts[i].user = t.attempts[i].user
       /\ t2.attempts[i].key = t.attempts[i].key
       /\ StateAdvances(t, i, t2.attempts[i].state, moved)

(* A transaction that changes no attempt.                                  *)
LEMMA NothingAdvances ==
  ASSUME NEW t, NEW t2, t2.attempts = t.attempts, t2.outbox = t.outbox
  PROVE  Advances(t, t2, {})
BY DEF Advances, StateAdvances, Due, Holders, InState

LEMMA ReconcileAdvances ==
  ASSUME NEW t, Good(t), NEW limit \in Nat
  PROVE  Advances(t, ReconcileBounded(t, limit), {})
<1> WellFormed(t) /\ Consistent(t)
  BY DEF Good
<1> PICK r : r = ReconcileBounded(t, limit)
  OBVIOUS
<1>1. /\ r.outbox = t.outbox \cup ToInvite(t, limit)
      /\ DOMAIN r.attempts = DOMAIN t.attempts
      /\ \A i \in DOMAIN t.attempts :
           /\ r.attempts[i].user = t.attempts[i].user
           /\ r.attempts[i].key = t.attempts[i].key
           /\ r.attempts[i].state =
                IF i \in ToExpire(t, limit) THEN ExpiredState(t.attempts[i])
                ELSE IF i \in ToSellOut(t, limit) THEN "sold_out"
                ELSE IF i \in ToInvite(t, limit) THEN "invited"
                ELSE t.attempts[i].state
           /\ i \in ToInvite(t, limit) => r.attempts[i].left = InvitationTTL
           /\ i \notin ToExpire(t, limit) \cup ToSellOut(t, limit)
                         \cup ToInvite(t, limit)
                => r.attempts[i] = t.attempts[i]
  BY ReconciledFields
<1>2. /\ ToExpire(t, limit) \in SUBSET Due(t)
      /\ Due(t) \in SUBSET Holders(t)
      /\ ToSellOut(t, limit) \in SUBSET Waiting(t)
      /\ ToInvite(t, limit) \in SUBSET Waiting(t)
  BY Selected
<1>3. ASSUME NEW i \in DOMAIN t.attempts
      PROVE  StateAdvances(t, i, r.attempts[i].state, {})
  <2>1. i \in Waiting(t) => t.attempts[i].state = "waiting"
    BY DEF Waiting, InState
  <2> QED
    BY <1>1, <1>2, <2>1 DEF StateAdvances
<1>4. ASSUME NEW i \in Due(r)
      PROVE  i \in Due(t)
  <2>1. i \in DOMAIN t.attempts /\ r.attempts[i].state \in Reserving /\ r.attempts[i].left = 0
    BY <1>1 DEF Due, Holders, InState
  <2>2. i \notin ToExpire(t, limit)
    BY <2>1, <1>1 DEF ExpiredState, Reserving
  <2>3. i \notin ToSellOut(t, limit)
    BY <2>1, <2>2, <1>1 DEF Reserving
  <2>4. i \notin ToInvite(t, limit)
    BY <2>1, <1>1, TTLAssumption
  <2>5. r.attempts[i] = t.attempts[i]
    BY <2>1, <2>2, <2>3, <2>4, <1>1
  <2> QED
    BY <2>1, <2>5 DEF Due, Holders, InState
<1> QED
  BY <1>1, <1>3, <1>4 DEF Advances

(* A request that writes attempt i alone.                                  *)
LEMMA MoveAdvances ==
  ASSUME NEW t, NEW t2, NEW i \in DOMAIN t.attempts,
         t2.outbox = t.outbox,
         DOMAIN t2.attempts = DOMAIN t.attempts,
         \A k \in DOMAIN t.attempts : k # i => t2.attempts[k] = t.attempts[k],
         t2.attempts[i].user = t.attempts[i].user,
         t2.attempts[i].key = t.attempts[i].key,
         t2.attempts[i].state \in Reserving => t2.attempts[i].left # 0,
         LET old == t.attempts[i].state
             new == t2.attempts[i].state
         IN  \/ old \in Active /\ new = "cancelled"
             \/ old = "invited" /\ new = "checkout"
             \/ old = "checkout" /\ new = "purchased"
  PROVE  Advances(t, t2, {<<i, t2.attempts[i].state>>})
<1>1. ASSUME NEW k \in DOMAIN t.attempts
      PROVE  /\ t2.attempts[k].user = t.attempts[k].user
             /\ t2.attempts[k].key = t.attempts[k].key
             /\ StateAdvances(t, k, t2.attempts[k].state, {<<i, t2.attempts[i].state>>})
  <2>1. CASE k = i
    BY <2>1 DEF StateAdvances
  <2>2. CASE k # i
    BY <2>2 DEF StateAdvances
  <2> QED
    BY <2>1, <2>2
<1>2. Due(t2) \subseteq Due(t)
  <2> SUFFICES ASSUME NEW k \in Due(t2) PROVE k \in Due(t)
    OBVIOUS
  <2>1. k \in DOMAIN t.attempts /\ t2.attempts[k].state \in Reserving /\ t2.attempts[k].left = 0
    BY DEF Due, Holders, InState
  <2>2. k # i
    BY <2>1
  <2> QED
    BY <2>1, <2>2 DEF Due, Holders, InState
<1> QED
  BY <1>1, <1>2 DEF Advances

(* One thing after another.                                                *)
LEMMA AdvancesTransitively ==
  ASSUME NEW t, NEW r, NEW t2, NEW m1, NEW m2,
         Advances(t, r, m1), Advances(r, t2, m2),
         \A i \in DOMAIN t.attempts : <<i, "checkout">> \notin m1
  PROVE  Advances(t, t2, m1 \cup m2)
<1>1. ASSUME NEW i \in DOMAIN t.attempts
      PROVE  /\ t2.attempts[i].user = t.attempts[i].user
             /\ t2.attempts[i].key = t.attempts[i].key
             /\ StateAdvances(t, i, t2.attempts[i].state, m1 \cup m2)
  <2> DEFINE old == t.attempts[i].state
             mid == r.attempts[i].state
             new == t2.attempts[i].state
  <2>0. i \in DOMAIN r.attempts /\ Due(r) \subseteq Due(t)
    BY DEF Advances
  <2>1. StateAdvances(t, i, mid, m1) /\ StateAdvances(r, i, new, m2)
    BY <2>0 DEF Advances
  <2>2. i \in Due(t) => old \in Reserving
    BY DEF Due, Holders, InState
  <2>3. i \in Due(r) => mid \in Reserving
    BY DEF Due, Holders, InState
  <2>4. mid = "invited" \/ mid = "checkout" => (ExpiredState(r.attempts[i]) =
          IF mid = "invited" THEN "invite_expired" ELSE "checkout_expired")
    BY DEF ExpiredState
  <2>5. ExpiredState(t.attempts[i]) =
          IF old = "invited" THEN "invite_expired" ELSE "checkout_expired"
    BY DEF ExpiredState
  <2>6. StateAdvances(t, i, new, m1 \cup m2)
    <3>1. CASE mid = old
      BY <3>1, <2>0, <2>1, <2>2, <2>3, <2>4, <2>5 DEF StateAdvances, Reserving
    <3>2. CASE old = "waiting" /\ mid \in {"invited", "sold_out"}
      BY <3>2, <2>0, <2>1, <2>2 DEF StateAdvances, Reserving, Active
    <3>3. CASE i \in Due(t) /\ mid = ExpiredState(t.attempts[i])
      <4>1. mid \in {"invite_expired", "checkout_expired"}
        BY <3>3, <2>5
      <4>2. new = mid
        BY <4>1, <2>1, <2>3 DEF StateAdvances, Reserving, Active
      <4> QED
        BY <3>3, <4>2 DEF StateAdvances
    <3>4. CASE <<i, mid>> \in m1 /\ mid \in {"cancelled", "purchased"}
      <4>1. new = mid
        BY <3>4, <2>1, <2>3 DEF StateAdvances, Reserving, Active
      <4> QED
        BY <3>4, <2>1, <4>1 DEF StateAdvances
    <3> QED
      BY <2>1, <3>1, <3>2, <3>3, <3>4 DEF StateAdvances
  <2> QED
    BY <2>0, <2>6 DEF Advances
<1> QED
  BY <1>1 DEF Advances

LEMMA FullReconcileAdvances ==
  ASSUME NEW t, Good(t)
  PROVE  /\ Good(Reconcile(t)) /\ Due(Reconcile(t)) = {}
         /\ DOMAIN Reconcile(t).attempts = DOMAIN t.attempts
         /\ Advances(t, Reconcile(t), {})
<1>1. WellFormed(t)
  BY DEF Good
<1>2. InState(t, Active) \in SUBSET DOMAIN t.attempts
  BY DEF InState
<1>3. 2 * Cardinality(InState(t, Active)) + 1 \in Nat
  BY <1>1, <1>2, AttemptSets
<1>4. Advances(t, Reconcile(t), {})
  BY <1>3, ReconcileAdvances DEF Reconcile
<1> QED
  BY <1>4, ReconcileKeeps, FullReconcileKeepsNames DEF Settled

-----------------------------------------------------------------------------
(***************************************************************************)
(* The transactions of the scenario.                                       *)
(***************************************************************************)
LEMMA StartCheckoutAdvances ==
  ASSUME NEW t, Good(t), NEW i \in DOMAIN t.attempts, NEW u
  PROVE  LET t2 == StartCheckoutTx(t, i, u)
         IN  /\ Advances(t, t2, {<<i, "checkout">>})
             /\ DOMAIN t2.attempts = DOMAIN t.attempts
<1> DEFINE r == Reconcile(t)
           x == [r EXCEPT !.attempts[i] = Moved(@, "checkout", CheckoutTTL)]
<1>1. /\ Good(r) /\ DOMAIN r.attempts = DOMAIN t.attempts
      /\ Advances(t, r, {}) /\ i \in DOMAIN r.attempts
  BY FullReconcileAdvances
<1>2. StartCheckoutTx(t, i, u) \in {r} \cup (IF r.attempts[i].state = "invited" THEN {x} ELSE {})
  BY DEF StartCheckoutTx
<1> HIDE DEF r
<1>3. Advances(t, r, {<<i, "checkout">>})
  BY <1>1 DEF Advances, StateAdvances
<1>4. ASSUME r.attempts[i].state = "invited"
      PROVE  /\ Advances(t, x, {<<i, "checkout">>})
             /\ DOMAIN x.attempts = DOMAIN r.attempts
  <2>1. /\ x.outbox = r.outbox
        /\ DOMAIN x.attempts = DOMAIN r.attempts
        /\ \A k \in DOMAIN r.attempts : k # i => x.attempts[k] = r.attempts[k]
        /\ x.attempts[i] = Moved(r.attempts[i], "checkout", CheckoutTTL)
    BY <1>1, <1>4, StartKeepsSound DEF Good, Sound
  <2>2. /\ x.attempts[i].user = r.attempts[i].user /\ x.attempts[i].key = r.attempts[i].key
        /\ x.attempts[i].state = "checkout" /\ x.attempts[i].left # 0
    <3>1. r.attempts[i] \in Attempt
      BY <1>1, Fields DEF Good
    <3>2. CheckoutTTL \in Nat /\ CheckoutTTL # 0 /\ "checkout" \in Active \cup Terminal
      BY TTLAssumption DEF Active, Reserving
    <3> QED
      BY <2>1, <3>1, <3>2, MovedFields
  <2> HIDE DEF x
  <2>3. Advances(r, x, {<<i, x.attempts[i].state>>})
    BY <1>1, <1>4, <2>1, <2>2, MoveAdvances
  <2>4. Advances(t, x, {} \cup {<<i, "checkout">>})
    BY <1>1, <2>2, <2>3, AdvancesTransitively
  <2> QED
    BY <2>1, <2>4
<1> HIDE DEF x
<1> QED
  BY <1>1, <1>2, <1>3, <1>4

LEMMA CancelAdvances ==
  ASSUME NEW t, Good(t), NEW u
  PROVE  LET t2 == CancelTx(t, u)
         IN  /\ DOMAIN t2.attempts = DOMAIN t.attempts
             /\ \E i \in OfUser(t, u) \cup {0} : Advances(t, t2, {<<i, "cancelled">>})
<1> DEFINE r == Reconcile(t)
           i == ToCancel(r, u)
           x == Released(r, i, "cancelled")
<1>1. Good(r) /\ DOMAIN r.attempts = DOMAIN t.attempts /\ Advances(t, r, {})
  BY FullReconcileAdvances
<1>2. CASE Cancellable(r, u) = {}
  <2>1. CancelTx(t, u) = r
    BY <1>2 DEF CancelTx
  <2> HIDE DEF r
  <2>2. Advances(t, r, {<<0, "cancelled">>})
    BY <1>1 DEF Advances, StateAdvances
  <2> QED
    BY <1>1, <2>1, <2>2
<1>3. CASE Cancellable(r, u) # {}
  <2>1. i \in Cancellable(r, u)
    BY <1>3 DEF ToCancel
  <2>2. i \in DOMAIN r.attempts /\ r.attempts[i].state \in Active /\ r.attempts[i].user = u
    BY <2>1 DEF Cancellable, InState, Latest, OfUser
  <2>3. LegalMove(r.attempts[i].state, "cancelled")
    BY <2>2 DEF LegalMove, Active, Reserving
  <2>4. CancelTx(t, u) = Reconcile(x)
    BY <1>3 DEF CancelTx
  <2>5. i \in OfUser(t, u)
    BY <1>1, <2>2 DEF Advances, OfUser
  <2> HIDE DEF r, i
  <2>6. /\ x.outbox = r.outbox
        /\ DOMAIN x.attempts = DOMAIN r.attempts
        /\ \A k \in DOMAIN r.attempts : k # i => x.attempts[k] = r.attempts[k]
        /\ x.attempts[i] = Moved(r.attempts[i], "cancelled", 0)
    BY <1>1, <2>2, <2>3, ReleaseKeepsSound DEF Good, Sound
  <2>7. Good(x)
    BY <1>1, <2>2, <2>3, ReleaseKeepsGood
  <2>8. /\ x.attempts[i].user = r.attempts[i].user /\ x.attempts[i].key = r.attempts[i].key
        /\ x.attempts[i].state = "cancelled"
    <3>1. r.attempts[i] \in Attempt
      BY <1>1, <2>2, Fields DEF Good
    <3>2. 0 \in Nat /\ "cancelled" \in Active \cup Terminal
      BY DEF Terminal
    <3> QED
      BY <2>6, <3>1, <3>2, MovedFields
  <2> HIDE DEF x
  <2>9. Advances(r, x, {<<i, x.attempts[i].state>>})
    BY <2>2, <2>6, <2>8, MoveAdvances DEF Reserving
  <2>10. Advances(t, x, {} \cup {<<i, "cancelled">>})
    BY <1>1, <2>8, <2>9, AdvancesTransitively
  <2>11. Advances(x, Reconcile(x), {}) /\ DOMAIN Reconcile(x).attempts = DOMAIN x.attempts
    BY <2>7, FullReconcileAdvances
  <2>12. Advances(t, Reconcile(x), {<<i, "cancelled">>} \cup {})
    BY <2>10, <2>11, AdvancesTransitively
  <2> QED
    BY <1>1, <2>4, <2>5, <2>6, <2>11, <2>12
<1> QED
  BY <1>2, <1>3

LEMMA PaymentAdvances ==
  ASSUME NEW t, Good(t), NEW i \in DOMAIN t.attempts, NEW ref \in References
  PROVE  LET t2 == PaymentTx(t, i, "succeeded", ref, {})
         IN  /\ DOMAIN t2.attempts = DOMAIN t.attempts
             /\ Advances(t, t2, IF PaymentCode(Reconcile(t), i, "succeeded", ref, {}) = "accepted"
                                THEN {<<i, "purchased">>} ELSE {})
<1> DEFINE r == Reconcile(t)
           code == PaymentCode(r, i, "succeeded", ref, {})
           x == Purchased(r, i, ref)
<1>1. /\ Good(r) /\ DOMAIN r.attempts = DOMAIN t.attempts
      /\ Advances(t, r, {}) /\ i \in DOMAIN r.attempts
  BY FullReconcileAdvances
<1>2. CASE code # "accepted"
  <2>1. PaymentTx(t, i, "succeeded", ref, {}) = r
    BY <1>2 DEF PaymentTx
  <2> QED
    BY <1>1, <1>2, <2>1
<1>3. CASE code = "accepted"
  <2>1. PaymentTx(t, i, "succeeded", ref, {}) = Reconcile(x)
    BY <1>3 DEF PaymentTx
  <2> HIDE DEF r
  <2>2. r.attempts[i].state = "checkout"
    BY <1>3 DEF PaymentCode
  <2> HIDE DEF code
  <2>3. /\ x.outbox = r.outbox
        /\ DOMAIN x.attempts = DOMAIN r.attempts
        /\ \A k \in DOMAIN r.attempts : k # i => x.attempts[k] = r.attempts[k]
        /\ x.attempts[i].user = r.attempts[i].user
        /\ x.attempts[i].key = r.attempts[i].key
        /\ x.attempts[i].state = "purchased"
    BY <1>1, <2>2, PurchaseKeepsSound DEF Good, Sound
  <2>4. Good(x)
    BY <1>1, <2>2, PurchaseKeepsGood
  <2> HIDE DEF x
  <2>5. Advances(r, x, {<<i, x.attempts[i].state>>})
    BY <1>1, <2>2, <2>3, MoveAdvances DEF Reserving
  <2>6. Advances(t, x, {} \cup {<<i, "purchased">>})
    BY <1>1, <2>3, <2>5, AdvancesTransitively
  <2>7. Advances(x, Reconcile(x), {}) /\ DOMAIN Reconcile(x).attempts = DOMAIN x.attempts
    BY <2>4, FullReconcileAdvances
  <2>8. Advances(t, Reconcile(x), {<<i, "purchased">>} \cup {})
    BY <2>6, <2>7, AdvancesTransitively
  <2> QED
    BY <1>1, <1>3, <2>1, <2>3, <2>7, <2>8 DEF code, r
<1> QED
  BY <1>2, <1>3

(* A join adds at most one attempt, of its user, which reserves or waits.  *)
Newcomer(t, t2, u, k) ==
  \A i \in DOMAIN t2.attempts \ DOMAIN t.attempts :
    /\ t2.attempts[i].user = u /\ t2.attempts[i].key = k
    /\ t2.attempts[i].state \in {"waiting", "checkout"}
    /\ t2.attempts[i].ref = NoReference

LEMMA CreateAdvances ==
  ASSUME NEW r, Good(r), NEW u \in Users, NEW k \in Keys, NEW percent
  PROVE  LET t2 == CreateAttempt(r, u, k, percent)
         IN  Advances(r, t2, {}) /\ Newcomer(r, t2, u, k)
<1> DEFINE t2 == CreateAttempt(r, u, k, percent)
<1> SUFFICES Advances(r, t2, {}) /\ Newcomer(r, t2, u, k)
  OBVIOUS
<1>0. r.reserved \in Int /\ r.stock \in Nat /\ Sound(r)
  BY Fields DEF Good, Sound
<1>1. ASSUME t2.attempts = r.attempts, t2.outbox = r.outbox
      PROVE  Advances(r, t2, {}) /\ Newcomer(r, t2, u, k)
  BY <1>1, NothingAdvances DEF Newcomer
<1>2. ASSUME NEW st \in {"checkout", "waiting"}, NEW left \in Nat,
             st = "checkout" => r.reserved < r.stock /\ left # 0,
             r.next # MaxSequence, t2 = Appended(r, u, k, st, left)
      PROVE  Advances(r, t2, {}) /\ Newcomer(r, t2, u, k)
  <2>1. /\ t2.outbox = r.outbox
        /\ r.next \notin DOMAIN r.attempts
        /\ DOMAIN t2.attempts = DOMAIN r.attempts \cup {r.next}
        /\ t2.attempts[r.next].user = u /\ t2.attempts[r.next].key = k
        /\ t2.attempts[r.next].state = st /\ t2.attempts[r.next].left = left
        /\ t2.attempts[r.next].ref = NoReference
        /\ \A i \in DOMAIN r.attempts : t2.attempts[i] = r.attempts[i]
    BY <1>0, <1>2, AppendKeepsSound
  <2> HIDE DEF t2
  <2>2. Due(t2) \subseteq Due(r)
    BY <1>2, <2>1 DEF Due, Holders, InState, Reserving
  <2>3. Advances(r, t2, {})
    BY <2>1, <2>2 DEF Advances, StateAdvances
  <2>4. Newcomer(r, t2, u, k)
    BY <2>1 DEF Newcomer
  <2> QED
    BY <2>3, <2>4
<1>3. CASE r.next = MaxSequence
  <2>1. t2 = [r EXCEPT !.failed = TRUE]
    BY <1>3 DEF CreateAttempt
  <2>2. t2.attempts = r.attempts /\ t2.outbox = r.outbox
    BY <2>1, <1>0 DEF Sound, WellFormed
  <2> QED
    BY <1>1, <2>2
<1>4. CASE r.next # MaxSequence /\ r.reserved < r.stock
  <2>1. t2 = Appended(r, u, k, "checkout", CheckoutTTL)
    BY <1>0, <1>4 DEF CreateAttempt
  <2>2. CheckoutTTL \in Nat /\ CheckoutTTL # 0
    BY TTLAssumption
  <2> HIDE DEF t2
  <2> QED
    BY <1>2, <1>4, <2>1, <2>2
<1>5. CASE r.next # MaxSequence /\ r.reserved >= r.stock
  <2>1. t2 = Appended(r, u, k, "waiting", 0) \/ t2 = r
    BY <1>0, <1>5 DEF CreateAttempt
  <2> HIDE DEF t2
  <2>2. CASE t2 = r
    BY <1>1, <2>2
  <2>3. CASE t2 = Appended(r, u, k, "waiting", 0)
    BY <1>2, <1>5, <2>3
  <2> QED
    BY <2>1, <2>2, <2>3
<1> QED
  BY <1>0, <1>3, <1>4, <1>5

LEMMA JoinAdvances ==
  ASSUME NEW t, Good(t), NEW u \in Users, NEW k \in Keys, NEW percent
  PROVE  LET t2 == JoinTx(t, u, k, percent)
         IN  Advances(t, t2, {}) /\ Newcomer(t, t2, u, k)
<1> DEFINE f == Refreshed(t, u)
           r == Reconcile(f)
           c == CreateAttempt(r, u, k, percent)
<1>1. Advances(t, t, {}) /\ Newcomer(t, t, u, k)
  BY NothingAdvances DEF Newcomer
<1>2. Good(f) /\ Advances(t, f, {}) /\ DOMAIN f.attempts = DOMAIN t.attempts
  BY <1>1, FullReconcileAdvances DEF Refreshed
<1> HIDE DEF f
<1>3. Good(r) /\ Advances(f, r, {}) /\ DOMAIN r.attempts = DOMAIN f.attempts
  BY <1>2, FullReconcileAdvances
<1> HIDE DEF r
<1>4. Advances(r, c, {}) /\ Newcomer(r, c, u, k)
  BY <1>3, CreateAdvances
<1> HIDE DEF c
<1>5. Advances(t, r, {} \cup {})
  BY <1>2, <1>3, AdvancesTransitively
<1>6. Advances(t, c, {} \cup {})
  BY <1>4, <1>5, AdvancesTransitively
<1>7. Newcomer(t, f, u, k) /\ Newcomer(t, r, u, k) /\ Newcomer(t, c, u, k)
  BY <1>2, <1>3, <1>4 DEF Newcomer
<1>8. AdmitTx(f, u, k, percent) \in {f, r, c}
  BY DEF AdmitTx, r, c
<1>9. JoinTx(t, u, k, percent) \in {t, AdmitTx(f, u, k, percent)}
  BY DEF JoinTx, f
<1> QED
  BY <1>1, <1>2, <1>5, <1>6, <1>7, <1>8, <1>9

-----------------------------------------------------------------------------
(***************************************************************************)
(* One product and its trail: what Put preserves.                          *)
(***************************************************************************)
(* Stamped, of attempt i of a product with its trail.                      *)
StampedIn(t, T, i) ==
  LET a == t.attempts[i]
      started == i \in T.started
      invited == started \/ i \in t.outbox
  IN  /\ a.state \in {"waiting", "sold_out"} => ~invited
      /\ a.state \in {"invited", "invite_expired"} => invited /\ ~started
      /\ a.state \in {"checkout", "purchased", "checkout_expired", "payment_failed"} => started
      /\ a.state \in {"invite_expired", "checkout_expired"} => i \in T.late
      /\ a.state = "purchased" <=> a.ref # NoReference

(* stock: what the product was seeded with.                                *)
ProductInv(t, T, stock) ==
  /\ Good(t) /\ Remembers(t)
  /\ T \in [started : SUBSET Nat, late : SUBSET Nat]
  /\ T.started \subseteq DOMAIN t.attempts
  /\ \A i \in DOMAIN t.attempts : t.attempts[i].key = t.attempts[i].user
  /\ \A i \in DOMAIN t.attempts : StampedIn(t, T, i)
  /\ t.stock + Cardinality(Bought(t)) = stock

(* A transaction of user u took the product from t to t2.                  *)
Serves(t, t2, u, moved) ==
  /\ Good(t2) /\ Remembers(t2)
  /\ Advances(t, t2, moved) /\ Newcomer(t, t2, u, u)
  /\ \A i \in Bought(t2) : t2.attempts[i].ref # NoReference
  /\ t2.stock + Cardinality(Bought(t2)) = t.stock + Cardinality(Bought(t))

(* The trail T of t has become T2, of t2.                                  *)
Trailed(t, T, t2, T2) ==
  /\ T2 \in [started : SUBSET Nat, late : SUBSET Nat]
  /\ T2.started = T.started \cup InState(t2, {"checkout"})
  /\ T2.late = T.late \cup (Due(t) \cap InState(t2, Terminal))

LEMMA PutKeepsProduct ==
  ASSUME NEW t, NEW T, NEW stock, ProductInv(t, T, stock),
         NEW t2, NEW T2, NEW u, NEW moved, Serves(t, t2, u, moved),
         Trailed(t, T, t2, T2)
  PROVE  ProductInv(t2, T2, stock)
<1>1. \A i \in DOMAIN t2.attempts : t2.attempts[i].key = t2.attempts[i].user
  BY DEF ProductInv, Serves, Advances, Newcomer
<1>2. T2.started \subseteq DOMAIN t2.attempts
  BY DEF ProductInv, Serves, Advances, Trailed, InState
<1>3. ASSUME NEW i \in DOMAIN t2.attempts
      PROVE  StampedIn(t2, T2, i)
  <2> DEFINE old == t.attempts[i].state
             new == t2.attempts[i].state
  <2>1. /\ new = "invited" => i \in t2.outbox
        /\ new \in {"waiting", "sold_out"} => i \notin t2.outbox
    BY DEF Serves, Good, InvitedAnnounced
  <2>2. new = "purchased" <=> t2.attempts[i].ref # NoReference
    BY DEF Serves, Remembers, Unreferenced, Bought, InState
  <2>3. i \in T2.started <=> i \in T.started \/ new = "checkout"
    BY DEF Trailed, InState
  <2>4. CASE i \notin DOMAIN t.attempts
    <3>1. new \in {"waiting", "checkout"}
      BY <2>4 DEF Serves, Newcomer
    <3>2. i \notin T.started
      BY <2>4 DEF ProductInv
    <3> QED
      BY <2>1, <2>2, <2>3, <3>1, <3>2 DEF StampedIn
  <2>5. CASE i \in DOMAIN t.attempts
    <3>1. StampedIn(t, T, i) /\ t.outbox \subseteq t2.outbox
      BY <2>5 DEF ProductInv, Serves, Advances
    <3>2. StateAdvances(t, i, new, moved)
      BY <2>5 DEF Serves, Advances
    <3>3. i \in Due(t) => old \in {"invited", "checkout"}
      BY DEF Due, Holders, InState, Reserving
    <3>4. i \in T2.late <=> i \in T.late \/ (i \in Due(t) /\ new \in Terminal)
      BY DEF Trailed, InState
    <3>5. old \in Active => old \in {"waiting", "invited", "checkout"}
      BY DEF Active, Reserving
    <3> QED
      BY <2>1, <2>2, <2>3, <3>1, <3>2, <3>3, <3>4, <3>5
      DEF StampedIn, StateAdvances, ExpiredState, Terminal
  <2> QED
    BY <2>4, <2>5
<1>4. T2 \in [started : SUBSET Nat, late : SUBSET Nat]
  BY DEF Trailed
<1>5. t2.stock + Cardinality(Bought(t2)) = stock
  BY DEF ProductInv, Serves
<1> QED
  BY <1>1, <1>2, <1>3, <1>4, <1>5 DEF ProductInv, Serves

(* A transaction that sells nothing.                                       *)
LEMMA Unsold ==
  ASSUME NEW t, NEW T, NEW stock, ProductInv(t, T, stock),
         NEW t2, NEW u, NEW moved, Good(t2), Keeps(t, t2), t2.stock = t.stock,
         Advances(t, t2, moved), Newcomer(t, t2, u, u)
  PROVE  Serves(t, t2, u, moved)
<1>1. Remembers(t2)
  BY KeepsRemembering DEF ProductInv
<1>2. Bought(t2) = Bought(t)
  BY KeepsWhatWasBought
<1>3. \A i \in Bought(t2) : t2.attempts[i].ref # NoReference
  BY KeepsBought DEF ProductInv, StampedIn, Bought, InState
<1> QED
  BY <1>1, <1>2, <1>3 DEF Serves

LEMMA ReconcileServes ==
  ASSUME NEW t, NEW T, NEW stock, ProductInv(t, T, stock), NEW limit \in Nat, NEW u
  PROVE  Serves(t, ReconcileBounded(t, limit), u, {})
<1> DEFINE r == ReconcileBounded(t, limit)
<1>1. Good(t) /\ WellFormed(t) /\ Consistent(t)
  BY DEF ProductInv, Good
<1>2. Good(r) /\ Keeps(t, r) /\ Advances(t, r, {})
  BY <1>1, ReconcileKeepsGood, ReconcileBoundedKeeps, ReconcileAdvances
<1>3. r.stock = t.stock /\ DOMAIN r.attempts = DOMAIN t.attempts
  BY <1>1, ReconciledFields
<1> HIDE DEF r
<1>4. Newcomer(t, r, u, u)
  BY <1>3 DEF Newcomer
<1> QED
  BY <1>2, <1>3, <1>4, Unsold DEF r

LEMMA FullReconcileServes ==
  ASSUME NEW t, NEW T, NEW stock, ProductInv(t, T, stock), NEW u
  PROVE  Serves(t, Reconcile(t), u, {})
<1>1. WellFormed(t)
  BY DEF ProductInv, Good
<1>2. InState(t, Active) \in SUBSET DOMAIN t.attempts
  BY DEF InState
<1>3. 2 * Cardinality(InState(t, Active)) + 1 \in Nat
  BY <1>1, <1>2, AttemptSets
<1> QED
  BY <1>3, ReconcileServes DEF Reconcile

LEMMA JoinServes ==
  ASSUME NEW t, NEW T, NEW stock, ProductInv(t, T, stock),
         NEW u \in Users \cap Keys, NEW percent \in Nat,
         ~JoinTx(t, u, u, percent).failed
  PROVE  Serves(t, JoinTx(t, u, u, percent), u, {})
<1> DEFINE t2 == JoinTx(t, u, u, percent)
<1>0. Good(t) /\ u \in Users /\ u \in Keys
  BY DEF ProductInv
<1>1. Good(t2)
  BY <1>0, JoinSettles DEF Settled
<1>2. /\ Keeps(t, t2) /\ t2.stock = t.stock
      /\ Advances(t, t2, {}) /\ Newcomer(t, t2, u, u)
  BY <1>0, JoinKeeps, JoinKeepsStock, JoinAdvances
<1> HIDE DEF t2
<1> QED
  BY <1>1, <1>2, Unsold DEF t2

LEMMA StartCheckoutServes ==
  ASSUME NEW t, NEW T, NEW stock, ProductInv(t, T, stock),
         NEW i \in DOMAIN t.attempts, NEW u
  PROVE  Serves(t, StartCheckoutTx(t, i, u), u, {<<i, "checkout">>})
<1> DEFINE t2 == StartCheckoutTx(t, i, u)
<1>0. Good(t)
  BY DEF ProductInv
<1>1. /\ Good(t2) /\ Keeps(t, t2) /\ t2.stock = t.stock
      /\ Advances(t, t2, {<<i, "checkout">>}) /\ DOMAIN t2.attempts = DOMAIN t.attempts
  BY <1>0, StartCheckoutSettles, StartCheckoutKeeps, StartCheckoutKeepsStock,
     StartCheckoutAdvances DEF Settled
<1> HIDE DEF t2
<1>2. Newcomer(t, t2, u, u)
  BY <1>1 DEF Newcomer
<1> QED
  BY <1>1, <1>2, Unsold DEF t2

LEMMA CancelServes ==
  ASSUME NEW t, NEW T, NEW stock, ProductInv(t, T, stock), NEW u
  PROVE  \E i \in OfUser(t, u) \cup {0} : Serves(t, CancelTx(t, u), u, {<<i, "cancelled">>})
<1> DEFINE t2 == CancelTx(t, u)
<1>0. Good(t)
  BY DEF ProductInv
<1>1. Good(t2) /\ Keeps(t, t2) /\ t2.stock = t.stock /\ DOMAIN t2.attempts = DOMAIN t.attempts
  BY <1>0, CancelSettles, CancelKeeps, CancelKeepsStock, CancelAdvances DEF Settled
<1>2. PICK i \in OfUser(t, u) \cup {0} : Advances(t, t2, {<<i, "cancelled">>})
  BY <1>0, CancelAdvances
<1> HIDE DEF t2
<1>3. Newcomer(t, t2, u, u)
  BY <1>1 DEF Newcomer
<1>4. Serves(t, t2, u, {<<i, "cancelled">>})
  BY <1>1, <1>2, <1>3, Unsold
<1> QED
  BY <1>4 DEF t2

LEMMA PaymentServes ==
  ASSUME NEW t, NEW T, NEW stock, ProductInv(t, T, stock),
         NEW i \in DOMAIN t.attempts, NEW u \in References
  PROVE  Serves(t, PaymentTx(t, i, "succeeded", u, {}), u,
                IF PaymentCode(Reconcile(t), i, "succeeded", u, {}) = "accepted"
                THEN {<<i, "purchased">>} ELSE {})
<1> DEFINE t2 == PaymentTx(t, i, "succeeded", u, {})
           code == PaymentCode(Reconcile(t), i, "succeeded", u, {})
           moved == IF code = "accepted" THEN {<<i, "purchased">>} ELSE {}
<1>0. Good(t) /\ Remembers(t) /\ WellFormed(t)
  BY DEF ProductInv, Good
<1>1. /\ Good(t2) /\ DOMAIN t2.attempts = DOMAIN t.attempts
      /\ Advances(t, t2, moved)
  BY <1>0, PaymentSettles, PaymentAdvances DEF Settled
<1>2. /\ Remembers(t2)
      /\ code # "accepted" => Keeps(t, t2)
      /\ code = "accepted" =>
           /\ Follows(t, t2)
           /\ Decided(t2) \subseteq Decided(t) \cup {i}
           /\ t2.attempts[i].ref = u
  BY <1>0, PaymentDecides
<1>3. \/ /\ code = "accepted"
         /\ t2.stock = t.stock - 1
         /\ i \notin Bought(t) /\ Bought(t2) = Bought(t) \cup {i}
      \/ /\ code # "accepted"
         /\ t2.stock = t.stock /\ Bought(t2) = Bought(t)
  BY <1>0, PaymentWritesStock
<1> HIDE DEF t2, code
<1>4. Newcomer(t, t2, u, u)
  BY <1>1 DEF Newcomer
<1>5. t2.stock + Cardinality(Bought(t2)) = t.stock + Cardinality(Bought(t))
  <2>1. IsFiniteSet(Bought(t)) /\ Cardinality(Bought(t)) \in Nat /\ t.stock \in Nat
    <3>1. Bought(t) \in SUBSET DOMAIN t.attempts
      BY DEF Bought, InState
    <3> QED
      BY <1>0, <3>1, AttemptSets, Fields
  <2>2. CASE code = "accepted"
    <3>1. Cardinality(Bought(t) \cup {i}) = Cardinality(Bought(t)) + 1
      BY <1>3, <2>1, <2>2, FS_AddElement
    <3>2. t2.stock = t.stock - 1 /\ Bought(t2) = Bought(t) \cup {i}
      BY <1>3, <2>2
    <3>3. Cardinality(Bought(t2)) = Cardinality(Bought(t)) + 1
      BY <3>1, <3>2
    <3> QED
      BY <2>1, <3>2, <3>3
  <2> QED
    BY <1>3, <2>2
<1>6. ASSUME NEW j \in Bought(t2) PROVE t2.attempts[j].ref # NoReference
  <2>1. \A k \in Bought(t) : t.attempts[k].ref # NoReference
    BY DEF ProductInv, StampedIn, Bought, InState
  <2>2. Follows(t, t2)
    BY <1>2 DEF Keeps
  <2>3. CASE j \in Bought(t)
    BY <2>1, <2>2, <2>3 DEF Follows, Bought, InState, Terminal
  <2>4. CASE j \notin Bought(t)
    BY <1>2, <1>3, <2>4, ReferenceAssumption
  <2> QED
    BY <2>3, <2>4
<1> QED
  BY <1>1, <1>2, <1>4, <1>5, <1>6 DEF Serves, code, t2

-----------------------------------------------------------------------------
(***************************************************************************)
(* One pair: what k6 and the inbox know of an attempt is true of it.       *)
(***************************************************************************)
Concluded == {"sold_out", "purchased", "cancelled", "checkout_expired"}
Events == Concluded \cup {"queue_rejected", "unresolved"}

Items == [step : {"new", "act", "poll", "done"},
          entry : {"none"} \cup Active \cup Terminal,
          sent : BOOLEAN,
          event : {"none"} \cup Events]

Playing(item) == item.step \in {"act", "poll"}

(* a: the attempt; started: it has a checkout_started_at.                  *)
AttemptKnown(a, started, in, item, plan) ==
  /\ Playing(item) /\ item.entry \in Terminal => a.state = item.entry
  /\ Playing(item) /\ item.entry = "checkout" => started
  /\ item.event \in Concluded => a.state = item.event
  /\ item.event # "queue_rejected"
  /\ in # "none" => started
  /\ a.state = "purchased" => in = "accepted"
  /\ a.state = "cancelled" => plan = "cancel"

Known(t, T, u, in, item, plan) ==
  /\ item \in Items
  /\ plan = "none" => item.step = "new"
  /\ Playing(item) => OfUser(t, u) # {} /\ item.entry # "none"
  /\ item.event = "none" <=> item.step # "done"
  /\ item.event \in Concluded \ {"sold_out"} => OfUser(t, u) # {}
  /\ in # "none" => plan = "purchase" /\ OfUser(t, u) # {}
  /\ \A i \in OfUser(t, u) : AttemptKnown(t.attempts[i], i \in T.started, in, item, plan)

PairInv(t, T, u, in, item, plan) ==
  /\ Known(t, T, u, in, item, plan)
  /\ item.step = "new" => OfUser(t, u) = {}

(* A user has one attempt of a product: its key is the user.               *)
LEMMA OneAttempt ==
  ASSUME NEW t, NEW T, NEW stock, ProductInv(t, T, stock), NEW u,
         NEW i \in OfUser(t, u), NEW j \in OfUser(t, u)
  PROVE  i = j
BY DEF ProductInv, Good, KeysDistinct, OfUser

(* What is known stays true while the product goes on, for users whom the  *)
(* transaction is not about, and for the one it is about as long as the    *)
(* inbox and the plan say what has become of the attempt.                  *)
LEMMA ServedStaysKnown ==
  ASSUME NEW t, NEW T, NEW stock, ProductInv(t, T, stock),
         NEW t2, NEW T2, NEW v, NEW moved, Serves(t, t2, v, moved), Trailed(t, T, t2, T2),
         NEW u, NEW in, NEW in2, NEW item, NEW plan, PairInv(t, T, u, in, item, plan),
         OfUser(t2, u) = OfUser(t, u) \/ (item.step = "new" /\ in2 = in),
         \/ in2 = in
         \/ /\ in \in {"none", "open"} /\ in2 # "none" /\ plan = "purchase"
            /\ \A i \in OfUser(t, u) : i \in T.started,
         \A i \in OfUser(t, u) :
           /\ <<i, "purchased">> \in moved => in2 = "accepted"
           /\ <<i, "cancelled">> \in moved => plan = "cancel",
         in2 # in => OfUser(t, u) # {}
  PROVE  /\ Known(t2, T2, u, in2, item, plan)
         /\ OfUser(t2, u) = OfUser(t, u) => PairInv(t2, T2, u, in2, item, plan)
<1>1. Known(t, T, u, in, item, plan) /\ (item.step = "new" => OfUser(t, u) = {})
  BY DEF PairInv
<1>2. ASSUME NEW i \in OfUser(t, u)
      PROVE  AttemptKnown(t2.attempts[i], i \in T2.started, in2, item, plan)
  <2> DEFINE old == t.attempts[i].state
             new == t2.attempts[i].state
  <2>1. AttemptKnown(t.attempts[i], i \in T.started, in, item, plan)
    BY <1>1 DEF Known
  <2>2. StateAdvances(t, i, new, moved)
    BY DEF Serves, Advances, OfUser
  <2>3. i \in T.started => i \in T2.started
    BY DEF Trailed
  <2>4. i \in Due(t) => old \in {"invited", "checkout"}
    BY DEF Due, Holders, InState, Reserving
  <2>5. old \in Terminal => new = old
    BY <2>2, <2>4 DEF StateAdvances, Terminal, Active, Reserving
  <2>6. new = "purchased" => old = "purchased" \/ <<i, "purchased">> \in moved
    BY <2>2 DEF StateAdvances, ExpiredState
  <2>7. new = "cancelled" => old = "cancelled" \/ <<i, "cancelled">> \in moved
    BY <2>2 DEF StateAdvances, ExpiredState
  <2>8. in2 # "none" => i \in T2.started
    BY <2>1, <2>3 DEF AttemptKnown
  <2>9. new = "purchased" => in2 = "accepted"
    BY <2>1, <2>6 DEF AttemptKnown
  <2>10. new = "cancelled" => plan = "cancel"
    BY <2>1, <2>7 DEF AttemptKnown
  <2>11. Concluded \subseteq Terminal
    BY DEF Concluded, Terminal
  <2> QED
    BY <2>1, <2>3, <2>5, <2>8, <2>9, <2>10, <2>11 DEF AttemptKnown
<1>3. CASE OfUser(t2, u) = OfUser(t, u)
  <2>1. Known(t2, T2, u, in2, item, plan)
    BY <1>1, <1>2, <1>3 DEF Known
  <2> QED
    BY <1>1, <1>3, <2>1 DEF PairInv
<1>4. CASE OfUser(t2, u) # OfUser(t, u)
  <2>1. item.step = "new" /\ in2 = in /\ OfUser(t, u) = {}
    BY <1>1, <1>4
  <2>2. in = "none" /\ item.event = "none" /\ ~Playing(item) /\ item \in Items
    BY <1>1, <2>1 DEF Known, Playing
  <2>3. ASSUME NEW i \in OfUser(t2, u)
        PROVE  t2.attempts[i].state \in {"waiting", "checkout"}
    <3>1. i \notin DOMAIN t.attempts
      BY <2>1 DEF OfUser, Serves, Advances
    <3> QED
      BY <3>1 DEF OfUser, Serves, Newcomer
  <2>4. \A i \in OfUser(t2, u) :
          AttemptKnown(t2.attempts[i], i \in T2.started, in2, item, plan)
    BY <2>1, <2>2, <2>3 DEF AttemptKnown, Concluded
  <2>5. item.event \notin Concluded
    BY <2>2 DEF Concluded
  <2> QED
    BY <1>4, <2>1, <2>2, <2>4, <2>5 DEF Known
<1> QED
  BY <1>3, <1>4

-----------------------------------------------------------------------------
(***************************************************************************)
(* The inductive invariant of the scenario.                                *)
(***************************************************************************)
Planned(plans) == \A q \in Pairs : data.plan[q] \in plans \cup {"none"}

Scene ==
  /\ Planned(Plans) \/ Planned({"poll"})
  /\ products = [p \in Products |-> products[p]]
  /\ trail \in [Products -> [started : SUBSET Nat, late : SUBSET Nat]]
  /\ inbox = [q \in Pairs |-> inbox[q]]
  /\ items \in [Pairs -> Items]

PairHolds(q) == PairInv(products[ProductOf(q)], trail[ProductOf(q)], UserOf(q),
                        inbox[q], items[q], data.plan[q])

ScenarioInv ==
  /\ Scene
  /\ \A p \in Products : ProductInv(products[p], trail[p], data.stock[p])
  /\ \A q \in Pairs : PairHolds(q)

LEMMA PairParts ==
  ASSUME NEW q \in Pairs
  PROVE  UserOf(q) \in Users /\ ProductOf(q) \in Products /\ q = <<UserOf(q), ProductOf(q)>>
BY DEF Pairs, UserOf, ProductOf

LEMMA ScenarioStarts == Init => ScenarioInv
<1> SUFFICES ASSUME Init PROVE ScenarioInv
  OBVIOUS
<1>1. PICK plan \in Drawn(Plans) \cup Drawn({"poll"}), stock \in [Products -> InitialStocks] :
        data = [plan |-> plan, stock |-> stock]
  BY DEF Init, GenerateData
<1>2. data.plan = plan /\ data.stock = stock
  BY <1>1
<1>3. Planned(Plans) \/ Planned({"poll"})
  BY <1>1, <1>2 DEF Planned, Drawn
<1>4. /\ products = [p \in Products |->
             [stock |-> data.stock[p], reserved |-> 0, next |-> 1, enabled |-> TRUE,
              attempts |-> << >>, outbox |-> {}, failed |-> FALSE]]
      /\ trail = [p \in Products |-> [started |-> {}, late |-> {}]]
      /\ inbox = [q \in Pairs |-> "none"]
      /\ items = [q \in Pairs |-> Unplayed]
  BY DEF Init
<1>5. Unplayed \in Items /\ Unplayed.step = "new" /\ Unplayed.event = "none"
  BY DEF Unplayed, Items
<1>6. Scene
  BY <1>3, <1>4, <1>5 DEF Scene
<1>7. ASSUME NEW p \in Products
      PROVE  /\ ProductInv(products[p], trail[p], data.stock[p])
             /\ DOMAIN products[p].attempts = {}
  <2>1. data.stock[p] \in 0 .. MaxStock
    <3>1. InitialStocks \subseteq 1 .. MaxStock
      BY ConfigAssumption DEF Validate
    <3>2. data.stock[p] \in InitialStocks
      BY <1>2
    <3>3. data.stock[p] \in 1 .. MaxStock
      BY <3>1, <3>2
    <3> QED
      BY <3>3, BoundAssumption
  <2>2. PICK t : t = products[p]
    OBVIOUS
  <2>3. t = [stock |-> data.stock[p], reserved |-> 0, next |-> 1, enabled |-> TRUE,
             attempts |-> << >>, outbox |-> {}, failed |-> FALSE]
    BY <1>4, <2>2
  <2>4. Good(t) /\ Remembers(t)
    BY <2>1, <2>3, FreshIsGood
  <2>5. DOMAIN t.attempts = {} /\ t.stock = data.stock[p]
    BY <2>3
  <2>6. Bought(t) = {} /\ Cardinality(Bought(t)) = 0
    BY <2>5, FS_EmptySet DEF Bought, InState
  <2>7. trail[p] = [started |-> {}, late |-> {}]
    BY <1>4
  <2>8. t.stock + Cardinality(Bought(t)) = data.stock[p]
    BY <2>1, <2>5, <2>6, BoundAssumption
  <2> QED
    BY <2>2, <2>4, <2>5, <2>7, <2>8 DEF ProductInv
<1>8. ASSUME NEW q \in Pairs PROVE PairHolds(q)
  <2>1. OfUser(products[ProductOf(q)], UserOf(q)) = {}
    BY <1>7, PairParts DEF OfUser
  <2>2. items[q] = Unplayed /\ inbox[q] = "none"
    BY <1>4
  <2> QED
    BY <1>5, <2>1, <2>2 DEF PairHolds, PairInv, Known, Playing, Concluded
<1> QED
  BY <1>6, <1>7, <1>8 DEF ScenarioInv

-----------------------------------------------------------------------------
(***************************************************************************)
(* Steps that write a product, and what they leave to prove.               *)
(***************************************************************************)
LEMMA PutWrites ==
  ASSUME ScenarioInv, NEW p \in Products, NEW t, t = products[p], NEW t2, Put(p, t2),
         NEW u, NEW moved, Serves(t, t2, u, moved)
  PROVE  /\ products' = [o \in Products |-> products'[o]] /\ products'[p] = t2
         /\ trail' \in [Products -> [started : SUBSET Nat, late : SUBSET Nat]]
         /\ \A o \in Products : o # p => products'[o] = products[o] /\ trail'[o] = trail[o]
         /\ Trailed(t, trail[p], t2, trail'[p])
<1>1. /\ products = [o \in Products |-> products[o]]
      /\ trail \in [Products -> [started : SUBSET Nat, late : SUBSET Nat]]
  BY DEF ScenarioInv, Scene
<1>2. /\ products' = [products EXCEPT ![p] = t2]
      /\ trail' = [trail EXCEPT
           ![p].started = @ \cup InState(t2, {"checkout"}),
           ![p].late = @ \cup (Due(t) \cap InState(t2, Terminal))]
  BY DEF Put
<1>3. PICK started, late : /\ started = InState(t2, {"checkout"})
                           /\ late = Due(t) \cap InState(t2, Terminal)
  OBVIOUS
<1>4. started \subseteq Nat /\ late \subseteq Nat
  BY <1>3, Fields DEF Serves, Good, InState
<1>5. trail' = [trail EXCEPT ![p].started = @ \cup started, ![p].late = @ \cup late]
  BY <1>2, <1>3
<1>6. /\ trail' \in [Products -> [started : SUBSET Nat, late : SUBSET Nat]]
      /\ \A o \in Products : o # p => trail'[o] = trail[o]
      /\ trail'[p].started = trail[p].started \cup started
      /\ trail'[p].late = trail[p].late \cup late
  BY <1>1, <1>4, <1>5
<1>7. /\ products' = [o \in Products |-> products'[o]] /\ products'[p] = t2
      /\ \A o \in Products : o # p => products'[o] = products[o]
  BY <1>1, <1>2
<1> QED
  BY <1>3, <1>6, <1>7 DEF Trailed

LEMMA PutKeepsProducts ==
  ASSUME ScenarioInv, data' = data, NEW p \in Products, NEW t, t = products[p],
         NEW t2, Put(p, t2), NEW u, NEW moved, Serves(t, t2, u, moved),
         inbox' = [q \in Pairs |-> inbox'[q]], items' \in [Pairs -> Items]
  PROVE  /\ Scene'
         /\ \A o \in Products : ProductInv(products[o], trail[o], data.stock[o])'
<1>1. /\ products' = [o \in Products |-> products'[o]] /\ products'[p] = t2
      /\ trail' \in [Products -> [started : SUBSET Nat, late : SUBSET Nat]]
      /\ \A o \in Products : o # p => products'[o] = products[o] /\ trail'[o] = trail[o]
      /\ Trailed(t, trail[p], t2, trail'[p])
  BY PutWrites
<1>2. Scene'
  BY <1>1 DEF ScenarioInv, Scene, Planned
<1>3. ASSUME NEW o \in Products
      PROVE  ProductInv(products'[o], trail'[o], data'.stock[o])
  <2>1. ProductInv(products[o], trail[o], data.stock[o])
    BY DEF ScenarioInv
  <2>2. CASE o # p
    BY <1>1, <2>1, <2>2
  <2>3. CASE o = p
    <3>1. PICK T, T2, stock : T = trail[p] /\ T2 = trail'[p] /\ stock = data.stock[p]
      OBVIOUS
    <3>2. ProductInv(t, T, stock) /\ Trailed(t, T, t2, T2)
      BY <1>1, <2>1, <2>3, <3>1
    <3>3. ProductInv(t2, T2, stock)
      BY <3>2, PutKeepsProduct
    <3> QED
      BY <1>1, <2>3, <3>1, <3>3
  <2> QED
    BY <2>2, <2>3
<1> QED
  BY <1>2, <1>3

(* A pair whose user the transaction does not touch.                       *)
LEMMA OthersHold ==
  ASSUME ScenarioInv, data' = data, NEW p \in Products, NEW t, t = products[p],
         NEW t2, Put(p, t2), NEW u, NEW moved, Serves(t, t2, u, moved),
         NEW o \in Pairs, items'[o] = items[o], inbox'[o] = inbox[o],
         ProductOf(o) = p =>
           /\ OfUser(t2, UserOf(o)) = OfUser(t, UserOf(o))
           /\ \A i \in OfUser(t, UserOf(o)) :
                <<i, "purchased">> \notin moved /\ <<i, "cancelled">> \notin moved
  PROVE  PairHolds(o)'
<1>1. /\ products'[p] = t2
      /\ \A a \in Products : a # p => products'[a] = products[a] /\ trail'[a] = trail[a]
      /\ Trailed(t, trail[p], t2, trail'[p])
  BY PutWrites
<1>2. PairHolds(o) /\ ProductInv(products[p], trail[p], data.stock[p])
  BY DEF ScenarioInv
<1>3. CASE ProductOf(o) # p
  <2>1. /\ products'[ProductOf(o)] = products[ProductOf(o)]
        /\ trail'[ProductOf(o)] = trail[ProductOf(o)]
    BY <1>1, <1>3, PairParts
  <2> QED
    BY <1>2, <2>1 DEF PairHolds
<1>4. CASE ProductOf(o) = p
  <2>1. PICK T, T2, stock, in, item, plan :
          /\ T = trail[p] /\ T2 = trail'[p] /\ stock = data.stock[p]
          /\ in = inbox[o] /\ item = items[o] /\ plan = data.plan[o]
    OBVIOUS
  <2>2. ProductInv(t, T, stock) /\ Trailed(t, T, t2, T2)
    BY <1>1, <1>2, <2>1
  <2>3. PairInv(t, T, UserOf(o), in, item, plan)
    BY <1>2, <1>4, <2>1 DEF PairHolds
  <2>4. PairInv(t2, T2, UserOf(o), in, item, plan)
    BY <1>4, <2>2, <2>3, ServedStaysKnown
  <2> QED
    BY <1>1, <1>4, <2>1, <2>4 DEF PairHolds
<1> QED
  BY <1>3, <1>4

LEMMA UntouchedUser ==
  ASSUME NEW t, NEW t2, NEW u, NEW moved, Serves(t, t2, u, moved), NEW v, v # u
  PROVE  OfUser(t2, v) = OfUser(t, v)
BY DEF OfUser, Serves, Advances, Newcomer

(* A request about pair q: what is left is the pair itself.                *)
LEMMA RequestStep ==
  ASSUME ScenarioInv, data' = data, NEW q \in Pairs, NEW p, p = ProductOf(q),
         NEW u, u = UserOf(q), NEW t, t = products[p],
         NEW t2, Put(p, t2), NEW moved, Serves(t, t2, u, moved),
         \A i \in DOMAIN t.attempts :
           <<i, "purchased">> \in moved \/ <<i, "cancelled">> \in moved => i \in OfUser(t, u),
         inbox' = [o \in Pairs |-> inbox'[o]], items' \in [Pairs -> Items],
         \A o \in Pairs \ {q} : items'[o] = items[o] /\ inbox'[o] = inbox[o],
         PairInv(t2, trail'[p], u, inbox'[q], items'[q], data.plan[q])
  PROVE  ScenarioInv'
<1>1. p \in Products /\ u \in Users
  BY PairParts
<1>2. /\ Scene'
      /\ \A o \in Products : ProductInv(products[o], trail[o], data.stock[o])'
  BY <1>1, PutKeepsProducts
<1>3. products'[p] = t2
  BY <1>1, PutWrites, ZenonT(60)
<1>4. ASSUME NEW o \in Pairs PROVE PairHolds(o)'
  <2>1. CASE o = q
    BY <1>3, <2>1 DEF PairHolds
  <2>2. CASE o # q
    <3>1. ProductOf(o) = p => UserOf(o) # u
      BY <2>2, PairParts
    <3>2. ProductOf(o) = p => OfUser(t2, UserOf(o)) = OfUser(t, UserOf(o))
      BY <3>1, UntouchedUser
    <3>3. ProductOf(o) = p =>
            \A i \in OfUser(t, UserOf(o)) :
              <<i, "purchased">> \notin moved /\ <<i, "cancelled">> \notin moved
      BY <3>1 DEF OfUser
    <3>4. items'[o] = items[o] /\ inbox'[o] = inbox[o]
      BY <2>2
    <3> QED
      BY <1>1, <3>2, <3>3, <3>4, OthersHold
  <2> QED
    BY <2>1, <2>2
<1> QED
  BY <1>2, <1>4 DEF ScenarioInv

(* A step of k6 that reaches no product.                                   *)
LEMMA ItemStep ==
  ASSUME ScenarioInv, UNCHANGED <<data, products, trail>>, NEW q \in Pairs,
         inbox' = [o \in Pairs |-> inbox'[o]], items' \in [Pairs -> Items],
         \A o \in Pairs \ {q} : items'[o] = items[o] /\ inbox'[o] = inbox[o],
         PairHolds(q)'
  PROVE  ScenarioInv'
<1>1. Scene' /\ \A o \in Products : ProductInv(products[o], trail[o], data.stock[o])'
  BY DEF ScenarioInv, Scene, Planned
<1>2. ASSUME NEW o \in Pairs, o # q PROVE PairHolds(o)'
  BY <1>2 DEF ScenarioInv, PairHolds
<1> QED
  BY <1>1, <1>2 DEF ScenarioInv

(* The worker is about nobody.                                             *)
LEMMA WorkerStep ==
  ASSUME ScenarioInv, NEW p \in Products, Worker(p)
  PROVE  ScenarioInv'
<1>1. PICK t, T, stock : t = products[p] /\ T = trail[p] /\ stock = data.stock[p]
  OBVIOUS
<1>2. PICK t2 : t2 = ReconcileBounded(t, BatchLimit)
  OBVIOUS
<1>3. BatchLimit \in Nat
  BY ScenarioAssumption
<1>4. ProductInv(t, T, stock)
  BY <1>1 DEF ScenarioInv
<1>5. PICK nobody : nobody \notin Users
  BY NoSetContainsEverything
<1>6. PICK none : none = {}
  OBVIOUS
<1>7. Serves(t, t2, nobody, none)
  BY <1>2, <1>3, <1>4, <1>6, ReconcileServes
<1>8. Put(p, t2) /\ UNCHANGED <<data, inbox, items>>
  BY <1>1, <1>2 DEF Worker
<1>9. inbox' = [q \in Pairs |-> inbox'[q]] /\ items' \in [Pairs -> Items]
  BY <1>8 DEF ScenarioInv, Scene
<1>10. /\ Scene'
      /\ \A o \in Products : ProductInv(products[o], trail[o], data.stock[o])'
  BY <1>1, <1>7, <1>8, <1>9, PutKeepsProducts
<1>11. ASSUME NEW o \in Pairs PROVE PairHolds(o)'
  <2>1. UserOf(o) # nobody
    BY <1>5, PairParts
  <2>2. OfUser(t2, UserOf(o)) = OfUser(t, UserOf(o))
    BY <1>7, <2>1, UntouchedUser
  <2>3. data' = data /\ items'[o] = items[o] /\ inbox'[o] = inbox[o]
    BY <1>8
  <2>4. ProductOf(o) = p =>
          /\ OfUser(t2, UserOf(o)) = OfUser(t, UserOf(o))
          /\ \A i \in OfUser(t, UserOf(o)) :
               <<i, "purchased">> \notin none /\ <<i, "cancelled">> \notin none
    BY <1>6, <2>2
  <2>5. t = products[p] /\ Put(p, t2)
    BY <1>1, <1>8
  <2> QED
    BY <1>7, <2>3, <2>4, <2>5, OthersHold
<1> QED
  BY <1>10, <1>11 DEF ScenarioInv

-----------------------------------------------------------------------------
(***************************************************************************)
(* The steps of k6.                                                        *)
(***************************************************************************)
(* What a pair that is being played, or may be joined, has behind it.      *)
LEMMA PairFacts ==
  ASSUME ScenarioInv, NEW q \in Pairs
  PROVE  /\ items[q] \in Items
         /\ PairInv(products[ProductOf(q)], trail[ProductOf(q)], UserOf(q),
                    inbox[q], items[q], data.plan[q])
         /\ ProductInv(products[ProductOf(q)], trail[ProductOf(q)], data.stock[ProductOf(q)])
         /\ items[q].step # "new" => data.plan[q] # "none"
         /\ Playing(items[q]) =>
              /\ AttemptOf(q) \in OfUser(products[ProductOf(q)], UserOf(q))
              /\ AttemptOf(q) \in DOMAIN products[ProductOf(q)].attempts
<1>1. PairHolds(q) /\ items[q] \in Items
  BY DEF ScenarioInv, Scene
<1>2. ProductInv(products[ProductOf(q)], trail[ProductOf(q)], data.stock[ProductOf(q)])
  BY PairParts DEF ScenarioInv
<1>3. Playing(items[q]) => AttemptOf(q) \in OfUser(products[ProductOf(q)], UserOf(q))
  BY <1>1 DEF PairHolds, PairInv, Known, AttemptOf, AttemptsOf
<1> QED
  BY <1>1, <1>2, <1>3 DEF PairHolds, PairInv, Known, OfUser

(* StateIn is the state of the one attempt.                                *)
LEMMA StateInIs ==
  ASSUME NEW t, NEW T, NEW stock, ProductInv(t, T, stock), NEW q,
         NEW i \in OfUser(t, UserOf(q))
  PROVE  StateIn(t, q) = t.attempts[i].state /\ StateIn(t, q) \in Active \cup Terminal
<1>1. PICK j : j = CHOOSE k \in OfUser(t, UserOf(q)) : TRUE
  OBVIOUS
<1>2. j \in OfUser(t, UserOf(q)) /\ StateIn(t, q) = t.attempts[j].state
  BY <1>1 DEF StateIn
<1>3. i = j
  BY <1>2, OneAttempt
<1>4. t.attempts[i].state \in Active \cup Terminal
  BY Fields DEF ProductInv, Good, OfUser
<1> QED
  BY <1>2, <1>3, <1>4

(* Writing one item.                                                       *)
LEMMA ItemWrites ==
  ASSUME items \in [Pairs -> Items], NEW q \in Pairs, NEW item \in Items,
         items' = [items EXCEPT ![q] = item]
  PROVE  /\ items' \in [Pairs -> Items] /\ items'[q] = item
         /\ \A o \in Pairs \ {q} : items'[o] = items[o]
OBVIOUS

(* emitOutcome ends the play of a pair with a true event.                  *)
LEMMA EmitKnown ==
  ASSUME NEW t, NEW T, NEW u, NEW in, NEW item, NEW plan, Known(t, T, u, in, item, plan),
         plan # "none", NEW outcome \in Events, NEW item2,
         item2 = [Unplayed EXCEPT !.step = "done", !.event = outcome],
         outcome \in Concluded \ {"sold_out"} => OfUser(t, u) # {},
         \A i \in OfUser(t, u) :
           /\ outcome \in Concluded => t.attempts[i].state = outcome
           /\ outcome # "queue_rejected"
  PROVE  item2 \in Items /\ PairInv(t, T, u, in, item2, plan)
<1>1. /\ item2.step = "done" /\ item2.event = outcome
      /\ item2.entry = "none" /\ item2.sent = FALSE /\ item2 \in Items
  BY DEF Unplayed, Items
<1>2. outcome # "none"
  BY DEF Events, Concluded
<1>3. Known(t, T, u, in, item2, plan)
  BY <1>1, <1>2 DEF Known, AttemptKnown, Playing
<1> QED
  BY <1>1, <1>3 DEF PairInv

(* An answer notes the state of the attempt, or nothing.                   *)
LEMMA NoteKnown ==
  ASSUME NEW t, NEW T, NEW u, NEW in, NEW item, NEW plan, Known(t, T, u, in, item, plan),
         plan # "none", OfUser(t, u) # {}, item.step # "done",
         NEW item2 \in Items, item2.step \in {"act", "poll"}, item2.event = item.event,
         \/ Playing(item) /\ item2.entry = item.entry
         \/ /\ item2.entry = "checkout"
            /\ \A i \in OfUser(t, u) : i \in T.started
         \/ /\ item2.entry # "none"
            /\ \A i \in OfUser(t, u) :
                 /\ t.attempts[i].state = item2.entry
                 /\ item2.entry = "checkout" => i \in T.started
  PROVE  PairInv(t, T, u, in, item2, plan)
<1>1. ASSUME NEW i \in OfUser(t, u)
      PROVE  AttemptKnown(t.attempts[i], i \in T.started, in, item2, plan)
  <2>1. AttemptKnown(t.attempts[i], i \in T.started, in, item, plan)
    BY DEF Known
  <2>2. "checkout" \notin Terminal
    BY DEF Terminal
  <2> QED
    BY <2>1, <2>2 DEF AttemptKnown, Playing
<1>2. item2.entry # "none"
  BY DEF Known
<1>3. Known(t, T, u, in, item2, plan)
  BY <1>1, <1>2 DEF Known, Playing
<1> QED
  BY <1>3 DEF PairInv

(* What is known of pair q once its request has been served.               *)
LEMMA RequestKnown ==
  ASSUME ScenarioInv, NEW q \in Pairs, NEW p, p = ProductOf(q),
         NEW u, u = UserOf(q), NEW t, t = products[p],
         NEW t2, Put(p, t2), NEW moved, Serves(t, t2, u, moved), NEW in2,
         OfUser(t2, u) = OfUser(t, u) \/ (items[q].step = "new" /\ in2 = inbox[q]),
         \/ in2 = inbox[q]
         \/ /\ inbox[q] \in {"none", "open"} /\ in2 # "none" /\ data.plan[q] = "purchase"
            /\ Playing(items[q]) /\ items[q].entry = "checkout",
         \A i \in OfUser(t, u) :
           /\ <<i, "purchased">> \in moved => in2 = "accepted"
           /\ <<i, "cancelled">> \in moved => data.plan[q] = "cancel"
  PROVE  /\ Known(t2, trail'[p], u, in2, items[q], data.plan[q])
         /\ ProductInv(t2, trail'[p], data.stock[p])
         /\ InState(t2, {"checkout"}) \subseteq trail'[p].started
<1>1. p \in Products
  BY PairParts
<1>2. Trailed(t, trail[p], t2, trail'[p])
  BY <1>1, PutWrites
<1>3. PICK T, T2, stock, in, item, plan :
        /\ T = trail[p] /\ T2 = trail'[p] /\ stock = data.stock[p]
        /\ in = inbox[q] /\ item = items[q] /\ plan = data.plan[q]
  OBVIOUS
<1>4. ProductInv(t, T, stock) /\ Trailed(t, T, t2, T2) /\ PairInv(t, T, u, in, item, plan)
  BY <1>2, <1>3, PairFacts
<1>5. Playing(item) => OfUser(t, u) # {}
  BY <1>4 DEF PairInv, Known
<1>6. Playing(item) /\ item.entry = "checkout" => \A i \in OfUser(t, u) : i \in T.started
  BY <1>4 DEF PairInv, Known, AttemptKnown
<1>7. Known(t2, T2, u, in2, item, plan)
  BY <1>3, <1>4, <1>5, <1>6, ServedStaysKnown
<1>8. ProductInv(t2, T2, stock)
  BY <1>4, PutKeepsProduct
<1> QED
  BY <1>2, <1>3, <1>7, <1>8 DEF Trailed

(* The whole step of a request, and of k6 on its own.                      *)
LEMMA RequestWrites ==
  ASSUME ScenarioInv, data' = data, NEW q \in Pairs, NEW p, p = ProductOf(q),
         NEW u, u = UserOf(q), NEW t, t = products[p],
         NEW t2, Put(p, t2), NEW moved, Serves(t, t2, u, moved),
         \A i \in DOMAIN t.attempts :
           <<i, "purchased">> \in moved \/ <<i, "cancelled">> \in moved => i \in OfUser(t, u),
         NEW in2, inbox' = [inbox EXCEPT ![q] = in2],
         NEW item2 \in Items, items' = [items EXCEPT ![q] = item2],
         PairInv(t2, trail'[p], u, in2, item2, data.plan[q])
  PROVE  ScenarioInv'
<1>1. items \in [Pairs -> Items] /\ inbox = [o \in Pairs |-> inbox[o]]
  BY DEF ScenarioInv, Scene
<1>2. /\ items' \in [Pairs -> Items] /\ items'[q] = item2
      /\ \A o \in Pairs \ {q} : items'[o] = items[o]
  BY <1>1, ItemWrites
<1>3. /\ inbox' = [o \in Pairs |-> inbox'[o]] /\ inbox'[q] = in2
      /\ \A o \in Pairs \ {q} : inbox'[o] = inbox[o]
  BY <1>1
<1>4. PairInv(t2, trail'[p], u, inbox'[q], items'[q], data.plan[q])
  BY <1>2, <1>3
<1> QED
  BY <1>2, <1>3, <1>4, RequestStep

LEMMA ItemOnly ==
  ASSUME ScenarioInv, UNCHANGED <<data, products, trail>>, NEW q \in Pairs,
         NEW in2, inbox' = [inbox EXCEPT ![q] = in2],
         NEW item2 \in Items, items' = [items EXCEPT ![q] = item2],
         PairInv(products[ProductOf(q)], trail[ProductOf(q)], UserOf(q),
                 in2, item2, data.plan[q])
  PROVE  ScenarioInv'
<1>1. items \in [Pairs -> Items] /\ inbox = [o \in Pairs |-> inbox[o]]
  BY DEF ScenarioInv, Scene
<1>2. /\ items' \in [Pairs -> Items] /\ items'[q] = item2
      /\ \A o \in Pairs \ {q} : items'[o] = items[o]
  BY <1>1, ItemWrites
<1>3. /\ inbox' = [o \in Pairs |-> inbox'[o]] /\ inbox'[q] = in2
      /\ \A o \in Pairs \ {q} : inbox'[o] = inbox[o]
  BY <1>1
<1>4. PairHolds(q)'
  BY <1>2, <1>3 DEF PairHolds
<1> QED
  BY <1>2, <1>3, <1>4, ItemStep

(* A join, whose answer may get lost.                                      *)
LEMMA JoinedKnown ==
  ASSUME ScenarioInv, NEW q \in Pairs, NEW p, p = ProductOf(q),
         NEW u, u = UserOf(q), NEW t, t = products[p],
         items[q].step = "new", NEW t2 \in Joined(q), Put(p, t2)
  PROVE  /\ Serves(t, t2, u, {})
         /\ Known(t2, trail'[p], u, inbox[q], items[q], data.plan[q])
         /\ ProductInv(t2, trail'[p], data.stock[p])
         /\ InState(t2, {"checkout"}) \subseteq trail'[p].started
<1>1. PICK percent \in Percents : t2 = JoinTx(t, u, u, percent)
  BY DEF Joined
<1>2. PICK T, stock : T = trail[p] /\ stock = data.stock[p]
  OBVIOUS
<1>3. ProductInv(t, T, stock)
  BY <1>2, PairFacts
<1>4. percent \in Nat /\ u \in Users \cap Keys
  BY PairParts, ScenarioAssumption
<1>5. ~t2.failed
  BY DEF Put
<1>6. Serves(t, t2, u, {})
  BY <1>1, <1>3, <1>4, <1>5, JoinServes
<1>7. PICK in2, none : in2 = inbox[q] /\ none = {}
  OBVIOUS
<1>8. /\ Known(t2, trail'[p], u, in2, items[q], data.plan[q])
      /\ ProductInv(t2, trail'[p], data.stock[p])
      /\ InState(t2, {"checkout"}) \subseteq trail'[p].started
  BY <1>6, <1>7, RequestKnown
<1> QED
  BY <1>6, <1>7, <1>8

LEMMA JoinStep ==
  ASSUME ScenarioInv, NEW q \in Pairs, Join(q)
  PROVE  ScenarioInv'
<1>1. PICK p, u, t : p = ProductOf(q) /\ u = UserOf(q) /\ t = products[p]
  OBVIOUS
<1>2. PICK t2 \in Joined(q) :
        /\ Put(p, t2)
        /\ IF OfUser(t2, u) # {}
           THEN items' = [items EXCEPT ![q].step = "act", ![q].entry = StateIn(t2, q)]
           ELSE Emits(q, IF t2.stock = 0 THEN "sold_out" ELSE "queue_rejected")
  BY <1>1 DEF Join
<1>3. /\ items[q].step = "new" /\ q \in Assigned
      /\ UNCHANGED <<data, inbox>>
  BY DEF Join
<1>4. /\ Serves(t, t2, u, {})
      /\ Known(t2, trail'[p], u, inbox[q], items[q], data.plan[q])
      /\ ProductInv(t2, trail'[p], data.stock[p])
      /\ InState(t2, {"checkout"}) \subseteq trail'[p].started
  BY <1>1, <1>2, <1>3, JoinedKnown
<1>5. PICK T2, stock, in, item, plan :
        /\ T2 = trail'[p] /\ stock = data.stock[p]
        /\ in = inbox[q] /\ item = items[q] /\ plan = data.plan[q]
  OBVIOUS
<1>6. items \in [Pairs -> Items] /\ inbox = [o \in Pairs |-> inbox[o]] /\ item \in Items
  BY <1>5 DEF ScenarioInv, Scene
<1>7. plan # "none" /\ item.event = "none"
  BY <1>3, <1>4, <1>5 DEF Assigned, Known
<1>8. \E item2 \in Items : /\ items' = [items EXCEPT ![q] = item2]
                            /\ PairInv(t2, T2, u, in, item2, plan)
  <2>1. CASE OfUser(t2, u) # {}
    <3>1. PICK i : i \in OfUser(t2, u)
      BY <2>1
    <3>2. PICK entry : entry = StateIn(t2, q)
      OBVIOUS
    <3>3. \A j \in OfUser(t2, u) : /\ t2.attempts[j].state = entry
                                    /\ entry \in Active \cup Terminal
      BY <1>1, <1>4, <1>5, <3>2, StateInIs
    <3>4. PICK item2 : item2 = [item EXCEPT !.step = "act", !.entry = entry]
      OBVIOUS
    <3>5. items' = [items EXCEPT ![q] = item2]
      BY <1>2, <1>5, <1>6, <2>1, <3>2, <3>4
    <3>6. /\ item2 \in Items /\ item2.step = "act" /\ item2.entry = entry
          /\ item2.event = item.event
      BY <1>6, <3>1, <3>3, <3>4 DEF Items
    <3>7. entry # "none"
      BY <3>1, <3>3 DEF Active, Reserving, Terminal
    <3>8. entry = "checkout" => \A j \in OfUser(t2, u) : j \in T2.started
      BY <1>4, <1>5, <3>3 DEF InState, OfUser
    <3>9. PairInv(t2, T2, u, in, item2, plan)
      BY <1>3, <1>4, <1>5, <1>7, <2>1, <3>3, <3>6, <3>7, <3>8, NoteKnown
    <3> QED
      BY <3>5, <3>6, <3>9
  <2>2. CASE OfUser(t2, u) = {}
    <3>1. PICK outcome \in {"sold_out", "queue_rejected"} : Emits(q, outcome)
      BY <1>2, <2>2
    <3>2. PICK item2 : item2 = [Unplayed EXCEPT !.step = "done", !.event = outcome]
      OBVIOUS
    <3>3. outcome \in Events /\ outcome \notin Concluded \ {"sold_out"}
      BY DEF Events, Concluded
    <3>4. item2 \in Items /\ PairInv(t2, T2, u, in, item2, plan)
      BY <1>4, <1>5, <1>7, <2>2, <3>2, <3>3, EmitKnown
    <3> QED
      BY <3>1, <3>2, <3>4 DEF Emits
  <2> QED
    BY <2>1, <2>2
<1>9. PICK item2 \in Items : /\ items' = [items EXCEPT ![q] = item2]
                             /\ PairInv(t2, T2, u, in, item2, plan)
  BY <1>8
<1>10. PICK none : none = {}
  OBVIOUS
<1>11. Serves(t, t2, u, none) /\ data' = data
  BY <1>3, <1>4, <1>10
<1>12. \A i \in DOMAIN t.attempts :
         <<i, "purchased">> \in none \/ <<i, "cancelled">> \in none => i \in OfUser(t, u)
  BY <1>10
<1>13. inbox' = [inbox EXCEPT ![q] = in]
  BY <1>3, <1>5, <1>6
<1>14. PairInv(t2, trail'[p], u, in, item2, data.plan[q])
  BY <1>5, <1>9
<1> QED
  BY <1>1, <1>2, <1>9, <1>11, <1>12, <1>13, <1>14, RequestWrites

LEMMA LoseJoinStep ==
  ASSUME ScenarioInv, NEW q \in Pairs, LoseJoin(q)
  PROVE  ScenarioInv'
<1>1. PICK p, u, t, T, in, item, plan, item2, none :
        /\ p = ProductOf(q) /\ u = UserOf(q) /\ t = products[p] /\ T = trail[p]
        /\ in = inbox[q] /\ item = items[q] /\ plan = data.plan[q] /\ none = {}
        /\ item2 = [Unplayed EXCEPT !.step = "done", !.event = "unresolved"]
  OBVIOUS
<1>2. /\ item.step = "new" /\ plan # "none" /\ UNCHANGED <<data, inbox>>
      /\ items' = [items EXCEPT ![q] = item2]
  BY <1>1 DEF LoseJoin, Assigned, Emits
<1>3. inbox' = [inbox EXCEPT ![q] = in]
  BY <1>1, <1>2 DEF ScenarioInv, Scene
<1>4. "unresolved" \in Events /\ "unresolved" \notin Concluded
  BY DEF Events, Concluded
<1>5. CASE \E t2 \in Joined(q) : Put(p, t2)
  <2>1. PICK t2 \in Joined(q) : Put(p, t2)
    BY <1>5
  <2>2. Serves(t, t2, u, none) /\ Known(t2, trail'[p], u, in, item, plan)
    BY <1>1, <1>2, <2>1, JoinedKnown
  <2>3. PICK T2 : T2 = trail'[p]
    OBVIOUS
  <2>4. item2 \in Items /\ PairInv(t2, T2, u, in, item2, plan)
    BY <1>1, <1>2, <1>4, <2>2, <2>3, EmitKnown
  <2>5. \A i \in DOMAIN t.attempts :
          <<i, "purchased">> \in none \/ <<i, "cancelled">> \in none => i \in OfUser(t, u)
    BY <1>1
  <2>6. PairInv(t2, trail'[p], u, in, item2, data.plan[q]) /\ data' = data
    BY <1>1, <1>2, <2>3, <2>4
  <2> QED
    BY <1>1, <1>2, <1>3, <2>1, <2>2, <2>4, <2>5, <2>6, RequestWrites
<1>6. CASE UNCHANGED <<products, trail>>
  <2>1. Known(t, T, u, in, item, plan)
    BY <1>1, PairFacts DEF PairInv
  <2>2. item2 \in Items /\ PairInv(t, T, u, in, item2, plan)
    BY <1>1, <1>2, <1>4, <2>1, EmitKnown
  <2> QED
    BY <1>1, <1>2, <1>3, <1>6, <2>2, ItemOnly
<1> QED
  BY <1>1, <1>5, <1>6 DEF LoseJoin

(* An answer that is not noted, and one that says checkout.                *)
LEMMA UnansweredKnown ==
  ASSUME items \in [Pairs -> Items], NEW q \in Pairs, Unanswered(q), Playing(items[q]),
         NEW t, NEW T, NEW u, NEW in, NEW plan, plan # "none",
         Known(t, T, u, in, items[q], plan)
  PROVE  \E item2 \in Items : /\ items' = [items EXCEPT ![q] = item2]
                               /\ PairInv(t, T, u, in, item2, plan)
<1>1. PICK item, item2 : item = items[q] /\ item2 = [item EXCEPT !.step = "poll"]
  OBVIOUS
<1>2. item \in Items
  BY <1>1
<1>3. /\ item2 \in Items /\ item2.step = "poll"
      /\ item2.entry = item.entry /\ item2.event = item.event
  BY <1>1, <1>2 DEF Items
<1>4. items' = [items EXCEPT ![q] = item2]
  BY <1>1 DEF Unanswered
<1>5. Known(t, T, u, in, item, plan) /\ Playing(item)
  BY <1>1
<1>6. OfUser(t, u) # {} /\ item.step # "done"
  BY <1>5 DEF Known, Playing
<1>7. PairInv(t, T, u, in, item2, plan)
  BY <1>3, <1>5, <1>6, NoteKnown
<1> QED
  BY <1>3, <1>4, <1>7

LEMMA AnsweredKnown ==
  ASSUME items \in [Pairs -> Items], NEW q \in Pairs, NEW sent \in BOOLEAN,
         Answered(q, "checkout", sent), Playing(items[q]),
         NEW t, NEW T, NEW u, NEW in, NEW plan, plan # "none",
         Known(t, T, u, in, items[q], plan),
         \A i \in OfUser(t, u) : i \in T.started
  PROVE  \E item2 \in Items : /\ items' = [items EXCEPT ![q] = item2]
                               /\ PairInv(t, T, u, in, item2, plan)
<1>1. PICK item, item2 :
        /\ item = items[q]
        /\ item2 = [item EXCEPT !.step = "poll", !.entry = "checkout", !.sent = sent]
  OBVIOUS
<1>2. item \in Items
  BY <1>1
<1>3. /\ item2 \in Items /\ item2.step = "poll"
      /\ item2.entry = "checkout" /\ item2.event = item.event
  BY <1>1, <1>2 DEF Items, Active, Reserving
<1>4. items' = [items EXCEPT ![q] = item2]
  BY <1>1 DEF Answered
<1>5. Known(t, T, u, in, item, plan) /\ Playing(item)
  BY <1>1
<1>6. OfUser(t, u) # {} /\ item.step # "done"
  BY <1>5 DEF Known, Playing
<1>7. PairInv(t, T, u, in, item2, plan)
  BY <1>3, <1>5, <1>6, NoteKnown
<1> QED
  BY <1>3, <1>4, <1>7

LEMMA StartCheckoutStep ==
  ASSUME ScenarioInv, NEW q \in Pairs, StartCheckout(q)
  PROVE  ScenarioInv'
<1>1. PICK p, u, t, in, item, plan, i :
        /\ p = ProductOf(q) /\ u = UserOf(q) /\ t = products[p] /\ i = AttemptOf(q)
        /\ in = inbox[q] /\ item = items[q] /\ plan = data.plan[q]
  OBVIOUS
<1>2. PICK t2, moved : t2 = StartCheckoutTx(t, i, u) /\ moved = {<<i, "checkout">>}
  OBVIOUS
<1>3. /\ item.step = "act" /\ item.entry = "invited" /\ UNCHANGED <<data, inbox>>
      /\ Put(p, t2)
      /\ \/ StateIn(t2, q) = "checkout" /\ Answered(q, "checkout", FALSE)
         \/ Unanswered(q)
  BY <1>1, <1>2 DEF StartCheckout, Acting
<1>4. PICK T, stock : T = trail[p] /\ stock = data.stock[p]
  OBVIOUS
<1>5. /\ ProductInv(t, T, stock) /\ i \in DOMAIN t.attempts /\ i \in OfUser(t, u)
      /\ plan # "none" /\ item \in Items
  BY <1>1, <1>3, <1>4, PairFacts DEF Playing
<1>6. Serves(t, t2, u, moved)
  BY <1>2, <1>5, StartCheckoutServes
<1>7. OfUser(t2, u) = OfUser(t, u)
  <2>1. DOMAIN t2.attempts = DOMAIN t.attempts
    BY <1>2, <1>5, StartCheckoutAdvances DEF ProductInv
  <2> QED
    BY <1>6, <2>1 DEF OfUser, Serves, Advances
<1>8. \A k, s : <<k, s>> \in moved => s = "checkout"
  BY <1>2
<1>9. /\ Known(t2, trail'[p], u, in, item, plan)
      /\ ProductInv(t2, trail'[p], stock)
      /\ InState(t2, {"checkout"}) \subseteq trail'[p].started
  BY <1>1, <1>3, <1>4, <1>6, <1>7, <1>8, RequestKnown
<1>10. PICK T2 : T2 = trail'[p]
  OBVIOUS
<1>11. items \in [Pairs -> Items] /\ inbox' = [inbox EXCEPT ![q] = in]
  BY <1>1, <1>3 DEF ScenarioInv, Scene
<1>12. \E item2 \in Items : /\ items' = [items EXCEPT ![q] = item2]
                             /\ PairInv(t2, T2, u, in, item2, plan)
  <2>1. CASE Unanswered(q)
    BY <1>1, <1>3, <1>5, <1>9, <1>10, <1>11, <2>1, UnansweredKnown DEF Playing
  <2>2. CASE StateIn(t2, q) = "checkout" /\ Answered(q, "checkout", FALSE)
    <3>1. \A j \in OfUser(t2, u) : t2.attempts[j].state = "checkout"
      BY <1>1, <1>9, <1>10, <2>2, StateInIs
    <3>2. \A j \in OfUser(t2, u) : j \in T2.started
      BY <1>9, <1>10, <3>1 DEF InState, OfUser
    <3>3. Answered(q, "checkout", FALSE) /\ FALSE \in BOOLEAN
      BY <2>2
    <3> QED
      BY <1>1, <1>3, <1>5, <1>7, <1>9, <1>10, <1>11, <3>2, <3>3, AnsweredKnown DEF Playing
  <2> QED
    BY <1>3, <2>1, <2>2
<1>13. PICK item2 \in Items : /\ items' = [items EXCEPT ![q] = item2]
                              /\ PairInv(t2, T2, u, in, item2, plan)
  BY <1>12
<1>14. \A k \in DOMAIN t.attempts :
         <<k, "purchased">> \in moved \/ <<k, "cancelled">> \in moved => k \in OfUser(t, u)
  BY <1>8
<1>15. PairInv(t2, trail'[p], u, in, item2, data.plan[q]) /\ data' = data
  BY <1>1, <1>3, <1>10, <1>13
<1> QED
  BY <1>1, <1>3, <1>6, <1>11, <1>13, <1>14, <1>15, RequestWrites

LEMMA CancelStep ==
  ASSUME ScenarioInv, NEW q \in Pairs, Cancel(q)
  PROVE  ScenarioInv'
<1>1. PICK p, u, t, in, item, plan, T, stock :
        /\ p = ProductOf(q) /\ u = UserOf(q) /\ t = products[p]
        /\ in = inbox[q] /\ item = items[q] /\ plan = data.plan[q]
        /\ T = trail[p] /\ stock = data.stock[p]
  OBVIOUS
<1>2. PICK t2 : t2 = CancelTx(t, u)
  OBVIOUS
<1>3. /\ item.step = "act" /\ item.entry = "checkout" /\ plan = "cancel"
      /\ UNCHANGED <<data, inbox>> /\ Put(p, t2)
      /\ Answered(q, "checkout", TRUE) \/ Unanswered(q)
  BY <1>1, <1>2 DEF Cancel, Acting
<1>4. ProductInv(t, T, stock) /\ Known(t, T, u, in, item, plan) /\ Playing(item)
  BY <1>1, <1>3, PairFacts DEF Playing, PairInv
<1>5. PICK i \in OfUser(t, u) \cup {0} : Serves(t, t2, u, {<<i, "cancelled">>})
  BY <1>2, <1>4, CancelServes
<1>6. PICK moved : moved = {<<i, "cancelled">>}
  OBVIOUS
<1>7. OfUser(t2, u) = OfUser(t, u)
  <2>1. DOMAIN t2.attempts = DOMAIN t.attempts
    BY <1>2, <1>4, CancelAdvances DEF ProductInv
  <2> QED
    BY <1>5, <2>1 DEF OfUser, Serves, Advances
<1>8. /\ \A k, s : <<k, s>> \in moved => s # "purchased" /\ k = i
      /\ Serves(t, t2, u, moved)
  BY <1>5, <1>6
<1>9. Known(t2, trail'[p], u, in, item, plan)
  BY <1>1, <1>3, <1>7, <1>8, RequestKnown
<1>10. PICK T2 : T2 = trail'[p]
  OBVIOUS
<1>11. items \in [Pairs -> Items] /\ inbox' = [inbox EXCEPT ![q] = in]
  BY <1>1, <1>3 DEF ScenarioInv, Scene
<1>12. \A j \in OfUser(t2, u) : j \in T2.started
  <2>1. \A j \in OfUser(t, u) : j \in T.started
    BY <1>3, <1>4 DEF Known, AttemptKnown
  <2>2. T.started \subseteq T2.started
    BY <1>1, <1>3, <1>8, <1>10, PairParts, PutWrites DEF Trailed
  <2> QED
    BY <1>7, <2>1, <2>2
<1>13. PICK item2 \in Items : /\ items' = [items EXCEPT ![q] = item2]
                              /\ PairInv(t2, T2, u, in, item2, plan)
  <2>1. CASE Unanswered(q)
    BY <1>1, <1>3, <1>4, <1>9, <1>10, <1>11, <2>1, UnansweredKnown
  <2>2. CASE Answered(q, "checkout", TRUE)
    <3>1. TRUE \in BOOLEAN
      OBVIOUS
    <3> QED
      BY <1>1, <1>3, <1>4, <1>9, <1>10, <1>11, <1>12, <2>2, <3>1, AnsweredKnown
  <2> QED
    BY <1>3, <2>1, <2>2
<1>14. \A k \in DOMAIN t.attempts :
         <<k, "purchased">> \in moved \/ <<k, "cancelled">> \in moved => k \in OfUser(t, u)
  <2>1. 0 \notin DOMAIN t.attempts
    BY <1>4, Fields DEF ProductInv, Good
  <2> QED
    BY <1>8, <2>1
<1>15. PairInv(t2, trail'[p], u, in, item2, data.plan[q]) /\ data' = data
  BY <1>1, <1>3, <1>10, <1>13
<1> QED
  BY <1>1, <1>3, <1>8, <1>11, <1>13, <1>14, <1>15, RequestWrites

(* A payment that is processed.                                            *)
LEMMA ApplyPaymentStep ==
  ASSUME ScenarioInv, NEW q \in Pairs, Acting(q, "checkout"), data.plan[q] = "purchase",
         ApplyPayment(q), data' = data
  PROVE  ScenarioInv'
<1>1. PICK p, u, t, i, in, item, plan, T, stock :
        /\ p = ProductOf(q) /\ u = UserOf(q) /\ t = products[p] /\ i = AttemptOf(q)
        /\ in = inbox[q] /\ item = items[q] /\ plan = data.plan[q]
        /\ T = trail[p] /\ stock = data.stock[p]
  OBVIOUS
<1>2. PICK t2, code, moved :
        /\ t2 = PaymentTx(t, i, "succeeded", u, {})
        /\ code = PaymentCode(Reconcile(t), i, "succeeded", u, {})
        /\ moved = IF code = "accepted" THEN {<<i, "purchased">>} ELSE {}
  OBVIOUS
<1>3. /\ item.step = "act" /\ item.entry = "checkout" /\ plan = "purchase"
      /\ in \in {"none", "open"} /\ Put(p, t2) /\ inbox' = [inbox EXCEPT ![q] = code]
      /\ (code = "accepted" /\ Paid(q)) \/ Unanswered(q)
  BY <1>1, <1>2 DEF Acting, ApplyPayment
<1>4. /\ ProductInv(t, T, stock) /\ Known(t, T, u, in, item, plan) /\ Playing(item)
      /\ i \in OfUser(t, u) /\ i \in DOMAIN t.attempts
  BY <1>1, <1>3, PairFacts DEF Playing, PairInv
<1>5. u \in References
  BY <1>1, PairParts, ScenarioAssumption
<1>6. Serves(t, t2, u, moved)
  BY <1>2, <1>4, <1>5, PaymentServes
<1>7. OfUser(t2, u) = OfUser(t, u)
  <2>1. DOMAIN t2.attempts = DOMAIN t.attempts
    BY <1>2, <1>4, <1>5, PaymentAdvances DEF ProductInv
  <2> QED
    BY <1>6, <2>1 DEF OfUser, Serves, Advances
<1>8. \A k, s : <<k, s>> \in moved => s = "purchased" /\ k = i /\ code = "accepted"
  BY <1>2
<1>9. code # "none"
  BY <1>2 DEF PaymentCode
<1>10. Known(t2, trail'[p], u, code, item, plan)
  <2>1. /\ inbox[q] \in {"none", "open"} /\ code # "none" /\ data.plan[q] = "purchase"
        /\ Playing(items[q]) /\ items[q].entry = "checkout"
    BY <1>1, <1>3, <1>4, <1>9
  <2>2. \A j \in OfUser(t, u) :
          /\ <<j, "purchased">> \in moved => code = "accepted"
          /\ <<j, "cancelled">> \in moved => data.plan[q] = "cancel"
    BY <1>8
  <2>3. Known(t2, trail'[p], u, code, items[q], data.plan[q])
    BY <1>1, <1>3, <1>6, <1>7, <2>1, <2>2, RequestKnown
  <2> QED
    BY <1>1, <2>3
<1>11. PICK T2 : T2 = trail'[p]
  OBVIOUS
<1>12. items \in [Pairs -> Items]
  BY DEF ScenarioInv, Scene
<1>13. \A j \in OfUser(t2, u) : j \in T2.started
  BY <1>9, <1>10, <1>11 DEF Known, AttemptKnown
<1>14. PICK item2 \in Items : /\ items' = [items EXCEPT ![q] = item2]
                              /\ PairInv(t2, T2, u, code, item2, plan)
  <2>1. CASE Unanswered(q)
    BY <1>1, <1>3, <1>4, <1>10, <1>11, <1>12, <2>1, UnansweredKnown
  <2>2. CASE Paid(q)
    <3>1. Answered(q, "checkout", TRUE) /\ TRUE \in BOOLEAN
      BY <2>2 DEF Paid
    <3> QED
      BY <1>1, <1>3, <1>4, <1>10, <1>11, <1>12, <1>13, <3>1, AnsweredKnown
  <2> QED
    BY <1>3, <2>1, <2>2
<1>15. \A k \in DOMAIN t.attempts :
         <<k, "purchased">> \in moved \/ <<k, "cancelled">> \in moved => k \in OfUser(t, u)
  BY <1>4, <1>8
<1>16. PairInv(t2, trail'[p], u, code, item2, data.plan[q])
  BY <1>1, <1>11, <1>14
<1> QED
  BY <1>1, <1>3, <1>6, <1>14, <1>15, <1>16, RequestWrites

LEMMA PayStep ==
  ASSUME ScenarioInv, NEW q \in Pairs, Pay(q)
  PROVE  ScenarioInv'
<1>1. PICK p, u, t, in, item, plan, T :
        /\ p = ProductOf(q) /\ u = UserOf(q) /\ t = products[p]
        /\ in = inbox[q] /\ item = items[q] /\ plan = data.plan[q] /\ T = trail[p]
  OBVIOUS
<1>2. /\ Acting(q, "checkout") /\ data.plan[q] = "purchase" /\ data' = data
      /\ item.step = "act" /\ item.entry = "checkout"
  BY <1>1 DEF Pay, Acting
<1>3. items \in [Pairs -> Items] /\ inbox = [o \in Pairs |-> inbox[o]]
  BY DEF ScenarioInv, Scene
<1>4. Known(t, T, u, in, item, plan) /\ Playing(item)
  BY <1>1, <1>2, PairFacts DEF Playing, PairInv
<1>5. \A j \in OfUser(t, u) : j \in T.started
  BY <1>2, <1>4 DEF Known, AttemptKnown
<1>6. CASE ApplyPayment(q)
  BY <1>2, <1>6, ApplyPaymentStep
<1>7. CASE /\ in \in {"none", "open"} /\ inbox' = [inbox EXCEPT ![q] = "open"]
           /\ Unanswered(q) /\ UNCHANGED <<products, trail>>
  <2>1. Known(t, T, u, "open", item, plan)
    <3>1. OfUser(t, u) # {}
      BY <1>4 DEF Known
    <3>2. \A j \in OfUser(t, u) : AttemptKnown(t.attempts[j], j \in T.started, "open", item, plan)
      BY <1>4, <1>5, <1>7 DEF Known, AttemptKnown
    <3> QED
      BY <1>1, <1>2, <1>4, <3>1, <3>2 DEF Known
  <2>2. PICK in2 : in2 = "open"
    OBVIOUS
  <2>3. PICK item2 \in Items : /\ items' = [items EXCEPT ![q] = item2]
                               /\ PairInv(t, T, u, in2, item2, plan)
    BY <1>1, <1>2, <1>3, <1>4, <1>7, <2>1, <2>2, UnansweredKnown
  <2> QED
    BY <1>1, <1>2, <1>7, <2>2, <2>3, ItemOnly
<1>8. CASE Paid(q) /\ UNCHANGED <<products, trail, inbox>>
  <2>1. Answered(q, "checkout", TRUE) /\ TRUE \in BOOLEAN
    BY <1>8 DEF Paid
  <2>2. PICK item2 \in Items : /\ items' = [items EXCEPT ![q] = item2]
                               /\ PairInv(t, T, u, in, item2, plan)
    BY <1>1, <1>2, <1>3, <1>4, <1>5, <2>1, AnsweredKnown
  <2>3. inbox' = [inbox EXCEPT ![q] = in]
    BY <1>1, <1>3, <1>8
  <2> QED
    BY <1>1, <1>2, <1>8, <2>2, <2>3, ItemOnly
<1>9. CASE Unanswered(q) /\ UNCHANGED <<products, trail, inbox>>
  <2>1. PICK item2 \in Items : /\ items' = [items EXCEPT ![q] = item2]
                               /\ PairInv(t, T, u, in, item2, plan)
    BY <1>1, <1>2, <1>3, <1>4, <1>9, UnansweredKnown
  <2>2. inbox' = [inbox EXCEPT ![q] = in]
    BY <1>1, <1>3, <1>9
  <2> QED
    BY <1>1, <1>2, <1>9, <2>1, <2>2, ItemOnly
<1> QED
  BY <1>1, <1>6, <1>7, <1>8, <1>9 DEF Pay

(* The steps of k6 that reach no product.                                  *)
QuietStep(q) == Wait(q) \/ Conclude(q) \/ PollFails(q) \/ GiveUp(q)

LEMMA QuietSteps ==
  ASSUME ScenarioInv, NEW q \in Pairs, QuietStep(q)
  PROVE  ScenarioInv'
<1>1. PICK p, u, t, in, item, plan, T :
        /\ p = ProductOf(q) /\ u = UserOf(q) /\ t = products[p]
        /\ in = inbox[q] /\ item = items[q] /\ plan = data.plan[q] /\ T = trail[p]
  OBVIOUS
<1>2. /\ UNCHANGED <<data, products, trail, inbox>>
      /\ item.step \in {"act", "poll"}
  BY <1>1 DEF QuietStep, Wait, Conclude, PollFails, GiveUp
<1>3. items \in [Pairs -> Items] /\ inbox' = [inbox EXCEPT ![q] = in] /\ item \in Items
  BY <1>1, <1>2 DEF ScenarioInv, Scene
<1>4. Known(t, T, u, in, item, plan) /\ Playing(item) /\ plan # "none"
  BY <1>1, <1>2, PairFacts DEF Playing, PairInv
<1>5. OfUser(t, u) # {}
  BY <1>4 DEF Known
<1>6. ASSUME NEW outcome, Emits(q, outcome), outcome \in Events \ {"queue_rejected"},
             outcome \in Concluded => item.entry = outcome
      PROVE  \E item2 \in Items : /\ items' = [items EXCEPT ![q] = item2]
                                  /\ PairInv(t, T, u, in, item2, plan)
  <2>1. PICK item2 : item2 = [Unplayed EXCEPT !.step = "done", !.event = outcome]
    OBVIOUS
  <2>2. outcome \in Concluded => outcome \in Terminal
    BY DEF Concluded, Terminal
  <2>3. \A i \in OfUser(t, u) : outcome \in Concluded => t.attempts[i].state = outcome
    BY <1>4, <1>6, <2>2 DEF Known, AttemptKnown
  <2>4. item2 \in Items /\ PairInv(t, T, u, in, item2, plan)
    BY <1>4, <1>5, <1>6, <2>1, <2>3, EmitKnown
  <2> QED
    BY <1>6, <2>1, <2>4 DEF Emits
<1>7. \E item2 \in Items : /\ items' = [items EXCEPT ![q] = item2]
                           /\ PairInv(t, T, u, in, item2, plan)
  <2>1. CASE Unanswered(q)
    BY <1>1, <1>3, <1>4, <2>1, UnansweredKnown
  <2>2. CASE Wait(q) /\ ~Unanswered(q)
    <3>1. item.entry = "checkout" /\ Answered(q, "checkout", TRUE) /\ TRUE \in BOOLEAN
      BY <1>1, <2>2 DEF Wait
    <3>2. \A j \in OfUser(t, u) : j \in T.started
      BY <1>4, <3>1 DEF Known, AttemptKnown
    <3> QED
      BY <1>1, <1>3, <1>4, <3>1, <3>2, AnsweredKnown
  <2>3. CASE Conclude(q)
    <3>1. PICK outcome : outcome = Outcome(item.entry)
      OBVIOUS
    <3>2. outcome \in Events \ {"queue_rejected"} /\ (outcome \in Concluded => item.entry = outcome)
      BY <3>1 DEF Outcome, Events, Concluded
    <3>3. Emits(q, outcome)
      BY <1>1, <2>3, <3>1 DEF Conclude
    <3> QED
      BY <1>6, <3>2, <3>3
  <2>4. CASE PollFails(q)
    <3>1. PICK item2 : item2 = [item EXCEPT !.step = "act"]
      OBVIOUS
    <3>2. /\ item2 \in Items /\ item2.step = "act"
          /\ item2.entry = item.entry /\ item2.event = item.event
      BY <1>3, <3>1 DEF Items
    <3>3. items' = [items EXCEPT ![q] = item2]
      BY <1>1, <2>4, <3>1 DEF PollFails
    <3>4. PairInv(t, T, u, in, item2, plan)
      BY <1>2, <1>4, <1>5, <3>2, NoteKnown
    <3> QED
      BY <3>2, <3>3, <3>4
  <2>5. CASE GiveUp(q)
    <3>1. /\ Emits(q, "unresolved") /\ "unresolved" \notin Concluded
          /\ "unresolved" \in Events \ {"queue_rejected"}
      BY <2>5 DEF GiveUp, Events, Concluded
    <3> QED
      BY <1>6, <3>1
  <2> QED
    BY <2>1, <2>2, <2>3, <2>4, <2>5 DEF QuietStep
<1>8. PICK item2 \in Items : /\ items' = [items EXCEPT ![q] = item2]
                             /\ PairInv(t, T, u, in, item2, plan)
  BY <1>7
<1> QED
  BY <1>1, <1>2, <1>3, <1>8, ItemOnly

LEMMA PollStep ==
  ASSUME ScenarioInv, NEW q \in Pairs, Poll(q)
  PROVE  ScenarioInv'
<1>1. PICK p, u, t, in, item, plan, T, stock, none :
        /\ p = ProductOf(q) /\ u = UserOf(q) /\ t = products[p] /\ none = {}
        /\ in = inbox[q] /\ item = items[q] /\ plan = data.plan[q]
        /\ T = trail[p] /\ stock = data.stock[p]
  OBVIOUS
<1>2. PICK t2, entry : t2 = Reconcile(t) /\ entry = StateIn(t2, q)
  OBVIOUS
<1>3. /\ item.step = "poll" /\ UNCHANGED <<data, inbox>> /\ Put(p, t2)
      /\ items' = [items EXCEPT ![q].step = "act", ![q].entry = entry]
  BY <1>1, <1>2 DEF Poll
<1>4. ProductInv(t, T, stock) /\ Known(t, T, u, in, item, plan) /\ plan # "none"
  BY <1>1, <1>3, PairFacts DEF PairInv
<1>5. Serves(t, t2, u, none)
  BY <1>1, <1>2, <1>4, FullReconcileServes
<1>6. OfUser(t2, u) = OfUser(t, u) /\ OfUser(t, u) # {}
  <2>1. DOMAIN t2.attempts = DOMAIN t.attempts
    BY <1>2, <1>4, FullReconcileAdvances DEF ProductInv
  <2>2. OfUser(t, u) # {}
    BY <1>3, <1>4 DEF Known, Playing
  <2> QED
    BY <1>5, <2>1, <2>2 DEF OfUser, Serves, Advances
<1>7. /\ Known(t2, trail'[p], u, in, item, plan)
      /\ ProductInv(t2, trail'[p], stock)
      /\ InState(t2, {"checkout"}) \subseteq trail'[p].started
  BY <1>1, <1>3, <1>5, <1>6, RequestKnown
<1>8. PICK T2 : T2 = trail'[p]
  OBVIOUS
<1>9. \A j \in OfUser(t2, u) : /\ t2.attempts[j].state = entry
                                /\ entry \in Active \cup Terminal
  <2>1. ProductInv(t2, T2, stock)
    BY <1>7, <1>8
  <2>2. \A j \in OfUser(t2, UserOf(q)) :
          StateIn(t2, q) = t2.attempts[j].state /\ StateIn(t2, q) \in Active \cup Terminal
    BY <2>1, StateInIs
  <2> QED
    BY <1>1, <1>2, <2>2
<1>10. entry \in Active \cup Terminal /\ entry # "none"
  BY <1>6, <1>9 DEF Active, Reserving, Terminal
<1>11. /\ items \in [Pairs -> Items] /\ inbox' = [inbox EXCEPT ![q] = in] /\ item \in Items
  BY <1>1, <1>3 DEF ScenarioInv, Scene
<1>12. PICK item2 : item2 = [item EXCEPT !.step = "act", !.entry = entry]
  OBVIOUS
<1>13. /\ item2 \in Items /\ item2.step = "act"
       /\ item2.entry = entry /\ item2.event = item.event
  BY <1>10, <1>11, <1>12 DEF Items
<1>14. items' = [items EXCEPT ![q] = item2]
  BY <1>1, <1>3, <1>11, <1>12
<1>15. \A j \in OfUser(t2, u) : entry = "checkout" => j \in T2.started
  BY <1>7, <1>8, <1>9 DEF InState, OfUser
<1>16. PairInv(t2, T2, u, in, item2, plan)
  BY <1>3, <1>4, <1>6, <1>7, <1>8, <1>9, <1>10, <1>13, <1>15, NoteKnown
<1>17. \A k \in DOMAIN t.attempts :
         <<k, "purchased">> \in none \/ <<k, "cancelled">> \in none => k \in OfUser(t, u)
  BY <1>1
<1>18. PairInv(t2, trail'[p], u, in, item2, data.plan[q]) /\ data' = data
  BY <1>1, <1>3, <1>8, <1>16
<1>19. Put(p, t2) /\ p = ProductOf(q) /\ u = UserOf(q) /\ t = products[p]
  BY <1>1, <1>3
<1>20. inbox' = [inbox EXCEPT ![q] = in] /\ item2 \in Items
  BY <1>11, <1>13
<1> QED
  BY <1>5, <1>14, <1>17, <1>18, <1>19, <1>20, RequestWrites

(* Time shortens what is left and changes nothing else.                    *)
LEMMA AgedKeepsProduct ==
  ASSUME NEW t, NEW T, NEW stock, ProductInv(t, T, stock)
  PROVE  /\ ProductInv(Aged(t), T, stock)
         /\ Aged(t).stock = t.stock /\ Aged(t).reserved = t.reserved /\ Aged(t).next = t.next
         /\ DOMAIN Aged(t).attempts = DOMAIN t.attempts
         /\ \A i \in DOMAIN t.attempts :
              /\ Aged(t).attempts[i].user = t.attempts[i].user
              /\ Aged(t).attempts[i].state = t.attempts[i].state
<1>1. Good(t) /\ Remembers(t) /\ WellFormed(t)
  BY DEF ProductInv, Good
<1>2. PICK later : later = [i \in DOMAIN t.attempts |->
        [t.attempts[i] EXCEPT !.left = IF @ > 0 THEN @ - 1 ELSE 0]]
  OBVIOUS
<1>3. Aged(t) = [t EXCEPT !.attempts = later]
  BY <1>2 DEF Aged
<1>4. ASSUME NEW i \in DOMAIN t.attempts
      PROVE  /\ later[i] \in Attempt
             /\ later[i].user = t.attempts[i].user /\ later[i].key = t.attempts[i].key
             /\ later[i].state = t.attempts[i].state /\ later[i].ref = t.attempts[i].ref
             /\ t.attempts[i].left = 0 => later[i] = t.attempts[i]
  <2>1. PICK a : a = t.attempts[i]
    OBVIOUS
  <2>2. a \in Attempt /\ a.left \in Nat
    BY <1>1, <2>1, Fields
  <2>3. PICK n : n = IF a.left > 0 THEN a.left - 1 ELSE 0
    OBVIOUS
  <2>4. n \in Nat /\ (a.left = 0 => n = a.left)
    BY <2>2, <2>3
  <2>5. later[i] = [a EXCEPT !.left = n]
    BY <1>2, <2>1, <2>3
  <2> QED
    BY <2>1, <2>2, <2>4, <2>5 DEF Attempt
<1>5. DOMAIN later = DOMAIN t.attempts /\ later = [i \in DOMAIN t.attempts |-> later[i]]
  BY <1>2
<1>6. PICK t2 : t2 = [t EXCEPT !.attempts = later]
  OBVIOUS
<1>7. Good(t2) /\ Keeps(t, t2)
  BY <1>1, <1>4, <1>5, <1>6, TimePasses DEF Remembers
<1>8. /\ t2.attempts = later /\ t2.outbox = t.outbox /\ t2.stock = t.stock
      /\ t2.reserved = t.reserved /\ t2.next = t.next
  BY <1>1, <1>6 DEF WellFormed
<1>9. Remembers(t2) /\ Bought(t2) = Bought(t)
  BY <1>1, <1>7, KeepsRemembering, KeepsWhatWasBought
<1>10. \A i \in DOMAIN t2.attempts : StampedIn(t2, T, i) /\ t2.attempts[i].key = t2.attempts[i].user
  BY <1>4, <1>5, <1>8 DEF ProductInv, StampedIn
<1>11. ProductInv(t2, T, stock)
  BY <1>5, <1>7, <1>8, <1>9, <1>10 DEF ProductInv
<1> QED
  BY <1>3, <1>4, <1>5, <1>6, <1>8, <1>11

LEMMA TickStep ==
  ASSUME ScenarioInv, Tick
  PROVE  /\ ScenarioInv'
         /\ \A p \in Products : /\ products'[p].stock = products[p].stock
                                 /\ products'[p].reserved = products[p].reserved
                                 /\ products'[p].next = products[p].next
<1>1. /\ products' = [p \in Products |-> Aged(products[p])]
      /\ UNCHANGED <<data, trail, inbox, items>>
  BY DEF Tick
<1>2. ASSUME NEW p \in Products
      PROVE  /\ ProductInv(products'[p], trail[p], data.stock[p])
             /\ products'[p].stock = products[p].stock
             /\ products'[p].reserved = products[p].reserved
             /\ products'[p].next = products[p].next
             /\ DOMAIN products'[p].attempts = DOMAIN products[p].attempts
             /\ \A i \in DOMAIN products[p].attempts :
                  /\ products'[p].attempts[i].user = products[p].attempts[i].user
                  /\ products'[p].attempts[i].state = products[p].attempts[i].state
  <2>1. PICK t, T, stock : t = products[p] /\ T = trail[p] /\ stock = data.stock[p]
    OBVIOUS
  <2>2. ProductInv(t, T, stock)
    BY <2>1 DEF ScenarioInv
  <2>3. products'[p] = Aged(t)
    BY <1>1, <2>1
  <2> QED
    BY <2>1, <2>2, <2>3, AgedKeepsProduct
<1>3. Scene'
  BY <1>1 DEF ScenarioInv, Scene, Planned
<1>4. ASSUME NEW q \in Pairs PROVE PairHolds(q)'
  <2>1. PICK t, t2, T, u, in, item, plan :
          /\ t = products[ProductOf(q)] /\ t2 = products'[ProductOf(q)]
          /\ T = trail[ProductOf(q)] /\ u = UserOf(q)
          /\ in = inbox[q] /\ item = items[q] /\ plan = data.plan[q]
    OBVIOUS
  <2>2. PairInv(t, T, u, in, item, plan)
    BY <2>1, PairFacts
  <2>3. OfUser(t2, u) = OfUser(t, u) /\ \A i \in OfUser(t, u) : t2.attempts[i].state = t.attempts[i].state
    BY <1>2, <2>1, PairParts DEF OfUser
  <2>4. PairInv(t2, T, u, in, item, plan)
    BY <2>2, <2>3 DEF PairInv, Known, AttemptKnown
  <2> QED
    BY <1>1, <2>1, <2>4 DEF PairHolds
<1>5. \A p \in Products : ProductInv(products[p], trail[p], data.stock[p])'
  BY <1>1, <1>2
<1> QED
  BY <1>2, <1>3, <1>4, <1>5 DEF ScenarioInv

(* Every step keeps the invariant.                                         *)
LEMMA ScenarioKept == ScenarioInv /\ [Next]_vars => ScenarioInv'
<1> SUFFICES ASSUME ScenarioInv, [Next]_vars PROVE ScenarioInv'
  OBVIOUS
<1>1. ASSUME NEW q \in Pairs, Join(q) PROVE ScenarioInv'
  BY <1>1, JoinStep
<1>2. ASSUME NEW q \in Pairs, LoseJoin(q) PROVE ScenarioInv'
  BY <1>2, LoseJoinStep
<1>3. ASSUME NEW q \in Pairs, Act(q) PROVE ScenarioInv'
  <2>1. CASE StartCheckout(q)
    BY <2>1, StartCheckoutStep
  <2>2. CASE Cancel(q)
    BY <2>2, CancelStep
  <2>3. CASE Pay(q)
    BY <2>3, PayStep
  <2>4. CASE Wait(q) \/ Conclude(q)
    BY <2>4, QuietSteps DEF QuietStep
  <2> QED
    BY <1>3, <2>1, <2>2, <2>3, <2>4 DEF Act
<1>4. ASSUME NEW q \in Pairs, Poll(q) PROVE ScenarioInv'
  BY <1>4, PollStep
<1>5. ASSUME NEW q \in Pairs, PollFails(q) \/ GiveUp(q) PROVE ScenarioInv'
  BY <1>5, QuietSteps DEF QuietStep
<1>6. ASSUME NEW p \in Products, Worker(p) PROVE ScenarioInv'
  BY <1>6, WorkerStep
<1>7. CASE Tick
  BY <1>7, TickStep
<1>8. CASE UNCHANGED <<data, products, trail, inbox, items>>
  BY <1>8 DEF ScenarioInv, Scene, Planned, PairHolds
<1>9. CASE ReadProducts \/ ReadAttempts \/ UNCHANGED vars
  BY <1>8, <1>9 DEF ReadProducts, ReadAttempts, vars
<1> QED
  BY <1>1, <1>2, <1>3, <1>4, <1>5, <1>6, <1>7, <1>9 DEF Next

-----------------------------------------------------------------------------
(***************************************************************************)
(* The verdicts.                                                           *)
(***************************************************************************)
(* Whatever Verify has read of the products, its checks of the attempts    *)
(* succeed, if the counters are consistent and the sequences those of now. *)
LEMMA QueueEvaluates ==
  ASSUME ScenarioInv, NEW r,
         \A p \in Products : /\ r[p].next = products[p].next
                             /\ r[p].reserved \in 0 .. r[p].stock
  PROVE  Evaluate(r)
<1>1. ASSUME NEW p \in Products
      PROVE  /\ ProductInv(products[p], trail[p], data.stock[p])
             /\ products[p].next \in Nat /\ products[p].next >= 1
             /\ DOMAIN products[p].attempts = 1 .. (products[p].next - 1)
             /\ \A i \in DOMAIN products[p].attempts : products[p].attempts[i].user \in Users
  <2>1. ProductInv(products[p], trail[p], data.stock[p])
    BY DEF ScenarioInv
  <2>2. WellFormed(products[p])
    BY <2>1 DEF ProductInv, Good
  <2>3. \A i \in DOMAIN products[p].attempts : products[p].attempts[i].user \in Users
    BY <2>2, Fields DEF Attempt
  <2> QED
    BY <2>1, <2>2, <2>3, Fields
<1>2. checkInventory(r)
  BY DEF checkInventory
<1>3. checkSequences(r)
  <2> SUFFICES ASSUME NEW p \in Products
               PROVE  LET n == Cardinality(DOMAIN products[p].attempts)
                      IN  /\ DOMAIN products[p].attempts = 1 .. n
                          /\ r[p].next = n + 1
    BY DEF checkSequences
  <2>1. PICK m : m = products[p].next - 1
    OBVIOUS
  <2>2. m \in Nat /\ products[p].next = m + 1 /\ DOMAIN products[p].attempts = 1 .. m
    BY <1>1, <2>1
  <2>3. Cardinality(1 .. m) = m
    <3>1. Cardinality(1 .. m) = IF 1 > m THEN 0 ELSE m - 1 + 1
      BY <2>2, FS_Interval
    <3> QED
      BY <2>2, <3>1
  <2> QED
    BY <2>2, <2>3
<1>4. checkActiveAttempts
  <2> SUFFICES ASSUME NEW q \in Pairs
               PROVE  Cardinality(ActiveOf(products[ProductOf(q)], UserOf(q))) <= 1
    BY DEF checkActiveAttempts
  <2>1. PICK t, T, stock, u : /\ t = products[ProductOf(q)] /\ T = trail[ProductOf(q)]
                              /\ stock = data.stock[ProductOf(q)] /\ u = UserOf(q)
    OBVIOUS
  <2>2. ProductInv(t, T, stock)
    BY <1>1, <2>1, PairParts
  <2>3. ActiveOf(t, u) \subseteq OfUser(t, u)
    BY DEF ActiveOf
  <2>4. CASE ActiveOf(t, u) = {}
    BY <2>1, <2>4, FS_EmptySet
  <2>5. CASE ActiveOf(t, u) # {}
    <3>1. PICK i : i \in ActiveOf(t, u)
      BY <2>5
    <3>2. \A j \in ActiveOf(t, u) : j = i
      BY <2>2, <2>3, <3>1, OneAttempt
    <3>3. ActiveOf(t, u) = {i}
      BY <3>1, <3>2
    <3>4. Cardinality({i}) = 1
      BY FS_Singleton
    <3>5. Cardinality(ActiveOf(t, u)) = 1
      BY <3>3, <3>4
    <3> QED
      BY <2>1, <3>5
  <2> QED
    BY <2>4, <2>5
<1>5. checkAllowedAttempts
  BY PairFacts DEF checkAllowedAttempts, AttemptsOf, Assigned, PairInv, Known
<1>6. checkIdempotency
  BY <1>1 DEF checkIdempotency, ProductInv, Good, KeysDistinct
<1>7. checkStateTimestamps
  BY <1>1 DEF checkStateTimestamps, Stamped, ProductInv, StampedIn
<1> QED
  BY <1>2, <1>3, <1>4, <1>5, <1>6, <1>7 DEF Evaluate

LEMMA CountersConsistent ==
  ASSUME ScenarioInv, NEW p \in Products
  PROVE  products[p].reserved \in 0 .. products[p].stock
BY DEF ScenarioInv, ProductInv, Good, Consistent

LEMMA VerifierHolds == ScenarioInv => VerifierAcceptsTheQueue
<1> SUFFICES ASSUME ScenarioInv PROVE Evaluate(Snapshot)
  BY DEF VerifierAcceptsTheQueue
<1>1. PICK r : r = Snapshot
  OBVIOUS
<1>2. \A p \in Products : /\ r[p].next = products[p].next
                          /\ r[p].reserved \in 0 .. r[p].stock
  BY <1>1, CountersConsistent DEF Snapshot
<1> QED
  BY <1>1, <1>2, QueueEvaluates

LEMMA ScenarioInvariant == Spec => []ScenarioInv
BY ScenarioStarts, ScenarioKept, PTL DEF Spec

(* verify.go: checkInventory, checkActiveAttempts, checkSequences,         *)
(* checkAllowedAttempts, checkIdempotency and checkStateTimestamps: for    *)
(* any users, products, assignments and stocks, at any moment of a load    *)
(* test the tables pass every check that Evaluate makes of them.           *)
THEOREM VerifierAccepts == Spec => []VerifierAcceptsTheQueue
BY ScenarioInvariant, VerifierHolds, PTL

(* An assigned pair of the purchase scenario has an outcome to expect.     *)
LEMMA AssignedPlans ==
  ASSUME ScenarioInv, ~Polling, NEW q \in Assigned
  PROVE  /\ q \in Pairs /\ data.plan[q] \in {"purchase", "cancel", "ttl"}
         /\ Expected[data.plan[q]] =
              CASE data.plan[q] = "purchase" -> "purchased"
                [] data.plan[q] = "cancel" -> "cancelled"
                [] data.plan[q] = "ttl" -> "checkout_expired"
<1>1. q \in Pairs /\ data.plan[q] # "none" /\ data.plan[q] # "poll"
  BY DEF Assigned, Polling
<1>2. data.plan[q] \in Plans
  BY <1>1 DEF ScenarioInv, Scene, Planned
<1> QED
  BY <1>1, <1>2 DEF Plans, Expected

(* An attempt belongs to an assigned pair.                                 *)
LEMMA AttemptsAreAssigned ==
  ASSUME ScenarioInv, NEW p \in Products, NEW i \in DOMAIN products[p].attempts
  PROVE  \E q \in Assigned : ProductOf(q) = p /\ i \in OfUser(products[p], UserOf(q))
<1>1. PICK u : u = products[p].attempts[i].user
  OBVIOUS
<1>2. u \in Users
  BY <1>1, Fields DEF ScenarioInv, ProductInv, Good, Attempt
<1>3. PICK q : q = <<u, p>>
  OBVIOUS
<1>4. q \in Pairs /\ ProductOf(q) = p /\ UserOf(q) = u
  BY <1>2, <1>3 DEF Pairs, ProductOf, UserOf
<1>5. i \in OfUser(products[p], UserOf(q))
  BY <1>1, <1>4 DEF OfUser
<1>6. data.plan[q] # "none"
  BY <1>4, <1>5, PairFacts DEF PairInv, Known
<1> QED
  BY <1>4, <1>5, <1>6 DEF Assigned

(* A run that k6 passes leaves nobody in the queue.                        *)
LEMMA NobodyIsLeft ==
  ASSUME ScenarioInv, ~Polling, K6Passes, NEW p \in Products
  PROVE  InState(products[p], Active) = {}
<1> SUFFICES ASSUME NEW i \in DOMAIN products[p].attempts
             PROVE  products[p].attempts[i].state \notin Active
  BY DEF InState
<1>1. PICK q \in Assigned : ProductOf(q) = p /\ i \in OfUser(products[p], UserOf(q))
  BY AttemptsAreAssigned
<1>2. q \in Pairs /\ Expected[data.plan[q]] \in Concluded
  BY <1>1, AssignedPlans DEF Concluded
<1>3. AttemptKnown(products[p].attempts[i], i \in trail[p].started,
                   inbox[q], items[q], data.plan[q])
  BY <1>1, <1>2, PairFacts DEF PairInv, Known
<1>4. items[q].event \in Concluded
  BY <1>1, <1>2, <1>3 DEF K6Passes, AttemptKnown, Concluded
<1> QED
  BY <1>3, <1>4 DEF AttemptKnown, Concluded, Active, Reserving

(* One pair, as evaluatePurchaseOutcomes judges it and as k6 does.         *)
LEMMA PairJudged ==
  ASSUME ScenarioInv, ~Polling, NEW q \in Assigned
  PROVE  (EventFits(q) /\ PlanKept(q) /\ PaymentFits(q))
           <=> items[q].event \in {"queue_rejected", "sold_out", Expected[data.plan[q]]}
<1>1. PICK t, T, stock, u, in, item, plan, expected :
        /\ t = products[ProductOf(q)] /\ T = trail[ProductOf(q)]
        /\ stock = data.stock[ProductOf(q)] /\ u = UserOf(q)
        /\ in = inbox[q] /\ item = items[q] /\ plan = data.plan[q]
        /\ expected = Expected[data.plan[q]]
  OBVIOUS
<1>2. /\ q \in Pairs /\ plan \in {"purchase", "cancel", "ttl"}
      /\ expected = CASE plan = "purchase" -> "purchased"
                      [] plan = "cancel" -> "cancelled"
                      [] plan = "ttl" -> "checkout_expired"
  BY <1>1, AssignedPlans
<1>3. ProductInv(t, T, stock) /\ Known(t, T, u, in, item, plan)
  BY <1>1, <1>2, PairFacts DEF PairInv
<1>4. /\ AttemptsOf(q) = OfUser(t, u) /\ Logged(q) = item.event /\ PaidFor(q) = in
      /\ Actual(q) = Outcome(StateIn(t, q)) /\ (Started(q) <=> AttemptOf(q) \in T.started)
  BY <1>1 DEF AttemptsOf, Logged, PaidFor, Actual, Started
<1>5. CASE OfUser(t, u) = {}
  <2>1. in = "none" /\ item.event \notin {"purchased", "cancelled", "checkout_expired"}
    BY <1>3, <1>5 DEF Known, Concluded
  <2> QED
    BY <1>1, <1>2, <1>4, <1>5, <2>1 DEF EventFits, PlanKept, PaymentFits
<1>6. CASE OfUser(t, u) # {}
  <2>1. PICK i : i = AttemptOf(q)
    OBVIOUS
  <2>2. i \in OfUser(t, u) /\ i \in DOMAIN t.attempts
    BY <1>4, <1>6, <2>1 DEF AttemptOf, OfUser
  <2>3. PICK a : a = t.attempts[i]
    OBVIOUS
  <2>4. StateIn(t, q) = a.state
    BY <1>1, <1>3, <2>2, <2>3, StateInIs
  <2>5. AttemptKnown(a, i \in T.started, in, item, plan)
    BY <1>3, <2>2, <2>3 DEF Known
  <2>6. StampedIn(t, T, i)
    BY <1>3, <2>2 DEF ProductInv
  <2>7. /\ a.state = "sold_out" => i \notin T.started
        /\ a.state \in {"purchased", "checkout_expired"} => i \in T.started
    BY <2>3, <2>6 DEF StampedIn
  <2>8. /\ item.event # "queue_rejected"
        /\ item.event \in {"sold_out", "purchased", "cancelled", "checkout_expired"}
             => a.state = item.event
        /\ in # "none" => i \in T.started
        /\ a.state = "purchased" => in = "accepted"
        /\ a.state = "cancelled" => plan = "cancel"
        /\ in # "none" => plan = "purchase"
    BY <1>3, <2>5 DEF AttemptKnown, Known, Concluded
  <2>9. PICK actual : actual = Actual(q)
    OBVIOUS
  <2>10. actual = IF a.state \in {"purchased", "cancelled", "checkout_expired", "sold_out"}
                  THEN a.state ELSE "unresolved"
    BY <1>4, <2>4, <2>9 DEF Outcome
  <2>11. /\ EventFits(q) <=> item.event = actual /\ actual # "unresolved"
         /\ PlanKept(q) <=> (i \in T.started => actual = expected)
         /\ PaymentFits(q) <=> IF actual = "purchased"
                               THEN plan = "purchase" /\ in = "accepted" ELSE in = "none"
    BY <1>1, <1>4, <1>6, <2>1, <2>9 DEF EventFits, PlanKept, PaymentFits
  <2>12. ASSUME item.event = actual, actual # "unresolved",
                i \in T.started => actual = expected
         PROVE  item.event \in {"queue_rejected", "sold_out", expected}
    BY <1>2, <2>7, <2>8, <2>10, <2>12
  <2>13. ASSUME item.event \in {"queue_rejected", "sold_out", expected}
         PROVE  /\ item.event = actual /\ actual # "unresolved"
                /\ i \in T.started => actual = expected
                /\ IF actual = "purchased"
                   THEN plan = "purchase" /\ in = "accepted" ELSE in = "none"
    BY <1>2, <2>7, <2>8, <2>10, <2>13
  <2> QED
    BY <1>1, <2>11, <2>12, <2>13
<1> QED
  BY <1>5, <1>6

(* The two judges, once k6 is done and the tables have been read.          *)
LEMMA VerdictsAgree ==
  ASSUME ScenarioInv, ~Polling, K6Passes => read = Snapshot
  PROVE  evaluatePurchaseOutcomes(read) <=> K6Passes
<1>1. K6Passes <=> \A q \in Assigned : EventFits(q) /\ PlanKept(q) /\ PaymentFits(q)
  BY PairJudged DEF K6Passes
<1>2. ASSUME K6Passes, NEW p \in Products PROVE InventoryReleased(p, read)
  <2>1. InState(products[p], Active) = {}
    BY <1>2, NobodyIsLeft
  <2>2. Holders(products[p]) = {}
    BY <2>1, StatesDisjoint DEF Holders, InState
  <2>3. products[p].reserved = 0
    BY <2>2, FS_EmptySet DEF ScenarioInv, ProductInv, Good, Consistent
  <2>4. read[p].reserved = products[p].reserved /\ read[p].stock = products[p].stock
    BY <1>2 DEF Snapshot
  <2>5. PICK t, bought, stock : /\ t = products[p] /\ stock = data.stock[p]
                                /\ bought = Cardinality(Bought(t))
    OBVIOUS
  <2>6. t.stock + bought = stock /\ WellFormed(t)
    BY <2>5 DEF ScenarioInv, ProductInv, Good
  <2>7. t.stock \in Nat /\ bought \in Nat
    <3>1. Bought(t) \in SUBSET DOMAIN t.attempts
      BY DEF Bought, InState
    <3> QED
      BY <2>5, <2>6, <3>1, Fields, AttemptSets
  <2>8. t.stock = stock - bought
    BY <2>6, <2>7
  <2> QED
    BY <2>3, <2>4, <2>5, <2>8 DEF InventoryReleased, Bought
<1> QED
  BY <1>1, <1>2 DEF evaluatePurchaseOutcomes

(***************************************************************************)
(* What Verify has read stays true: k6 is done, sequences do not move, and *)
(* when k6 has passed the run, nothing at all does.                        *)
(***************************************************************************)
ReadInv ==
  /\ read # NotRead =>
       /\ Finished
       /\ \A p \in Products : /\ read[p].next = products[p].next
                              /\ read[p].reserved \in 0 .. read[p].stock
       /\ ~Polling /\ K6Passes => read = Snapshot
  /\ verdict # "none" => read # NotRead
  /\ JudgesAgree

(* When k6 is done, only the worker, the clock and Verify go on.           *)
LEMMA FinishedStays ==
  ASSUME ScenarioInv, Finished, [Next]_vars
  PROVE  /\ UNCHANGED <<data, items>> /\ Finished'
         /\ \/ (\E p \in Products : Worker(p)) \/ Tick
            \/ ReadProducts \/ ReadAttempts \/ UNCHANGED vars
<1>1. ASSUME NEW q \in Pairs
      PROVE  ~(Join(q) \/ LoseJoin(q) \/ Act(q) \/ Poll(q) \/ PollFails(q) \/ GiveUp(q))
  <2>1. q \in Assigned => items[q].step = "done"
    BY DEF Finished
  <2>2. q \notin Assigned => items[q].step = "new"
    BY <1>1, PairFacts DEF Assigned
  <2> QED
    BY <2>1, <2>2 DEF Join, LoseJoin, Act, StartCheckout, Cancel, Pay, Wait, Conclude,
       Acting, Poll, PollFails, GiveUp
<1>2. \/ (\E p \in Products : Worker(p)) \/ Tick
      \/ ReadProducts \/ ReadAttempts \/ UNCHANGED vars
  BY <1>1 DEF Next
<1>3. UNCHANGED <<data, items>>
  BY <1>2 DEF Worker, Tick, ReadProducts, ReadAttempts, vars
<1>4. Finished'
  BY <1>3 DEF Finished, Assigned
<1> QED
  BY <1>2, <1>3, <1>4

(* What the judges look at besides the tables does not move.               *)
LEMMA JudgesStay ==
  ASSUME UNCHANGED <<data, items>>
  PROVE  (Polling' <=> Polling) /\ (K6Passes' <=> K6Passes)
BY DEF Polling, K6Passes, Assigned

LEMMA ReadKept == ScenarioInv /\ ReadInv /\ [Next]_vars => ReadInv'
<1> SUFFICES ASSUME ScenarioInv, ReadInv, [Next]_vars PROVE ReadInv'
  OBVIOUS
<1>1. CASE read = NotRead /\ ~ReadProducts
  <2>1. verdict = "none"
    BY <1>1 DEF ReadInv
  <2>2. read' = read /\ verdict' = verdict
    BY <1>1, <2>1 DEF Next, Join, LoseJoin, Act, StartCheckout, Cancel, Pay, Wait, Conclude,
       Poll, PollFails, GiveUp, Worker, Tick, ReadAttempts, vars
  <2>3. NotRead' = NotRead
    BY DEF NotRead
  <2> QED
    BY <1>1, <2>1, <2>2, <2>3 DEF ReadInv, JudgesAgree
<1>2. CASE ReadProducts
  <2>1. /\ Finished /\ read = NotRead /\ read' = Snapshot
        /\ UNCHANGED <<data, products, trail, inbox, items, verdict>>
    BY <1>2 DEF ReadProducts
  <2>2. verdict' = "none"
    BY <2>1 DEF ReadInv
  <2>3. Finished' /\ Snapshot' = Snapshot
    BY <2>1 DEF Finished, Assigned, Snapshot
  <2>4. \A p \in Products : /\ read'[p].next = products'[p].next
                            /\ read'[p].reserved \in 0 .. read'[p].stock
    BY <2>1, CountersConsistent DEF Snapshot
  <2> QED
    BY <2>1, <2>2, <2>3, <2>4 DEF ReadInv, JudgesAgree
<1>3. CASE read # NotRead
  <2>1. /\ Finished
        /\ \A p \in Products : /\ read[p].next = products[p].next
                               /\ read[p].reserved \in 0 .. read[p].stock
        /\ ~Polling /\ K6Passes => read = Snapshot
    BY <1>3 DEF ReadInv
  <2>2. /\ UNCHANGED <<data, items>> /\ Finished'
        /\ \/ (\E p \in Products : Worker(p)) \/ Tick
           \/ ReadProducts \/ ReadAttempts \/ UNCHANGED vars
    BY <2>1, FinishedStays
  <2>3. (Polling' <=> Polling) /\ (K6Passes' <=> K6Passes)
    BY <2>2, JudgesStay
  <2>4. read' = read /\ NotRead' = NotRead
    BY <1>3, <2>2 DEF Worker, Tick, ReadProducts, ReadAttempts, vars, NotRead
  <2>5. \A p \in Products : products'[p].next = products[p].next
    <3>1. CASE \E p \in Products : Worker(p)
      <4>1. PICK p \in Products : Worker(p)
        BY <3>1
      <4>2. PICK t, t2 : t = products[p] /\ t2 = ReconcileBounded(t, BatchLimit)
        OBVIOUS
      <4>3. products' = [products EXCEPT ![p] = t2]
        BY <4>1, <4>2 DEF Worker, Put
      <4>4. BatchLimit \in Nat /\ WellFormed(t) /\ Consistent(t)
        BY <4>2, ScenarioAssumption DEF ScenarioInv, ProductInv, Good
      <4>5. t2.next = t.next
        BY <4>2, <4>4, ReconciledFields
      <4>6. products = [o \in Products |-> products[o]]
        BY DEF ScenarioInv, Scene
      <4> QED
        BY <4>2, <4>3, <4>5, <4>6
    <3>2. CASE Tick
      BY <3>2, TickStep
    <3>3. CASE UNCHANGED products
      BY <3>3
    <3> QED
      BY <2>2, <3>1, <3>2, <3>3 DEF ReadProducts, ReadAttempts, vars
  <2>6. ~Polling /\ K6Passes => Snapshot' = Snapshot
    <3> SUFFICES ASSUME ~Polling, K6Passes PROVE Snapshot' = Snapshot
      OBVIOUS
    <3>1. ASSUME NEW p \in Products PROVE ~Worker(p)
      <4>1. InState(products[p], Active) = {}
        BY NobodyIsLeft
      <4>2. Holders(products[p]) = {} /\ Waiting(products[p]) = {}
        BY <4>1, StatesDisjoint DEF Holders, Waiting, InState
      <4> QED
        BY <4>2 DEF Worker, HasReconciliationWork, Due
    <3>2. CASE Tick
      BY <3>2, TickStep DEF Snapshot
    <3>3. CASE UNCHANGED products
      BY <3>3 DEF Snapshot
    <3> QED
      BY <2>2, <3>1, <3>2, <3>3 DEF ReadProducts, ReadAttempts, vars
  <2>7. JudgesAgree'
    <3>1. CASE ReadAttempts
      <4>1. verdict' = Verdict
        BY <3>1 DEF ReadAttempts
      <4>2. PICK r : r = read
        OBVIOUS
      <4>3. Evaluate(r)
        BY <2>1, <4>2, QueueEvaluates
      <4>4. ~Polling => (evaluatePurchaseOutcomes(read) <=> K6Passes)
        BY <2>1, VerdictsAgree
      <4>5. verdict' = "passed" <=> Polling \/ K6Passes
        BY <4>1, <4>2, <4>3, <4>4 DEF Verdict
      <4> QED
        BY <2>3, <4>5 DEF JudgesAgree
    <3>2. CASE ~ReadAttempts
      <4>1. verdict' = verdict
        BY <2>2, <3>2 DEF Worker, Tick, ReadProducts, vars
      <4>2. JudgesAgree
        BY DEF ReadInv
      <4> QED
        BY <2>3, <4>1, <4>2 DEF JudgesAgree
    <3> QED
      BY <3>1, <3>2
  <2> QED
    BY <1>3, <2>1, <2>2, <2>3, <2>4, <2>5, <2>6, <2>7 DEF ReadInv
<1> QED
  BY <1>1, <1>2, <1>3

LEMMA ReadStarts == Init => ReadInv
BY DEF Init, ReadInv, JudgesAgree

(* verify.go: evaluatePurchaseOutcomes, and the outcome thresholds of      *)
(* queue-purchase-outcomes.js: for any users, products, plans and stocks,  *)
(* through lost answers, failing payments, deadlines and a worker that     *)
(* goes on between the statements of Verify, the verifier passes a run of  *)
(* the purchase scenario exactly when k6 met no mismatch and left nothing  *)
(* unresolved, and it passes every run of the polling scenario.            *)
THEOREM JudgesAlwaysAgree == Spec => []JudgesAgree
<1>1. ScenarioInv /\ ReadInv /\ [Next]_vars => ReadInv'
  BY ReadKept
<1>2. ReadInv => JudgesAgree
  BY DEF ReadInv
<1> QED
  BY <1>1, <1>2, ReadStarts, ScenarioInvariant, PTL DEF Spec
=============================================================================
