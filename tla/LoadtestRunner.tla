--------------------------- MODULE LoadtestRunner ---------------------------
(***************************************************************************)
(* The load-test runner: Start and the goroutine execute that it leaves    *)
(* behind, which runs the seed, k6 and verifier processes one after        *)
(* another, and the retention of what the runs leave in the database.      *)
(*                                                                         *)
(* There is one Runner.state and every goroutine writes it, whichever run  *)
(* it shows.                                                               *)
(***************************************************************************)
EXTENDS Naturals, FiniteSets

CONSTANTS Runs,    \* the run ids newRunID can return
          NoRun,
          Faults   \* what can go wrong: the steps of a run, its "mark", the "runner"

ASSUME RunAssumption == NoRun \notin Runs
ASSUME FaultAssumption ==
  Faults \subseteq {"cleanup", "seed", "k6", "verify", "mark", "runner"}

VARIABLES state,  \* Runner.state
          jobs,   \* where the goroutine of each run is
          rows,   \* loadtest.runs
          files   \* runs with a generated fixture and results

runnerVars == <<state, jobs, rows, files>>

IdleState == [run |-> NoRun, status |-> "idle", keep |-> FALSE,
              seed |-> "pending", verifier |-> "pending"]

(* keep: the KeepData that was asked for.  victim: the run whose data the  *)
(* cleanup deletes.  result: what execute is going to report, or did.      *)
NoJob == [step |-> "none", keep |-> FALSE, victim |-> NoRun, result |-> "none"]

NoRow == [status |-> "none", keep |-> FALSE]

RunnerInit ==
  /\ state = IdleState
  /\ jobs = [r \in Runs |-> NoJob]
  /\ rows = [r \in Runs |-> NoRow]
  /\ files = {}

At(r, step) == jobs[r].step = step
Goes(r, step) == jobs' = [jobs EXCEPT ![r].step = step]
Ends(r, step, result) == jobs' = [jobs EXCEPT ![r].step = step, ![r].result = result]

Executing(r) == jobs[r].step \notin {"none", "ended"}

-----------------------------------------------------------------------------

IsActive(status) == status \in {"starting", "cleaning", "seeding", "running", "verifying"}

(* Any other start gets ErrAlreadyRunning and changes nothing.             *)
Start(r, keep) ==
  /\ At(r, "none")
  /\ ~IsActive(state.status)
  /\ state' = [IdleState EXCEPT !.run = r, !.status = "starting", !.keep = keep]
  /\ jobs' = [jobs EXCEPT ![r].step = "started", ![r].keep = keep]
  /\ UNCHANGED <<rows, files>>

Begin(r) ==
  /\ At(r, "started")
  /\ Goes(r, "cleaning")
  /\ state' = [state EXCEPT !.status = "cleaning", !.verifier = "pending"]
  /\ UNCHANGED <<rows, files>>

(***************************************************************************)
(* loadtest-seed --cleanup-disposable-ui: one run of those that match,     *)
(* its directories first, and its rows in a transaction.                   *)
(***************************************************************************)
MutDeletesKept(v) == rows[v].status = "completed"
Disposable(v) == rows[v].status = "completed" /\ ~rows[v].keep

FindDisposableUIRun(r) ==
  /\ At(r, "cleaning")
  /\ \E v \in Runs :
       /\ Disposable(v)
       /\ jobs' = [jobs EXCEPT ![r].step = "removing", ![r].victim = v]
  /\ UNCHANGED <<state, rows, files>>

RemoveDirectories(r) ==
  /\ At(r, "removing")
  /\ files' = files \ {jobs[r].victim}
  /\ Goes(r, "deleting")
  /\ UNCHANGED <<state, rows>>

NothingToClean(r) == At(r, "cleaning") /\ \A v \in Runs : ~Disposable(v)

Cleaned(r) ==
  \/ NothingToClean(r) /\ UNCHANGED rows
  \/ At(r, "deleting") /\ rows' = [rows EXCEPT ![jobs[r].victim] = NoRow]

Cleanup(r) ==
  /\ Cleaned(r)
  /\ Goes(r, "seeding")
  /\ state' = [state EXCEPT !.status = "seeding", !.seed = "running"]
  /\ UNCHANGED files

FailCleanup(r) ==
  /\ "cleanup" \in Faults
  /\ jobs[r].step \in {"cleaning", "removing", "deleting"}
  /\ Ends(r, "finishing", "failed")
  /\ UNCHANGED <<state, rows, files>>

(***************************************************************************)
(* loadtest-seed: the rows in a transaction, then data.json; and           *)
(* validateFixture.                                                        *)
(***************************************************************************)
Seed(r) ==
  /\ At(r, "seeding")
  /\ rows' = [rows EXCEPT ![r] = [status |-> "seeded", keep |-> jobs[r].keep]]
  /\ Goes(r, "seeded")
  /\ UNCHANGED <<state, files>>

WriteData(r) ==
  /\ At(r, "seeded")
  /\ files' = files \cup {r}
  /\ Goes(r, "running")
  /\ state' = [state EXCEPT !.status = "running", !.seed = "pass"]
  /\ UNCHANGED rows

FailSeed(r) ==
  /\ "seed" \in Faults
  /\ jobs[r].step \in {"seeding", "seeded"}
  /\ Ends(r, "preserving", "failed")
  /\ state' = [state EXCEPT !.status = "failed", !.seed = "fail"]
  /\ UNCHANGED <<rows, files>>

(* k6.                                                                     *)
RunK6(r) ==
  /\ At(r, "running")
  /\ Goes(r, "verifying")
  /\ state' = [state EXCEPT !.status = "verifying", !.verifier = "running"]
  /\ UNCHANGED <<rows, files>>

FailK6(r) ==
  /\ "k6" \in Faults
  /\ At(r, "running")
  /\ Ends(r, "preserving", "failed")
  /\ UNCHANGED <<state, rows, files>>

(***************************************************************************)
(* loadtest-verify: the verdict is stored, then verifier.json is written,  *)
(* which the runner reads.  A run whose rows are gone has no verdict.      *)
(***************************************************************************)
VerdictOf(passed) == IF passed THEN "completed" ELSE "failed"

PersistOutcome(r, passed) ==
  /\ At(r, "verifying")
  /\ rows[r] # NoRow
  /\ rows' = [rows EXCEPT ![r].status = VerdictOf(passed)]
  /\ Ends(r, "reporting", VerdictOf(passed))
  /\ UNCHANGED <<state, files>>

ReportPass(r) ==
  /\ At(r, "reporting")
  /\ jobs[r].result = "completed"
  /\ Goes(r, "finishing")
  /\ state' = [state EXCEPT !.verifier = "pass"]
  /\ UNCHANGED <<rows, files>>

FailVerify(r) ==
  /\ \/ At(r, "reporting") /\ jobs[r].result = "failed"
     \/ jobs[r].step \in {"verifying", "reporting"} /\ "verify" \in Faults
  /\ Ends(r, "preserving", "failed")
  /\ UNCHANGED <<state, rows, files>>

(***************************************************************************)
(* preserveFailure: an error of loadtest-seed --mark-failed is logged.     *)
(***************************************************************************)
Preserved(r) == IF rows[r] = NoRow THEN rows
                ELSE [rows EXCEPT ![r] = [status |-> "failed", keep |-> TRUE]]

PreserveFailure(r) ==
  /\ At(r, "preserving")
  /\ \/ rows' = Preserved(r)
     \/ "mark" \in Faults /\ UNCHANGED rows
  /\ state' = [state EXCEPT !.keep = TRUE]
  /\ Goes(r, "finishing")
  /\ UNCHANGED files

MutOnlySuccess(r) == IF jobs[r].result = "completed" THEN "completed" ELSE state.status
FinalStatus(r) == jobs[r].result

Finish(r) ==
  /\ At(r, "finishing")
  /\ Goes(r, "ended")
  /\ state' = [state EXCEPT !.status = FinalStatus(r),
       !.verifier = IF jobs[r].result = "failed" /\ @ = "running" THEN "fail" ELSE @]
  /\ UNCHANGED <<rows, files>>

(* The runner's container stops, with the processes in it, and starts.     *)
RestartRunner ==
  /\ "runner" \in Faults
  /\ state # IdleState
  /\ state' = IdleState
  /\ jobs' = [r \in Runs |-> IF Executing(r) THEN [NoJob EXCEPT !.step = "ended"] ELSE jobs[r]]
  /\ UNCHANGED <<rows, files>>

Execute(r) ==
  \/ Begin(r) \/ FindDisposableUIRun(r) \/ RemoveDirectories(r) \/ Cleanup(r)
  \/ FailCleanup(r) \/ Seed(r) \/ WriteData(r) \/ FailSeed(r)
  \/ RunK6(r) \/ FailK6(r) \/ \E passed \in BOOLEAN : PersistOutcome(r, passed)
  \/ ReportPass(r) \/ FailVerify(r) \/ PreserveFailure(r) \/ Finish(r)

RunnerNext ==
  \/ \E r \in Runs : Execute(r) \/ \E keep \in BOOLEAN : Start(r, keep)
  \/ RestartRunner

RunnerSpec == RunnerInit /\ [][RunnerNext]_runnerVars

-----------------------------------------------------------------------------
(* Every run is at one of its steps, and what it leaves behind belongs to  *)
(* a run that got that far.                                                *)
TypeOK ==
  /\ state.run \in Runs \cup {NoRun}
  /\ state.status \in {"idle", "starting", "cleaning", "seeding", "running",
                       "verifying", "completed", "failed"}
  /\ \A r \in Runs :
       /\ jobs[r].result \in {"none", "completed", "failed"}
       /\ (At(r, "removing") \/ At(r, "deleting")) => jobs[r].victim \in Runs
       /\ rows[r].status \in {"none", "seeded", "completed", "failed"}
       /\ jobs[r].step \in {"none", "started", "cleaning", "removing", "deleting"}
            => rows[r] = NoRow /\ r \notin files

(* While a run executes, whatever it is about, another start is refused:   *)
(* runs share the database and the backend they put under load.            *)
OneRunAtATime == \A r, q \in Runs : Executing(r) /\ Executing(q) => r = q

(* The runner does not refuse starts for ever: once no run executes, its   *)
(* status is none of the active ones, though failing runs and restarts may *)
(* have written it in any order.                                           *)
RunnerIsNeverStuck == (\A r \in Runs : ~Executing(r)) => ~IsActive(state.status)

(* Data somebody asked to keep is never deleted, for as long as the runner *)
(* knows of it: a restart forgets the request of a run that executes, and  *)
(* of runs that merely failed nothing is said.                             *)
KeptRunsSurvive ==
  [][\A r \in Runs : jobs[r].keep /\ rows[r] # NoRow => rows'[r] # NoRow]_runnerVars
=============================================================================
