------------------------------ MODULE InlineWorker ------------------------------
(***************************************************************************)
(* Workers without Redis: run_once and the main loop of app/worker.py over *)
(* the job table, with process_job, retry and enqueue as far as they act   *)
(* when there is no queue to publish to and no lock to take.               *)
(*                                                                         *)
(* Jobs are numbered in the order of created_at.  API requests come one at *)
(* a time (JobQueue has the overlapping ones), and nobody but its executor *)
(* writes the row of a RUNNING job: enqueue, the retry route and the end   *)
(* of an execution are one step each.                                      *)
(***************************************************************************)
EXTENDS Integers, FiniteSets

CONSTANTS
  MaxJobs,       \* bound on the jobs ever enqueued
  InlineWorkers, \* processes that run the main loop
  MaxAttempts,   \* worker_max_attempts
  MaxResets      \* bound on manual retries

ASSUME InlineAssumption == {MaxJobs, MaxAttempts} \subseteq Nat \ {0} /\ MaxResets \in Nat
ASSUME InlineWorkersAssumption == IsFiniteSet(InlineWorkers)

VARIABLES
  row,         \* the jobs table
  worker,
  executions,  \* history: executions of each job since its last manual retry
  resets

inlineVars == <<row, worker, executions, resets>>

InlineJobs     == 1 .. MaxJobs
InlineStatuses == {"NONE", "QUEUED", "RUNNING", "RETRYING", "COMPLETED", "FAILED_PERMANENT"}
Stopped        == [step |-> "stopped", job |-> 0]
Looping        == [step |-> "looping", job |-> 0]

InlineInit ==
  /\ row = [j \in InlineJobs |-> [status |-> "NONE", attempts |-> 0]]
  /\ worker = [w \in InlineWorkers |-> Stopped]
  /\ executions = [j \in InlineJobs |-> 0]
  /\ resets = 0

Move(w, to) == worker' = [worker EXCEPT ![w] = to]

-----------------------------------------------------------------------------
(* The API. *)

EnqueueInline(j) ==
  /\ row[j].status = "NONE"
  /\ \A i \in 1 .. j - 1 : row[i].status # "NONE"
  /\ row' = [row EXCEPT ![j].status = "QUEUED"]
  /\ UNCHANGED <<worker, executions, resets>>

\* The retry route accepts what failed for good; not a job in RETRYING.
ResetJob(j) ==
  /\ resets < MaxResets
  /\ row[j].status = "FAILED_PERMANENT"
  /\ row' = [row EXCEPT ![j] = [status |-> "QUEUED", attempts |-> 0]]
  /\ executions' = [executions EXCEPT ![j] = 0]
  /\ resets' = resets + 1
  /\ UNCHANGED worker

-----------------------------------------------------------------------------
(* A worker process. *)

StartInline(w) ==
  /\ worker[w].step = "stopped"
  /\ Move(w, Looping)
  /\ UNCHANGED <<row, executions, resets>>

\* run_once: the newest QUEUED job; without one the loop, and the process, end.
SelectJob(w) ==
  LET queued == {j \in InlineJobs : row[j].status = "QUEUED"} IN
  /\ worker[w].step = "looping"
  /\ IF queued = {} THEN Move(w, Stopped)
     ELSE \E j \in queued : /\ \A i \in queued : i <= j
                            /\ Move(w, [step |-> "selected", job |-> j])
  /\ UNCHANGED <<row, executions, resets>>

\* Mutation of Claimed: the UPDATE has no condition on the status.
ClaimedAnyway(j) == row[j].status # "COMPLETED"

\* The UPDATE of _claim finds the row QUEUED or RETRYING, whatever was selected.
Claimed(j) == row[j].status \in {"QUEUED", "RETRYING"}

\* A claim that fails is not run_once's: it returns True, and the loop goes on.
ClaimInline(w) ==
  LET j == worker[w].job IN
  /\ worker[w].step = "selected"
  /\ IF Claimed(j)
     THEN /\ row' = [row EXCEPT ![j].status = "RUNNING"]
          /\ executions' = [executions EXCEPT ![j] = @ + 1]
          /\ Move(w, [worker[w] EXCEPT !.step = "executing"])
     ELSE /\ Move(w, Looping)
          /\ UNCHANGED <<row, executions>>
  /\ UNCHANGED resets

\* Mutation of RetryStatus: one retry more is queued.
RetryStatusLater(attempts) == IF attempts > 2 THEN "RETRYING" ELSE "QUEUED"

\* Only the first retry is one that run_once selects again.
RetryStatus(attempts) == IF attempts > 1 THEN "RETRYING" ELSE "QUEUED"

EndExecution(w, to) ==
  /\ worker[w].step = "executing"
  /\ row' = [row EXCEPT ![worker[w].job] = to]
  /\ Move(w, Looping)
  /\ UNCHANGED <<executions, resets>>

Succeed(w) == EndExecution(w, [row[worker[w].job] EXCEPT !.status = "COMPLETED"])

FailForGood(w) == EndExecution(w, [row[worker[w].job] EXCEPT !.status = "FAILED_PERMANENT"])

FailForNow(w) ==
  LET n == row[worker[w].job].attempts IN
  EndExecution(w, IF n >= MaxAttempts THEN [status |-> "FAILED_PERMANENT", attempts |-> n]
                  ELSE [status |-> RetryStatus(n + 1), attempts |-> n + 1])

\* SIGTERM is obeyed between two jobs; a kill or a database error is not so patient.
StopInline(w) ==
  /\ worker[w].step # "stopped"
  /\ Move(w, Stopped)
  /\ UNCHANGED <<row, executions, resets>>

InlineNext ==
  \/ \E j \in InlineJobs : EnqueueInline(j) \/ ResetJob(j)
  \/ \E w \in InlineWorkers : \/ StartInline(w) \/ SelectJob(w) \/ ClaimInline(w)
                              \/ Succeed(w) \/ FailForGood(w) \/ FailForNow(w)
                              \/ StopInline(w)

InlineSpec == InlineInit /\ [][InlineNext]_inlineVars

-----------------------------------------------------------------------------
InlineTypeOK ==
  /\ row \in [InlineJobs -> [status : InlineStatuses, attempts : 0 .. MaxAttempts]]
  /\ worker \in [InlineWorkers -> [step : {"stopped", "looping", "selected", "executing"},
                                   job : 0 .. MaxJobs]]
  /\ executions \in [InlineJobs -> 0 .. MaxAttempts + 1]
  /\ resets \in 0 .. MaxResets

Executing(j) == {w \in InlineWorkers : worker[w].step = "executing" /\ worker[w].job = j}

\* No two processes execute a job together; and because run_once passes over RETRYING, a
\* job is executed twice between manual retries, and once more only by each further
\* process that had selected it before, whatever worker_max_attempts says.
InlineRunsAreBounded ==
  \A j \in InlineJobs : /\ Cardinality(Executing(j)) <= 1
                        /\ executions[j] <= Cardinality(InlineWorkers) + 1

=============================================================================
