------------------------------ MODULE RunAnalysis ------------------------------
(***************************************************************************)
(* From a GitHub webhook to the persisted analysis: the webhook route of   *)
(* app/main.py, worker.handle_analyze_workflow_run and the occurrence      *)
(* count of synchronize_analysis_fingerprint_metadata.                     *)
(*                                                                         *)
(* A "run" is one attempt of one failed workflow run of one repository.    *)
(* GitHub announces it by several webhooks (workflow_run, one workflow_job *)
(* per failed job, redeliveries), each with a delivery id of its own.  The *)
(* route never awaits after it has read the request, so one API process    *)
(* handles one webhook at a time: API is the set of processes.  Jobs are   *)
(* those of JobLifecycle.  All runs fail with the same fingerprint: counts *)
(* of different fingerprints do not affect each other.  Signature checks,  *)
(* the log and the text of the analysis are left out.                      *)
(***************************************************************************)
EXTENDS Integers, Sequences, FiniteSets

CONSTANTS
  Jobs,           \* rows of the jobs table for these runs
  Workers,
  API,            \* backend processes
  Runs,           \* (github_run_id, run_attempt) pairs of one organization
  None,
  MaxAttempts,    \* settings.worker_max_attempts
  MaxWebhooks,    \* bound: webhooks delivered
  MaxResets,      \* bound: presses of the retry button of a job
  MaxFaults       \* bound: failing database calls, killed processes

ASSUME MaxAttemptsAssumption == MaxAttempts \in Nat
ASSUME BoundsAssumption == MaxWebhooks \in Nat /\ MaxResets \in Nat /\ MaxFaults \in Nat
ASSUME APIAssumption == IsFiniteSet(API)
ASSUME NoneAssumption == None \notin Runs

VARIABLES
  status, attempts, runners,  \* the jobs, as in JobLifecycle
  key,        \* the run a job was enqueued for
  stored,     \* runs that have a WorkflowRun row
  analyses,   \* FailureAnalysis rows in the order they were committed
  hook,       \* where each API process is in the webhook route
  handler,    \* where each worker is in handle_analyze_workflow_run
  webhooks, resets, faults

jobVars == <<status, attempts, runners>>
bounds  == <<webhooks, resets, faults>>
vars    == <<status, attempts, runners, key, stored, analyses, hook, handler,
             webhooks, resets, faults>>

Life == INSTANCE JobLifecycle

HookSteps    == {"idle", "selected", "persisted", "checked"}
HandlerSteps == {"none", "fetching", "checking", "counting", "committing", "queueing",
                 "returned", "temporary", "permanent"}

IdleHook    == [step |-> "idle", run |-> None, found |-> FALSE]
IdleHandler == [step |-> "none", run |-> None, count |-> 0, row |-> 0]

\* An analysis: its run, its occurrence_count, and whether queue_delivery has
\* recorded a PRCommentDelivery for it.
Analysis == [run : Runs, count : Nat, delivery : BOOLEAN]

Fault == faults < MaxFaults /\ faults' = faults + 1

Goto(w, next) == handler' = [handler EXCEPT ![w].step = next]

Init ==
  /\ Life!Init
  /\ key = [j \in Jobs |-> None]
  /\ stored = {}
  /\ analyses = <<>>
  /\ hook = [a \in API |-> IdleHook]
  /\ handler = [w \in Workers |-> IdleHandler]
  /\ webhooks = 0
  /\ resets = 0
  /\ faults = 0

-----------------------------------------------------------------------------
(* The webhook route, from the SELECT of the run on. *)

\* A signed webhook of a completed, failed run of a known repository.
Receive(a, r) ==
  /\ hook[a].step = "idle"
  /\ webhooks < MaxWebhooks
  /\ webhooks' = webhooks + 1
  /\ hook' = [hook EXCEPT ![a] = [step |-> "selected", run |-> r, found |-> r \in stored]]
  /\ UNCHANGED <<jobVars, key, stored, analyses, handler, resets, faults>>

\* UPDATE of the row found, or INSERT; the row of another process makes the
\* INSERT fail on the UNIQUE constraint, and the route answers {"ok": true}.
PersistRun(a) ==
  /\ hook[a].step = "selected"
  /\ stored' = stored \cup {hook[a].run}
  /\ hook' = [hook EXCEPT ![a] = IF ~ @.found /\ @.run \in stored THEN IdleHook
                                 ELSE [@ EXCEPT !.step = "persisted"]]
  /\ UNCHANGED <<jobVars, key, analyses, handler, bounds>>

\* The commit fails, which is logged and answered with {"ok": true}; or the
\* process dies between two commits.  GitHub may deliver again.
HookFails(a) ==
  /\ hook[a].step # "idle"
  /\ Fault
  /\ hook' = [hook EXCEPT ![a] = IdleHook]
  /\ UNCHANGED <<jobVars, key, stored, analyses, handler, webhooks, resets>>

\* Mutation of CheckJob: the SELECT forgets the run.
CheckJobOfAnyRun(a) ==
  /\ hook[a].step = "persisted"
  /\ hook' = [hook EXCEPT ![a] = IF \E j \in Jobs : status[j] # "NONE" THEN IdleHook
                                 ELSE [@ EXCEPT !.step = "checked"]]
  /\ UNCHANGED <<jobVars, key, stored, analyses, handler, bounds>>

\* enqueue's SELECT: a job of the run, in whatever state, ends the request.
CheckJob(a) ==
  /\ hook[a].step = "persisted"
  /\ hook' = [hook EXCEPT ![a] = IF \E j \in Jobs : key[j] = @.run THEN IdleHook
                                 ELSE [@ EXCEPT !.step = "checked"]]
  /\ UNCHANGED <<jobVars, key, stored, analyses, handler, bounds>>

InsertJob(a, j) ==
  /\ hook[a].step = "checked"
  /\ Life!Create(j)
  /\ key' = [key EXCEPT ![j] = hook[a].run]
  /\ hook' = [hook EXCEPT ![a] = IdleHook]
  /\ UNCHANGED <<stored, analyses, handler, bounds>>

-----------------------------------------------------------------------------
(* handle_analyze_workflow_run, by a worker executing job j. *)

Start(w, j) ==
  /\ \A i \in Jobs : w \notin runners[i]
  /\ Life!Start(j, w)
  /\ UNCHANGED <<key, stored, analyses, hook, handler, bounds>>

\* Without its WorkflowRun row the handler returns, and the job completes.
LoadRun(w, j) ==
  /\ w \in runners[j]
  /\ handler[w].step = "none"
  /\ handler' = [handler EXCEPT ![w] = [IdleHandler EXCEPT !.run = key[j],
                   !.step = IF key[j] \in stored THEN "fetching" ELSE "returned"]]
  /\ UNCHANGED <<jobVars, key, stored, analyses, hook, bounds>>

\* Token and logs are there, and the rules or the provider classify the log.
FetchAndClassify(w) ==
  /\ handler[w].step = "fetching"
  /\ Goto(w, "checking")
  /\ UNCHANGED <<jobVars, key, stored, analyses, hook, bounds>>

\* Mutation of FetchFails: an unavailable log ends the handler without an error.
FetchFailsQuietly(w, kind) ==
  /\ handler[w].step = "fetching"
  /\ Goto(w, IF kind = "permanent" THEN "returned" ELSE kind)
  /\ UNCHANGED <<jobVars, key, stored, analyses, hook, bounds>>

\* GitHub is unavailable (TemporaryJobError); no token, no logs or an empty log
\* (PermanentJobError).
FetchFails(w, kind) ==
  /\ handler[w].step = "fetching"
  /\ Goto(w, kind)
  /\ UNCHANGED <<jobVars, key, stored, analyses, hook, bounds>>

\* Mutation of CheckExisting: the result is not checked.
CheckExistingBlindly(w) ==
  /\ handler[w].step = "checking"
  /\ Goto(w, "counting")
  /\ UNCHANGED <<jobVars, key, stored, analyses, hook, bounds>>

\* An analysis of the run ends the handler, without a look at its delivery.
CheckExisting(w) ==
  /\ handler[w].step = "checking"
  /\ Goto(w, IF \E i \in DOMAIN analyses : analyses[i].run = handler[w].run
             THEN "returned" ELSE "counting")
  /\ UNCHANGED <<jobVars, key, stored, analyses, hook, bounds>>

\* Mutation of CountOccurrences: the analysis itself is not counted.
CountOccurrencesBefore(w) ==
  /\ handler[w].step = "counting"
  /\ handler' = [handler EXCEPT ![w].step = "committing", ![w].count = Len(analyses)]
  /\ UNCHANGED <<jobVars, key, stored, analyses, hook, bounds>>

\* The row is flushed, and the SELECT of its fingerprint sees it and the rows
\* other transactions have committed by now.
CountOccurrences(w) ==
  /\ handler[w].step = "counting"
  /\ handler' = [handler EXCEPT ![w].step = "committing", ![w].count = Len(analyses) + 1]
  /\ UNCHANGED <<jobVars, key, stored, analyses, hook, bounds>>

CommitAnalysis(w) ==
  /\ handler[w].step = "committing"
  /\ analyses' = Append(analyses, [run |-> handler[w].run, count |-> handler[w].count,
                                   delivery |-> FALSE])
  /\ handler' = [handler EXCEPT ![w].step = "queueing", ![w].row = Len(analyses) + 1]
  /\ UNCHANGED <<jobVars, key, stored, hook, bounds>>

\* queue_delivery records the delivery of the analysis this handler committed.
QueueDelivery(w) ==
  /\ handler[w].step = "queueing"
  /\ analyses' = [analyses EXCEPT ![handler[w].row].delivery = TRUE]
  /\ Goto(w, "returned")
  /\ UNCHANGED <<jobVars, key, stored, hook, bounds>>

\* A database call raises: process_job treats it as any other exception.
HandlerFails(w) ==
  /\ handler[w].step \in {"checking", "counting", "committing", "queueing"}
  /\ Fault
  /\ Goto(w, "temporary")
  /\ UNCHANGED <<jobVars, key, stored, analyses, hook, webhooks, resets>>

\* Mutation of EndJob: a job out of attempts ends as FAILED.
EndJobFailed(w, j) ==
  /\ \/ handler[w].step = "returned" /\ Life!Complete(j, w)
     \/ handler[w].step = "temporary" /\ Life!Retry(j, w)
     \/ handler[w].step = "temporary" /\ attempts[j] >= MaxAttempts /\ Life!Fail(j, w)
     \/ handler[w].step = "permanent" /\ Life!End(j, w, "FAILED") /\ UNCHANGED attempts
  /\ handler' = [handler EXCEPT ![w] = IdleHandler]
  /\ UNCHANGED <<key, stored, analyses, hook, bounds>>

\* process_job settles the job by how the handler ended.
EndJob(w, j) ==
  /\ \/ handler[w].step = "returned" /\ Life!Complete(j, w)
     \/ handler[w].step = "temporary" /\ Life!Retry(j, w)
     \/ handler[w].step = "temporary" /\ attempts[j] >= MaxAttempts /\ Life!Fail(j, w)
     \/ handler[w].step = "permanent" /\ Life!Fail(j, w)
  /\ handler' = [handler EXCEPT ![w] = IdleHandler]
  /\ UNCHANGED <<key, stored, analyses, hook, bounds>>

\* The execution is lost wherever the handler was; the job stays RUNNING.
Abandon(w, j) ==
  /\ Fault
  /\ Life!Abandon(j, w)
  /\ handler' = [handler EXCEPT ![w] = IdleHandler]
  /\ UNCHANGED <<key, stored, analyses, hook, webhooks, resets>>

ResetJob(j) ==
  /\ resets < MaxResets
  /\ resets' = resets + 1
  /\ Life!Reset(j)
  /\ UNCHANGED <<key, stored, analyses, hook, handler, webhooks, faults>>

-----------------------------------------------------------------------------
HookStep(a) == PersistRun(a) \/ CheckJob(a) \/ \E j \in Jobs : InsertJob(a, j)

HandlerStep(w) ==
  \/ \E j \in Jobs : LoadRun(w, j) \/ EndJob(w, j)
  \/ FetchAndClassify(w)
  \/ \E kind \in {"temporary", "permanent"} : FetchFails(w, kind)
  \/ CheckExisting(w) \/ CountOccurrences(w) \/ CommitAnalysis(w) \/ QueueDelivery(w)

StartSome == \E w \in Workers, j \in Jobs : Start(w, j)

Next ==
  \/ \E a \in API : HookStep(a) \/ HookFails(a) \/ \E r \in Runs : Receive(a, r)
  \/ StartSome
  \/ \E w \in Workers : HandlerStep(w) \/ HandlerFails(w)
  \/ \E j \in Jobs : ResetJob(j) \/ \E w \in Workers : Abandon(w, j)

Spec == Init /\ [][Next]_vars

\* Requests and handlers run on, and queued jobs are started (JobQueue's liveness).
FairSpec == /\ Spec
            /\ WF_vars(StartSome)
            /\ \A a \in API : WF_vars(HookStep(a))
            /\ \A w \in Workers : WF_vars(HandlerStep(w))

-----------------------------------------------------------------------------
(* Properties *)

\* Types of the tables and of the locals of requests and handlers.
TypeOK ==
  /\ status \in [Jobs -> {"NONE", "QUEUED", "RETRYING", "RUNNING", "COMPLETED",
                          "FAILED_PERMANENT"}]
  /\ attempts \in [Jobs -> 0..MaxAttempts]
  /\ runners \in [Jobs -> SUBSET Workers]
  /\ key \in [Jobs -> Runs \cup {None}]
  /\ stored \subseteq Runs
  /\ analyses \in Seq(Analysis)
  /\ hook \in [API -> [step : HookSteps, run : Runs \cup {None}, found : BOOLEAN]]
  /\ handler \in [Workers -> [step : HandlerSteps, run : Runs \cup {None}, count : Nat,
                           row : Nat]]
  /\ webhooks \in 0..MaxWebhooks /\ resets \in 0..MaxResets /\ faults \in 0..MaxFaults

\* Idempotence of ingestion: however often a run is announced, its job retried, lost or
\* reset, there are no more analyses of it than API processes, one with one process.  No
\* constraint of the table says so: with two processes a run gets two jobs, and two analyses.
AnalysesAreFew ==
  \A r \in Runs : Cardinality({i \in DOMAIN analyses : analyses[i].run = r}) <= Cardinality(API)

\* A completed job means an analysed run: the handler's silent returns are never
\* taken by a job whose run has no analysis.
CompletedIsAnalyzed ==
  \A j \in Jobs : status[j] = "COMPLETED" =>
    \E i \in DOMAIN analyses : analyses[i].run = key[j]

\* occurrence_count never claims occurrences nobody has seen, and counts at least
\* the analysis it is stored with.  It is not more than a lower bound: workers that
\* count at the same time store the same number.
OccurrencesAreSeen == \A i \in DOMAIN analyses : analyses[i].count \in 1..i

\* Every analysis whose job has completed has its delivery record, be the comment
\* wanted (QUEUED) or not (SKIPPED).
AnalysisHasDelivery ==
  \A i \in DOMAIN analyses, j \in Jobs :
    key[j] = analyses[i].run /\ status[j] = "COMPLETED" => analyses[i].delivery

\* A stored run is eventually analysed or its job fails for good, unless a process
\* dies or a database call fails on the way.
RunIsSettled ==
  \A r \in Runs :
    r \in stored ~>
      \/ \E j \in Jobs : key[j] = r /\ status[j] \in {"COMPLETED", "FAILED_PERMANENT"}
      \/ faults > 0

=============================================================================
