---------------------------- MODULE PatchGeneration ----------------------------
(***************************************************************************)
(* Patch suggestions of one analysis: generate_patch and decide_patch of   *)
(* app/main.py and the PATCH_GENERATION branch of worker.handle_job.       *)
(*                                                                         *)
(* Jobs are those of JobLifecycle; a patch's job is enqueued under the     *)
(* patch's own id, so enqueue never finds an older one.  Diff, validation  *)
(* and provider are reduced to the outcome they lead to.  Only the handler *)
(* of a patch's job writes its status after the insert.                    *)
(***************************************************************************)
EXTENDS Integers, FiniteSets

CONSTANTS
  Patches,       \* rows of patch_suggestions for this analysis
  Jobs,
  Workers,
  Callers,       \* concurrent requests of generate_patch
  Reviewers,     \* concurrent requests of decide_patch
  None,
  MaxAttempts,   \* settings.worker_max_attempts
  MaxResets,     \* bound: presses of the retry button of a job
  MaxFaults      \* bound: killed processes

ASSUME MaxAttemptsAssumption == MaxAttempts \in Nat
ASSUME BoundsAssumption == MaxResets \in Nat /\ MaxFaults \in Nat
ASSUME CallersAssumption == IsFiniteSet(Callers)
ASSUME NoneAssumption == None \notin Patches \cup Jobs

VARIABLES
  status, attempts, runners,  \* the jobs, as in JobLifecycle
  job,        \* the job of a patch, None before it is enqueued
  patch,      \* PatchSuggestion.status, "NONE" before the insert
  decisions,  \* PatchDecision rows: what was decided about each patch
  request,    \* where each API request is
  handler,    \* where each worker is in handle_job
  resets, faults

jobVars == <<status, attempts, runners>>
bounds  == <<resets, faults>>
vars    == <<status, attempts, runners, job, patch, decisions, request, handler,
             resets, faults>>

Life == INSTANCE JobLifecycle

PatchStatuses == {"NONE", "REQUESTED", "GENERATING", "READY", "REJECTED_BY_VALIDATION", "FAILED"}
Active        == {"REQUESTED", "GENERATING", "READY"}
Verdicts      == {"READY", "REJECTED_BY_VALIDATION", "FAILED"}

RequestSteps == {"idle", "none found", "inserted", "ready"}
HandlerSteps == {"none", "generating", "returned", "raised"}

IdleRequest == [step |-> "idle", patch |-> None]
IdleHandler == [step |-> "none", patch |-> None]

Fault == faults < MaxFaults /\ faults' = faults + 1

Init ==
  /\ Life!Init
  /\ job = [p \in Patches |-> None]
  /\ patch = [p \in Patches |-> "NONE"]
  /\ decisions = [p \in Patches |-> {}]
  /\ request = [c \in Callers \cup Reviewers |-> IdleRequest]
  /\ handler = [w \in Workers |-> IdleHandler]
  /\ resets = 0
  /\ faults = 0

-----------------------------------------------------------------------------
(* POST /api/analyses/{id}/generate-patch. *)

\* Mutation of LookForActive: a READY patch does not stop a new request.
LookForUnfinished(c) ==
  /\ request[c].step = "idle"
  /\ \A p \in Patches : patch[p] \notin Active \ {"READY"}
  /\ request' = [request EXCEPT ![c].step = "none found"]
  /\ UNCHANGED <<jobVars, job, patch, decisions, handler, bounds>>

\* The SELECT finds no active patch; an active one is returned instead.
LookForActive(c) ==
  /\ request[c].step = "idle"
  /\ \A p \in Patches : patch[p] \notin Active
  /\ request' = [request EXCEPT ![c].step = "none found"]
  /\ UNCHANGED <<jobVars, job, patch, decisions, handler, bounds>>

InsertPatch(c, p) ==
  /\ request[c].step = "none found"
  /\ patch[p] = "NONE"
  /\ patch' = [patch EXCEPT ![p] = "REQUESTED"]
  /\ request' = [request EXCEPT ![c] = [step |-> "inserted", patch |-> p]]
  /\ UNCHANGED <<jobVars, job, decisions, handler, bounds>>

\* Patch generation is switched off or has no key: the row is a FAILED one.
InsertUnavailable(c, p) ==
  /\ request[c].step = "none found"
  /\ patch[p] = "NONE"
  /\ patch' = [patch EXCEPT ![p] = "FAILED"]
  /\ request' = [request EXCEPT ![c] = IdleRequest]
  /\ UNCHANGED <<jobVars, job, decisions, handler, bounds>>

\* Mutation of EnqueueJob: the job is deduplicated by the analysis.
EnqueueJobOnce(c, j) ==
  /\ request[c].step = "inserted"
  /\ IF \E p \in Patches : job[p] # None
     THEN UNCHANGED <<jobVars, job>>
     ELSE Life!Create(j) /\ job' = [job EXCEPT ![request[c].patch] = j]
  /\ request' = [request EXCEPT ![c] = IdleRequest]
  /\ UNCHANGED <<patch, decisions, handler, bounds>>

EnqueueJob(c, j) ==
  /\ request[c].step = "inserted"
  /\ Life!Create(j)
  /\ job' = [job EXCEPT ![request[c].patch] = j]
  /\ request' = [request EXCEPT ![c] = IdleRequest]
  /\ UNCHANGED <<patch, decisions, handler, bounds>>

\* The backend dies between the two commits.
RequestDies(c) ==
  /\ request[c].step # "idle"
  /\ Fault
  /\ request' = [request EXCEPT ![c] = IdleRequest]
  /\ UNCHANGED <<jobVars, job, patch, decisions, handler, resets>>

-----------------------------------------------------------------------------
(* PATCH /api/patches/{id}/decision: the check, then the commit. *)

CheckReady(v, p) ==
  /\ request[v].step = "idle"
  /\ patch[p] = "READY"
  /\ request' = [request EXCEPT ![v] = [step |-> "ready", patch |-> p]]
  /\ UNCHANGED <<jobVars, job, patch, decisions, handler, bounds>>

CommitDecision(v, d) ==
  /\ request[v].step = "ready"
  /\ decisions' = [decisions EXCEPT ![request[v].patch] = @ \cup {d}]
  /\ request' = [request EXCEPT ![v] = IdleRequest]
  /\ UNCHANGED <<jobVars, job, patch, handler, bounds>>

-----------------------------------------------------------------------------
(* handle_job, by a worker executing job j of patch p. *)

Start(w, j) ==
  /\ \A i \in Jobs : w \notin runners[i]
  /\ Life!Start(j, w)
  /\ UNCHANGED <<job, patch, decisions, request, handler, bounds>>

\* GENERATING is committed before any request leaves the worker.
BeginGeneration(w, p) ==
  /\ job[p] # None
  /\ w \in runners[job[p]]
  /\ handler[w].step = "none"
  /\ patch' = [patch EXCEPT ![p] = "GENERATING"]
  /\ handler' = [handler EXCEPT ![w] = [step |-> "generating", patch |-> p]]
  /\ UNCHANGED <<jobVars, job, decisions, request, bounds>>

\* Mutation of FinishGeneration: the handler raises after its commit.
FinishGenerationAndRaise(w, verdict) ==
  /\ handler[w].step = "generating"
  /\ patch' = [patch EXCEPT ![handler[w].patch] = verdict]
  /\ handler' = [handler EXCEPT ![w].step = "raised"]
  /\ UNCHANGED <<jobVars, job, decisions, request, bounds>>

\* READY for a diff that passes validation, REJECTED_BY_VALIDATION for one that
\* does not, FAILED for a PatchProviderError.
FinishGeneration(w, verdict) ==
  /\ handler[w].step = "generating"
  /\ patch' = [patch EXCEPT ![handler[w].patch] = verdict]
  /\ handler' = [handler EXCEPT ![w].step = "returned"]
  /\ UNCHANGED <<jobVars, job, decisions, request, bounds>>

\* PatchTemporaryError, or any GitHubClientError of source_context: nothing is
\* committed, and process_job retries whether the error is temporary or not.
GenerationRaises(w) ==
  /\ handler[w].step = "generating"
  /\ handler' = [handler EXCEPT ![w].step = "raised"]
  /\ UNCHANGED <<jobVars, job, patch, decisions, request, bounds>>

\* Mutation of EndJob: a job out of attempts ends as FAILED.
EndJobFailed(w, j) ==
  /\ \/ handler[w].step = "returned" /\ Life!Complete(j, w)
     \/ handler[w].step = "raised" /\ Life!Retry(j, w)
     \/ handler[w].step = "raised" /\ attempts[j] >= MaxAttempts
                                  /\ Life!End(j, w, "FAILED") /\ UNCHANGED attempts
  /\ handler' = [handler EXCEPT ![w] = IdleHandler]
  /\ UNCHANGED <<job, patch, decisions, request, bounds>>

EndJob(w, j) ==
  /\ \/ handler[w].step = "returned" /\ Life!Complete(j, w)
     \/ handler[w].step = "raised" /\ Life!Retry(j, w)
     \/ handler[w].step = "raised" /\ attempts[j] >= MaxAttempts /\ Life!Fail(j, w)
  /\ handler' = [handler EXCEPT ![w] = IdleHandler]
  /\ UNCHANGED <<job, patch, decisions, request, bounds>>

Abandon(w, j) ==
  /\ Fault
  /\ Life!Abandon(j, w)
  /\ handler' = [handler EXCEPT ![w] = IdleHandler]
  /\ UNCHANGED <<job, patch, decisions, request, resets>>

ResetJob(j) ==
  /\ resets < MaxResets
  /\ resets' = resets + 1
  /\ Life!Reset(j)
  /\ UNCHANGED <<job, patch, decisions, request, handler, faults>>

-----------------------------------------------------------------------------
GenerateStep(c) ==
  \/ \E p \in Patches : InsertPatch(c, p) \/ InsertUnavailable(c, p)
  \/ \E j \in Jobs : EnqueueJob(c, j)

DecideStep(v) == \E d \in {"ACCEPTED", "REJECTED"} : CommitDecision(v, d)

HandlerStep(w) ==
  \/ \E p \in Patches : BeginGeneration(w, p)
  \/ \E verdict \in Verdicts : FinishGeneration(w, verdict)
  \/ GenerationRaises(w)
  \/ \E j \in Jobs : EndJob(w, j)

StartSome == \E w \in Workers, j \in Jobs : Start(w, j)

Next ==
  \/ \E c \in Callers : LookForActive(c) \/ GenerateStep(c)
  \/ \E v \in Reviewers : DecideStep(v) \/ \E p \in Patches : CheckReady(v, p)
  \/ \E c \in Callers \cup Reviewers : RequestDies(c)
  \/ StartSome
  \/ \E w \in Workers : HandlerStep(w) \/ \E j \in Jobs : Abandon(w, j)
  \/ \E j \in Jobs : ResetJob(j)

Spec == Init /\ [][Next]_vars

FairSpec == /\ Spec
            /\ WF_vars(StartSome)
            /\ \A c \in Callers : WF_vars(GenerateStep(c))
            /\ \A v \in Reviewers : WF_vars(DecideStep(v))
            /\ \A w \in Workers : WF_vars(HandlerStep(w))

-----------------------------------------------------------------------------
(* Properties *)

\* Types of the patch and job rows and of the locals of requests and handlers.
TypeOK ==
  /\ status \in [Jobs -> {"NONE", "QUEUED", "RETRYING", "RUNNING", "COMPLETED",
                          "FAILED_PERMANENT"}]
  /\ attempts \in [Jobs -> 0..MaxAttempts]
  /\ runners \in [Jobs -> SUBSET Workers]
  /\ job \in [Patches -> Jobs \cup {None}]
  /\ patch \in [Patches -> PatchStatuses]
  /\ decisions \in [Patches -> SUBSET {"ACCEPTED", "REJECTED"}]
  /\ request \in [Callers \cup Reviewers -> [step : RequestSteps, patch : Patches \cup {None}]]
  /\ handler \in [Workers -> [step : HandlerSteps, patch : Patches \cup {None}]]
  /\ resets \in 0..MaxResets /\ faults \in 0..MaxFaults

\* An analysis has no more active suggestions than requests of generate_patch overlap: one, as
\* the panel's "the" patch supposes, when they do not.  Nothing but the SELECT ensures it.
ActivePatchesAreFew ==
  Cardinality({p \in Patches : patch[p] \in Active}) <= Cardinality(Callers)

\* Only a READY diff is decided about, though check and commit are apart, and it
\* stays as it was: through retries, resets and lost executions, no handler
\* touches a READY patch again.
DecidedPatchStays ==
  [][\A p \in Patches : patch[p] = "READY" \/ decisions'[p] # {} => patch'[p] = "READY"]_vars

\* An unfinished patch is being worked on: once its request is over, a job that a
\* worker has or will get belongs to it.  While it is unfinished the user cannot
\* ask for another one.
UnfinishedIsServed ==
  \A p \in Patches :
    patch[p] \in {"REQUESTED", "GENERATING"} /\ (\A c \in Callers : request[c].patch # p) =>
      job[p] # None /\ status[job[p]] \in {"QUEUED", "RETRYING", "RUNNING"}

\* A requested patch is eventually resolved, or its job has failed for good, unless
\* a process dies on the way.
RequestedIsResolved ==
  \A p \in Patches :
    patch[p] = "REQUESTED" ~>
      \/ patch[p] \in Verdicts
      \/ job[p] # None /\ status[job[p]] = "FAILED_PERMANENT"
      \/ faults > 0

=============================================================================
