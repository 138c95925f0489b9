------------------------ MODULE PatchGenerationProofs ------------------------
(***************************************************************************)
(* Theorems about PatchGeneration, for any number of patches, jobs,        *)
(* workers, requests, resets and faults, whatever overlaps.                *)
(***************************************************************************)
EXTENDS PatchGeneration, FiniteSetTheorems, TLAPS

JobStatuses  == {"NONE", "QUEUED", "RETRYING", "RUNNING", "COMPLETED", "FAILED_PERMANENT"}
Requesters   == Callers \cup Reviewers
RequestType  == [step : RequestSteps, patch : Patches \cup {None}]
HandlerType  == [step : HandlerSteps, patch : Patches \cup {None}]

\* One worker executes a job, one job at a time.
RunnersFit ==
  /\ \A j \in Jobs : runners[j] # {} => status[j] = "RUNNING" /\ \E w \in Workers : runners[j] = {w}
  /\ \A i, j \in Jobs, w \in Workers : w \in runners[i] /\ w \in runners[j] => i = j

\* A handler works on the patch of the job its worker executes, and leaves it GENERATING
\* until it commits a verdict.
HandlersFit ==
  \A w \in Workers : handler[w].step # "none" =>
    /\ handler[w].patch \in Patches /\ job[handler[w].patch] \in Jobs
    /\ w \in runners[job[handler[w].patch]]
    /\ handler[w].step \in {"generating", "raised"} => patch[handler[w].patch] = "GENERATING"

\* A job that will be executed, or whose handler has not returned, is of an unfinished
\* patch; who has a verdict but no job was refused at once.
JobsFit ==
  /\ \A p, q \in Patches : job[p] # None /\ job[p] = job[q] => p = q
  /\ \A p \in Patches : job[p] # None =>
       /\ patch[p] # "NONE"
       /\ status[job[p]] # "NONE"
       /\ status[job[p]] \in {"QUEUED", "RETRYING", "FAILED_PERMANENT"}
            => patch[p] \in {"REQUESTED", "GENERATING"}
       /\ \A w \in runners[job[p]] :
            handler[w].step # "returned" => patch[p] \in {"REQUESTED", "GENERATING"}
  /\ \A p \in Patches : job[p] = None => patch[p] \in {"NONE", "REQUESTED", "FAILED"}

\* A patch whose request is about to enqueue its job has none, and no other request does.
RequestsFit ==
  /\ \A c \in Requesters :
       /\ request[c].step = "inserted" => /\ request[c].patch \in Patches
                                          /\ job[request[c].patch] = None
                                          /\ patch[request[c].patch] = "REQUESTED"
       /\ request[c].step = "ready" => /\ request[c].patch \in Patches
                                       /\ patch[request[c].patch] = "READY"
  /\ \A c, d \in Requesters :
       request[c].step = "inserted" /\ request[d].step = "inserted"
         /\ request[c].patch = request[d].patch => c = d

DecisionsFit == \A p \in Patches : decisions[p] # {} => patch[p] = "READY"

PatchInv == TypeOK /\ RunnersFit /\ HandlersFit /\ JobsFit /\ RequestsFit /\ DecisionsFit

\* What a step may do to a patch: a READY one stays, an inactive one becomes active by
\* InsertPatch only.
Tame == /\ \A p \in Patches : patch[p] = "READY" => patch'[p] = "READY"
        /\ \A p \in Patches : patch'[p] \in Active => patch[p] \in Active

-----------------------------------------------------------------------------
(* Requests. *)

LEMMA PatchInitial == Init => PatchInv
<1> SUFFICES ASSUME Init
             PROVE  PatchInv
  OBVIOUS
<1> USE DEF Init, Life!Init
<1>1. TypeOK
  BY MaxAttemptsAssumption, BoundsAssumption
    DEF TypeOK, PatchStatuses, IdleRequest, IdleHandler, RequestSteps, HandlerSteps
<1>2. RunnersFit /\ HandlersFit
  BY DEF RunnersFit, HandlersFit, IdleHandler
<1>3. JobsFit /\ DecisionsFit
  BY DEF JobsFit, DecisionsFit
<1>4. RequestsFit
  BY DEF RequestsFit, IdleRequest, Requesters
<1>5. QED
  BY <1>1, <1>2, <1>3, <1>4 DEF PatchInv

\* A request that reads, or ends.
LEMMA RequestMoves ==
  ASSUME PatchInv, NEW c \in Requesters, NEW r \in RequestType,
         request' = [request EXCEPT ![c] = r], r.step # "inserted",
         r.step = "ready" => r.patch \in Patches /\ patch[r.patch] = "READY",
         UNCHANGED <<jobVars, job, patch, decisions, handler, resets>>, faults' \in 0 .. MaxFaults
  PROVE  PatchInv' /\ Tame
<1>1. TypeOK'
  BY DEF PatchInv, TypeOK, Requesters, RequestType, jobVars
<1>2. RunnersFit' /\ HandlersFit' /\ JobsFit' /\ DecisionsFit'
  BY DEF PatchInv, RunnersFit, HandlersFit, JobsFit, DecisionsFit, jobVars
<1>3. RequestsFit'
  BY DEF PatchInv, RequestsFit, TypeOK, Requesters
<1>4. QED
  BY <1>1, <1>2, <1>3 DEF PatchInv, Tame

LEMMA RequestTyped ==
  ASSUME PatchInv, NEW c \in Requesters
  PROVE  request[c] \in RequestType /\ IdleRequest \in RequestType /\ IdleRequest.step = "idle"
BY DEF PatchInv, TypeOK, Requesters, RequestType, IdleRequest, RequestSteps

LEMMA ReadKeeps ==
  ASSUME PatchInv
  PROVE  /\ \A c \in Callers : LookForActive(c) => PatchInv' /\ Tame
         /\ \A v \in Reviewers, p \in Patches : CheckReady(v, p) => PatchInv' /\ Tame
         /\ \A c \in Requesters : RequestDies(c) => PatchInv' /\ Tame
<1>1. ASSUME NEW c \in Callers, LookForActive(c)
      PROVE  PatchInv' /\ Tame
  <2> DEFINE r == [request[c] EXCEPT !.step = "none found"]
  <2>1. r \in RequestType /\ r.step = "none found" /\ c \in Requesters
    BY RequestTyped DEF RequestType, RequestSteps, Requesters
  <2>2. request' = [request EXCEPT ![c] = r]
    BY <1>1 DEF LookForActive, PatchInv, TypeOK
  <2> HIDE DEF r
  <2>3. QED
    BY <1>1, <2>1, <2>2, RequestMoves DEF LookForActive, bounds, PatchInv, TypeOK
<1>2. ASSUME NEW v \in Reviewers, NEW p \in Patches, CheckReady(v, p)
      PROVE  PatchInv' /\ Tame
  <2> DEFINE r == [step |-> "ready", patch |-> p]
  <2>1. r \in RequestType /\ r.step = "ready" /\ r.patch = p /\ v \in Requesters
    BY DEF RequestType, RequestSteps, Requesters
  <2>2. request' = [request EXCEPT ![v] = r] /\ patch[p] = "READY"
    BY <1>2 DEF CheckReady
  <2> HIDE DEF r
  <2>3. QED
    BY <1>2, <2>1, <2>2, RequestMoves DEF CheckReady, bounds, PatchInv, TypeOK
<1>3. ASSUME NEW c \in Requesters, RequestDies(c)
      PROVE  PatchInv' /\ Tame
  <2>1. faults' \in 0 .. MaxFaults
    BY <1>3, BoundsAssumption DEF RequestDies, Fault, PatchInv, TypeOK
  <2>2. QED
    BY <1>3, <2>1, RequestTyped, RequestMoves DEF RequestDies
<1>4. QED
  BY <1>1, <1>2, <1>3

\* The row of a patch that was not there.
LEMMA InsertKeeps ==
  ASSUME PatchInv, NEW c \in Callers, NEW p \in Patches, NEW r \in RequestType, NEW s,
         patch[p] = "NONE", patch' = [patch EXCEPT ![p] = s],
         request' = [request EXCEPT ![c] = r],
         UNCHANGED <<status, attempts, runners, job, decisions, handler, resets, faults>>,
         \/ s = "REQUESTED" /\ r.step = "inserted" /\ r.patch = p
         \/ s = "FAILED" /\ r.step = "idle"
  PROVE  PatchInv' /\ \A q \in Patches : patch[q] = "READY" => patch'[q] = "READY"
<1>1. c \in Requesters /\ job[p] = None /\ decisions[p] = {} /\ s \in PatchStatuses
  BY DEF Requesters, PatchInv, JobsFit, DecisionsFit, PatchStatuses
<1>2. patch \in [Patches -> PatchStatuses] /\ request \in [Requesters -> RequestType]
  BY DEF PatchInv, TypeOK, Requesters, RequestType
<1>3. TypeOK'
  <2>1. patch' \in [Patches -> PatchStatuses] /\ request' \in [Requesters -> RequestType]
    BY <1>1, <1>2
  <2>2. QED
    BY <2>1 DEF PatchInv, TypeOK, Requesters, RequestType
<1>4. RunnersFit'
  BY DEF PatchInv, RunnersFit
<1>5. HandlersFit'
  BY <1>1, <1>2, NoneAssumption DEF PatchInv, HandlersFit
<1>6. JobsFit'
  <2>1. \A q \in Patches : q # p => patch'[q] = patch[q]
    BY <1>2
  <2>2. patch'[p] \in {"REQUESTED", "FAILED"}
    BY <1>2
  <2>3. QED
    BY <1>1, <2>1, <2>2 DEF PatchInv, JobsFit
<1>7. DecisionsFit'
  BY <1>1, <1>2 DEF PatchInv, DecisionsFit
<1>8. RequestsFit'
  <2>1. \A d \in Requesters : d # c => request'[d] = request[d]
    BY <1>2
  <2>2. request'[c] = r /\ patch'[p] = s
    BY <1>1, <1>2
  <2>3. \A q \in Patches : q # p => patch'[q] = patch[q]
    BY <1>2
  <2>4. ASSUME NEW d \in Requesters, d # c, request[d].step \in {"inserted", "ready"}
        PROVE  request[d].patch \in Patches /\ request[d].patch # p
    BY <2>4 DEF PatchInv, RequestsFit
  <2>5. QED
    BY <1>1, <2>1, <2>2, <2>3, <2>4 DEF PatchInv, RequestsFit
<1>9. \A q \in Patches : patch[q] = "READY" => patch'[q] = "READY"
  BY <1>2
<1>10. QED
  BY <1>3, <1>4, <1>5, <1>6, <1>7, <1>8, <1>9 DEF PatchInv

LEMMA EnqueueKeeps ==
  ASSUME PatchInv, NEW c \in Callers, NEW j \in Jobs, EnqueueJob(c, j)
  PROVE  PatchInv' /\ Tame
<1>0. c \in Requesters /\ j # None
  BY NoneAssumption DEF Requesters
<1>1. PICK p \in Patches : p = request[c].patch
  BY <1>0 DEF EnqueueJob, PatchInv, RequestsFit
<1>2. job[p] = None /\ patch[p] = "REQUESTED"
  BY <1>0, <1>1 DEF EnqueueJob, PatchInv, RequestsFit
<1>3. /\ status[j] = "NONE" /\ status' = [status EXCEPT ![j] = "QUEUED"]
      /\ job' = [job EXCEPT ![p] = j] /\ request' = [request EXCEPT ![c] = IdleRequest]
      /\ UNCHANGED <<attempts, runners, patch, decisions, handler, resets, faults>>
  BY <1>1 DEF EnqueueJob, Life!Create, bounds
<1>4. \A q \in Patches : job[q] # j /\ (job[q] # None => status[job[q]] # "NONE")
  BY <1>0, <1>3 DEF PatchInv, JobsFit
<1>5. runners[j] = {}
  BY <1>3 DEF PatchInv, RunnersFit
<1>6. TypeOK'
  BY <1>0, <1>3, RequestTyped DEF PatchInv, TypeOK, RequestType, Requesters
<1>7. RunnersFit'
  BY <1>3, <1>5 DEF PatchInv, RunnersFit, TypeOK
<1>8. HandlersFit'
  BY <1>2, <1>3, NoneAssumption DEF PatchInv, HandlersFit, TypeOK
<1>9. JobsFit'
  BY <1>0, <1>2, <1>3, <1>4, <1>5 DEF PatchInv, JobsFit, TypeOK
<1>10. RequestsFit'
  BY <1>0, <1>1, <1>3, RequestTyped DEF EnqueueJob, PatchInv, RequestsFit, TypeOK, Requesters
<1>11. DecisionsFit' /\ Tame
  BY <1>3 DEF PatchInv, DecisionsFit, Tame
<1>12. QED
  BY <1>6, <1>7, <1>8, <1>9, <1>10, <1>11 DEF PatchInv

LEMMA DecideKeeps ==
  ASSUME PatchInv, NEW v \in Reviewers, NEW d \in {"ACCEPTED", "REJECTED"}, CommitDecision(v, d)
  PROVE  PatchInv' /\ Tame
<1>0. v \in Requesters
  BY DEF Requesters
<1>1. PICK p \in Patches : p = request[v].patch
  BY <1>0 DEF CommitDecision, PatchInv, RequestsFit
<1>2. patch[p] = "READY"
  BY <1>0, <1>1 DEF CommitDecision, PatchInv, RequestsFit
<1>3. /\ decisions' = [decisions EXCEPT ![p] = @ \cup {d}]
      /\ request' = [request EXCEPT ![v] = IdleRequest]
      /\ UNCHANGED <<status, attempts, runners, job, patch, handler, resets, faults>>
  BY <1>1 DEF CommitDecision, jobVars, bounds
<1>4. TypeOK'
  BY <1>0, <1>3, RequestTyped DEF PatchInv, TypeOK, RequestType, Requesters
<1>5. RunnersFit' /\ HandlersFit' /\ JobsFit'
  BY <1>3 DEF PatchInv, RunnersFit, HandlersFit, JobsFit
<1>6. RequestsFit'
  BY <1>0, <1>3, RequestTyped DEF PatchInv, RequestsFit, TypeOK, Requesters
<1>7. DecisionsFit' /\ Tame
  BY <1>2, <1>3 DEF PatchInv, DecisionsFit, TypeOK, Tame
<1>8. QED
  BY <1>4, <1>5, <1>6, <1>7 DEF PatchInv

-----------------------------------------------------------------------------
(* Jobs and handlers. *)

\* The handler's commit on an unfinished patch that has a job.
LEMMA WriteIsTame ==
  ASSUME PatchInv, NEW p \in Patches, NEW s \in {"GENERATING"} \cup Verdicts,
         job[p] # None, patch[p] \in {"REQUESTED", "GENERATING"},
         patch' = [patch EXCEPT ![p] = s], UNCHANGED <<job, decisions, request>>
  PROVE  RequestsFit' /\ DecisionsFit' /\ Tame /\ patch' \in [Patches -> PatchStatuses]
<1>1. patch \in [Patches -> PatchStatuses] /\ s \in PatchStatuses
  BY DEF PatchInv, TypeOK, PatchStatuses, Verdicts
<1>2. patch'[p] = s /\ \A q \in Patches : q # p => patch'[q] = patch[q]
  BY <1>1
<1>3. RequestsFit'
  BY <1>2 DEF PatchInv, RequestsFit
<1>4. DecisionsFit' /\ Tame
  BY <1>2 DEF PatchInv, DecisionsFit, Tame, Active
<1>5. QED
  BY <1>1, <1>3, <1>4

LEMMA StartKeeps ==
  ASSUME PatchInv, NEW w \in Workers, NEW j \in Jobs, Start(w, j)
  PROVE  PatchInv' /\ Tame
<1>1. /\ \A i \in Jobs : w \notin runners[i]
      /\ status[j] \in {"QUEUED", "RETRYING"}
      /\ status' = [status EXCEPT ![j] = "RUNNING"]
      /\ runners' = [runners EXCEPT ![j] = {w}]
      /\ UNCHANGED <<attempts, job, patch, decisions, request, handler, resets, faults>>
  BY DEF Start, Life!Start, bounds
<1>2. runners[j] = {} /\ handler[w].step = "none"
  BY <1>1 DEF PatchInv, RunnersFit, HandlersFit
<1>3. TypeOK'
  BY <1>1 DEF PatchInv, TypeOK
<1>4. RunnersFit'
  BY <1>1 DEF PatchInv, RunnersFit, TypeOK
<1>5. HandlersFit'
  BY <1>1, <1>2 DEF PatchInv, HandlersFit, TypeOK
<1>6. JobsFit'
  BY <1>1, <1>2 DEF PatchInv, JobsFit, TypeOK
<1>7. RequestsFit' /\ DecisionsFit' /\ Tame
  BY <1>1 DEF PatchInv, RequestsFit, DecisionsFit, Tame
<1>8. QED
  BY <1>3, <1>4, <1>5, <1>6, <1>7 DEF PatchInv

LEMMA BeginKeeps ==
  ASSUME PatchInv, NEW w \in Workers, NEW p \in Patches, BeginGeneration(w, p)
  PROVE  PatchInv' /\ Tame
<1> DEFINE h == [step |-> "generating", patch |-> p]
<1>1. h \in HandlerType /\ h.step = "generating" /\ h.patch = p
  BY DEF HandlerType, HandlerSteps
<1>2. /\ job[p] # None /\ w \in runners[job[p]] /\ handler[w].step = "none"
      /\ patch' = [patch EXCEPT ![p] = "GENERATING"]
      /\ handler' = [handler EXCEPT ![w] = h]
      /\ UNCHANGED <<status, attempts, runners, job, decisions, request, resets, faults>>
  BY DEF BeginGeneration, jobVars, bounds
<1> HIDE DEF h
<1>3. job[p] \in Jobs /\ patch[p] \in {"REQUESTED", "GENERATING"}
  BY <1>2 DEF PatchInv, JobsFit, TypeOK
<1>4. RequestsFit' /\ DecisionsFit' /\ Tame /\ patch' \in [Patches -> PatchStatuses]
  BY <1>2, <1>3, WriteIsTame
<1>5. /\ handler' \in [Workers -> HandlerType] /\ handler'[w] = h
      /\ \A v \in Workers : v # w => handler'[v] = handler[v]
      /\ patch'[p] = "GENERATING" /\ \A q \in Patches : q # p => patch'[q] = patch[q]
  BY <1>1, <1>2 DEF PatchInv, TypeOK, HandlerType
<1>6. TypeOK'
  BY <1>2, <1>4, <1>5 DEF PatchInv, TypeOK, HandlerType
<1>7. RunnersFit'
  BY <1>2 DEF PatchInv, RunnersFit
<1>8. HandlersFit'
  BY <1>1, <1>2, <1>3, <1>5 DEF PatchInv, HandlersFit
<1>9. JobsFit'
  BY <1>1, <1>2, <1>5 DEF PatchInv, JobsFit, RunnersFit, TypeOK
<1>10. QED
  BY <1>4, <1>6, <1>7, <1>8, <1>9 DEF PatchInv

LEMMA FinishKeeps ==
  ASSUME PatchInv, NEW w \in Workers, NEW s \in Verdicts, FinishGeneration(w, s)
  PROVE  PatchInv' /\ Tame
<1>1. PICK p \in Patches : p = handler[w].patch
  BY DEF FinishGeneration, PatchInv, HandlersFit
<1> DEFINE h == [handler[w] EXCEPT !.step = "returned"]
<1>2. h \in HandlerType /\ h.step = "returned" /\ h.patch = p
  BY <1>1 DEF PatchInv, TypeOK, HandlerType, HandlerSteps
<1>3. /\ handler[w].step = "generating"
      /\ patch' = [patch EXCEPT ![p] = s]
      /\ handler' = [handler EXCEPT ![w] = h]
      /\ UNCHANGED <<status, attempts, runners, job, decisions, request, resets, faults>>
  BY <1>1 DEF FinishGeneration, jobVars, bounds, PatchInv, TypeOK
<1> HIDE DEF h
<1>4. job[p] \in Jobs /\ w \in runners[job[p]] /\ patch[p] = "GENERATING"
  BY <1>1, <1>3 DEF PatchInv, HandlersFit
<1>5. RequestsFit' /\ DecisionsFit' /\ Tame /\ patch' \in [Patches -> PatchStatuses]
  BY <1>3, <1>4, WriteIsTame, NoneAssumption
<1>6. /\ handler' \in [Workers -> HandlerType] /\ handler'[w] = h
      /\ \A v \in Workers : v # w => handler'[v] = handler[v]
      /\ \A q \in Patches : q # p => patch'[q] = patch[q]
  BY <1>2, <1>3 DEF PatchInv, TypeOK, HandlerType
<1>7. TypeOK'
  BY <1>3, <1>5, <1>6 DEF PatchInv, TypeOK, HandlerType
<1>8. RunnersFit' /\ status[job[p]] = "RUNNING" /\ runners[job[p]] = {w}
  BY <1>3, <1>4 DEF PatchInv, RunnersFit
<1>9. HandlersFit'
  BY <1>2, <1>3, <1>4, <1>6, <1>8 DEF PatchInv, HandlersFit
<1>10. JobsFit'
  <2>1. patch'[p] \in Verdicts
    BY <1>3, <1>5 DEF PatchInv, TypeOK
  <2>2. ASSUME NEW q \in Patches, q # p, job[q] # None
        PROVE  w \notin runners[job[q]]
    BY <1>4, <2>2 DEF PatchInv, JobsFit, RunnersFit, TypeOK
  <2>3. QED
    BY <1>2, <1>3, <1>4, <1>6, <1>8, <2>1, <2>2, NoneAssumption DEF PatchInv, JobsFit, Verdicts
<1>11. QED
  BY <1>5, <1>7, <1>8, <1>9, <1>10 DEF PatchInv

LEMMA RaiseKeeps ==
  ASSUME PatchInv, NEW w \in Workers, GenerationRaises(w)
  PROVE  PatchInv' /\ Tame
<1> DEFINE h == [handler[w] EXCEPT !.step = "raised"]
<1>1. h \in HandlerType /\ h.step = "raised" /\ h.patch = handler[w].patch
  BY DEF PatchInv, TypeOK, HandlerType, HandlerSteps
<1>2. /\ handler[w].step = "generating"
      /\ handler' = [handler EXCEPT ![w] = h]
      /\ UNCHANGED <<status, attempts, runners, job, patch, decisions, request, resets, faults>>
  BY DEF GenerationRaises, jobVars, bounds, PatchInv, TypeOK
<1> HIDE DEF h
<1>3. /\ handler' \in [Workers -> HandlerType] /\ handler'[w] = h
      /\ \A v \in Workers : v # w => handler'[v] = handler[v]
  BY <1>1, <1>2 DEF PatchInv, TypeOK, HandlerType
<1>4. TypeOK'
  BY <1>2, <1>3 DEF PatchInv, TypeOK, HandlerType
<1>5. HandlersFit'
  BY <1>1, <1>2, <1>3 DEF PatchInv, HandlersFit
<1>6. JobsFit'
  BY <1>1, <1>2, <1>3 DEF PatchInv, JobsFit, TypeOK
<1>7. RunnersFit' /\ RequestsFit' /\ DecisionsFit' /\ Tame
  BY <1>2 DEF PatchInv, RunnersFit, RequestsFit, DecisionsFit, Tame
<1>8. QED
  BY <1>4, <1>5, <1>6, <1>7 DEF PatchInv

\* An execution ends: with a verdict, by an exception, or with its worker.
LEMMA EndKeeps ==
  ASSUME PatchInv, NEW w \in Workers, NEW j \in Jobs,
         NEW new \in {"RUNNING", "COMPLETED", "QUEUED", "RETRYING", "FAILED_PERMANENT"},
         new \in {"RUNNING", "COMPLETED"} \/ handler[w].step = "raised",
         status[j] = "RUNNING", runners[j] = {w},
         status' = [status EXCEPT ![j] = new], runners' = [runners EXCEPT ![j] = {}],
         handler' = [handler EXCEPT ![w] = IdleHandler],
         attempts' \in [Jobs -> 0 .. MaxAttempts], faults' \in 0 .. MaxFaults,
         UNCHANGED <<job, patch, decisions, request, resets>>
  PROVE  PatchInv' /\ Tame
<1>1. IdleHandler \in HandlerType /\ IdleHandler.step = "none"
  BY DEF HandlerType, IdleHandler, HandlerSteps
<1>2. /\ handler' \in [Workers -> HandlerType] /\ handler'[w] = IdleHandler
      /\ \A v \in Workers : v # w => handler'[v] = handler[v]
  BY <1>1 DEF PatchInv, TypeOK, HandlerType
<1>3. /\ status'[j] = new /\ runners'[j] = {}
      /\ \A i \in Jobs : i # j => status'[i] = status[i] /\ runners'[i] = runners[i]
  BY DEF PatchInv, TypeOK
<1>4. TypeOK'
  BY <1>2 DEF PatchInv, TypeOK, HandlerType
<1>5. RunnersFit'
  BY <1>3 DEF PatchInv, RunnersFit
<1>6. HandlersFit'
  BY <1>1, <1>2, <1>3 DEF PatchInv, HandlersFit
<1>7. \A i \in Jobs : i # j => w \notin runners[i]
  BY DEF PatchInv, RunnersFit
<1>8. ASSUME NEW p \in Patches, job[p] = j, new \notin {"RUNNING", "COMPLETED"}
      PROVE  patch[p] = "GENERATING"
  <2>1. handler[w].patch \in Patches /\ w \in runners[job[handler[w].patch]]
        /\ job[handler[w].patch] \in Jobs /\ patch[handler[w].patch] = "GENERATING"
    BY <1>8 DEF PatchInv, HandlersFit
  <2>2. job[handler[w].patch] = j
    BY <1>7, <2>1
  <2>3. handler[w].patch = p
    BY <1>8, <2>1, <2>2, NoneAssumption DEF PatchInv, JobsFit
  <2>4. QED
    BY <2>1, <2>3
<1>9. JobsFit'
  <2>1. ASSUME NEW p \in Patches, job[p] # None
        PROVE  /\ status'[job[p]] # "NONE"
               /\ status'[job[p]] \in {"QUEUED", "RETRYING", "FAILED_PERMANENT"}
                    => patch[p] \in {"REQUESTED", "GENERATING"}
               /\ \A v \in runners'[job[p]] :
                    handler'[v].step # "returned" => patch[p] \in {"REQUESTED", "GENERATING"}
    <3>1. CASE job[p] = j
      BY <1>3, <1>8, <3>1
    <3>2. CASE job[p] # j
      <4>1. job[p] \in Jobs
        BY <2>1 DEF PatchInv, TypeOK
      <4>2. \A v \in runners[job[p]] : v \in Workers /\ v # w
        BY <1>7, <3>2, <4>1 DEF PatchInv, TypeOK
      <4>3. QED
        BY <1>2, <1>3, <2>1, <3>2, <4>1, <4>2 DEF PatchInv, JobsFit
    <3>3. QED
      BY <3>1, <3>2
  <2>2. QED
    BY <2>1 DEF PatchInv, JobsFit
<1>10. RequestsFit' /\ DecisionsFit' /\ Tame
  BY DEF PatchInv, RequestsFit, DecisionsFit, Tame
<1>11. QED
  BY <1>4, <1>5, <1>6, <1>9, <1>10 DEF PatchInv

LEMMA EndJobKeeps ==
  ASSUME PatchInv, NEW w \in Workers, NEW j \in Jobs, EndJob(w, j)
  PROVE  PatchInv' /\ Tame
<1>1. /\ UNCHANGED <<job, patch, decisions, request, resets>> /\ faults' \in 0 .. MaxFaults
      /\ handler' = [handler EXCEPT ![w] = IdleHandler]
  BY DEF EndJob, bounds, PatchInv, TypeOK
<1>2. attempts \in [Jobs -> 0 .. MaxAttempts]
  BY DEF PatchInv, TypeOK
<1>3. CASE Life!Complete(j, w)
  BY <1>1, <1>2, <1>3, EndKeeps DEF Life!Complete, Life!End
<1>4. CASE handler[w].step = "raised" /\ Life!Fail(j, w)
  BY <1>1, <1>2, <1>4, EndKeeps DEF Life!Fail, Life!End
<1>5. CASE handler[w].step = "raised" /\ Life!Retry(j, w)
  <2>1. attempts' \in [Jobs -> 0 .. MaxAttempts]
    BY <1>2, <1>5, MaxAttemptsAssumption DEF Life!Retry
  <2> DEFINE new == IF attempts[j] = 0 THEN "QUEUED" ELSE "RETRYING"
  <2>2. new \in {"QUEUED", "RETRYING"} /\ Life!End(j, w, new)
    BY <1>5 DEF Life!Retry
  <2> HIDE DEF new
  <2>3. PICK s \in {"QUEUED", "RETRYING"} : Life!End(j, w, s)
    BY <2>2
  <2>4. QED
    BY <1>1, <1>5, <2>1, <2>3, EndKeeps DEF Life!End
<1>6. QED
  BY <1>3, <1>4, <1>5 DEF EndJob

LEMMA AbandonKeeps ==
  ASSUME PatchInv, NEW w \in Workers, NEW j \in Jobs, Abandon(w, j)
  PROVE  PatchInv' /\ Tame
<1>1. faults' \in 0 .. MaxFaults
  BY BoundsAssumption DEF Abandon, Fault, PatchInv, TypeOK
<1>2. attempts' \in [Jobs -> 0 .. MaxAttempts] /\ status' = [status EXCEPT ![j] = "RUNNING"]
  BY DEF Abandon, Life!Abandon, PatchInv, TypeOK
<1>3. QED
  BY <1>1, <1>2, EndKeeps DEF Abandon, Life!Abandon

LEMMA ResetKeeps ==
  ASSUME PatchInv, NEW j \in Jobs, ResetJob(j)
  PROVE  PatchInv' /\ Tame
<1>1. /\ status[j] = "FAILED_PERMANENT"
      /\ status' = [status EXCEPT ![j] = "QUEUED"]
      /\ attempts' = [attempts EXCEPT ![j] = 0]
      /\ resets' \in 0 .. MaxResets
      /\ UNCHANGED <<runners, job, patch, decisions, request, handler, faults>>
  BY BoundsAssumption DEF ResetJob, Life!Reset, PatchInv, TypeOK
<1>2. runners[j] = {}
  BY <1>1 DEF PatchInv, RunnersFit
<1>3. TypeOK'
  BY <1>1, MaxAttemptsAssumption DEF PatchInv, TypeOK
<1>4. RunnersFit'
  BY <1>1, <1>2 DEF PatchInv, RunnersFit, TypeOK
<1>5. HandlersFit'
  BY <1>1 DEF PatchInv, HandlersFit
<1>6. JobsFit'
  BY <1>1 DEF PatchInv, JobsFit, TypeOK
<1>7. RequestsFit' /\ DecisionsFit' /\ Tame
  BY <1>1 DEF PatchInv, RequestsFit, DecisionsFit, Tame
<1>8. QED
  BY <1>3, <1>4, <1>5, <1>6, <1>7 DEF PatchInv

-----------------------------------------------------------------------------
(* The step, and the theorems. *)

ReadyStays == \A p \in Patches : patch[p] = "READY" => patch'[p] = "READY"

\* Every step keeps the invariant and the READY patches; a patch becomes active by an
\* insertion only.
LEMMA PatchStep ==
  ASSUME PatchInv, [Next]_vars
  PROVE  /\ PatchInv' /\ ReadyStays
         /\ Tame \/ \E c \in Callers, p \in Patches : InsertPatch(c, p)
<1>1. CASE UNCHANGED vars
  BY <1>1 DEF vars, PatchInv, TypeOK, RunnersFit, HandlersFit, JobsFit, RequestsFit, DecisionsFit,
              Tame, ReadyStays
<1>2. ASSUME NEW c \in Callers, NEW p \in Patches, InsertPatch(c, p)
      PROVE  PatchInv' /\ ReadyStays
  <2> DEFINE r == [step |-> "inserted", patch |-> p]
  <2>1. r \in RequestType /\ r.step = "inserted" /\ r.patch = p
    BY DEF RequestType, RequestSteps
  <2>2. /\ patch[p] = "NONE" /\ patch' = [patch EXCEPT ![p] = "REQUESTED"]
        /\ request' = [request EXCEPT ![c] = r]
        /\ UNCHANGED <<status, attempts, runners, job, decisions, handler, resets, faults>>
    BY <1>2 DEF InsertPatch, jobVars, bounds
  <2> HIDE DEF r
  <2>3. QED
    BY <2>1, <2>2, InsertKeeps DEF ReadyStays
<1>3. ASSUME NEW c \in Callers, NEW p \in Patches, InsertUnavailable(c, p)
      PROVE  PatchInv' /\ Tame
  <2>1. IdleRequest \in RequestType /\ IdleRequest.step = "idle"
    BY RequestTyped DEF Requesters
  <2>2. /\ patch[p] = "NONE" /\ patch' = [patch EXCEPT ![p] = "FAILED"]
        /\ request' = [request EXCEPT ![c] = IdleRequest]
        /\ UNCHANGED <<status, attempts, runners, job, decisions, handler, resets, faults>>
    BY <1>3 DEF InsertUnavailable, jobVars, bounds
  <2>3. PatchInv'
    BY <2>1, <2>2, InsertKeeps
  <2>4. Tame
    BY <2>2 DEF Tame, Active, PatchInv, TypeOK
  <2>5. QED
    BY <2>3, <2>4
<1>4. ASSUME NEW c \in Callers, LookForActive(c)
      PROVE  PatchInv' /\ Tame
  BY <1>4, ReadKeeps
<1>5. ASSUME NEW c \in Callers, NEW j \in Jobs, EnqueueJob(c, j)
      PROVE  PatchInv' /\ Tame
  BY <1>5, EnqueueKeeps
<1>6. ASSUME NEW v \in Reviewers,
             DecideStep(v) \/ \E p \in Patches : CheckReady(v, p)
      PROVE  PatchInv' /\ Tame
  BY <1>6, ReadKeeps, DecideKeeps DEF DecideStep
<1>7. ASSUME NEW c \in Callers \cup Reviewers, RequestDies(c)
      PROVE  PatchInv' /\ Tame
  BY <1>7, ReadKeeps DEF Requesters
<1>8. ASSUME NEW w \in Workers,
             HandlerStep(w) \/ \E j \in Jobs : Start(w, j) \/ Abandon(w, j)
      PROVE  PatchInv' /\ Tame
  BY <1>8, StartKeeps, BeginKeeps, FinishKeeps, RaiseKeeps, EndJobKeeps, AbandonKeeps
    DEF HandlerStep
<1>9. ASSUME NEW j \in Jobs, ResetJob(j)
      PROVE  PatchInv' /\ Tame
  BY <1>9, ResetKeeps
<1>10. CASE Next
  BY <1>2, <1>3, <1>4, <1>5, <1>6, <1>7, <1>8, <1>9, <1>10
    DEF Next, GenerateStep, StartSome, Tame, ReadyStays
<1>11. QED
  BY <1>1, <1>10

LEMMA PatchInvariant == Spec => []PatchInv
<1>1. PatchInv /\ [Next]_vars => PatchInv'
  BY PatchStep
<1>2. QED
  BY PatchInitial, <1>1, PTL DEF Spec

\* The rows and the locals of generate_patch, decide_patch and handle_job are well typed,
\* and the attempts of a patch's job never exceed the configured maximum.
THEOREM PatchTypes == Spec => []TypeOK
<1>1. PatchInv => TypeOK
  BY DEF PatchInv
<1>2. QED
  BY PatchInvariant, <1>1, PTL

\* Only a READY diff is decided about, and no later execution, retry or reset of its job
\* touches a READY patch again: decide_patch's check cannot be overtaken by a worker.
THEOREM DecidedStays == Spec => DecidedPatchStays
<1>1. ASSUME PatchInv, [Next]_vars
      PROVE  [\A p \in Patches : patch[p] = "READY" \/ decisions'[p] # {} => patch'[p] = "READY"]_vars
  BY <1>1, PatchStep DEF PatchInv, DecisionsFit, ReadyStays
<1>2. QED
  BY PatchInvariant, <1>1, PTL DEF Spec, DecidedPatchStays

\* The active patches, and the requests that are between their SELECT and their INSERT.
ActivePatches == {p \in Patches : patch[p] \in Active}
Inserters     == {c \in Callers : request[c].step = "none found"}

\* Each request that may still insert leaves room for its patch.
RoomForInserters ==
  /\ IsFiniteSet(ActivePatches)
  /\ Cardinality(ActivePatches) + Cardinality(Inserters) <= Cardinality(Callers)

\* A request is between its SELECT and its INSERT because the SELECT found nothing.
LEMMA FoundByLooking ==
  ASSUME PatchInv, [Next]_vars, NEW c \in Callers, request'[c].step = "none found"
  PROVE  request[c].step = "none found" \/ \A p \in Patches : patch[p] \notin Active
<1>1. request \in [Requesters -> RequestType] /\ c \in Requesters
  BY DEF PatchInv, TypeOK, Requesters, RequestType
<1>2. CASE UNCHANGED request
  BY <1>2
<1>3. ASSUME NEW d \in Requesters, NEW r \in [step : {"idle", "inserted", "ready"}, patch : Patches \cup {None}],
             request' = [request EXCEPT ![d] = r]
      PROVE  request[c].step = "none found"
  BY <1>1, <1>3
<1>4. ASSUME NEW d \in Callers, LookForActive(d)
      PROVE  \A p \in Patches : patch[p] \notin Active
  BY <1>4 DEF LookForActive
<1>5. ASSUME NEW d \in Callers, GenerateStep(d)
      PROVE  request[c].step = "none found"
  BY <1>3, <1>5 DEF GenerateStep, InsertPatch, InsertUnavailable, EnqueueJob, IdleRequest, Requesters
<1>6. ASSUME NEW v \in Reviewers, DecideStep(v) \/ \E p \in Patches : CheckReady(v, p)
      PROVE  request[c].step = "none found"
  BY <1>3, <1>6 DEF DecideStep, CommitDecision, CheckReady, IdleRequest, Requesters
<1>7. ASSUME NEW d \in Requesters, RequestDies(d)
      PROVE  request[c].step = "none found"
  BY <1>3, <1>7 DEF RequestDies, IdleRequest
<1>8. CASE UNCHANGED vars
  BY <1>2, <1>8 DEF vars
<1>9. CASE StartSome \/ (\E w \in Workers : HandlerStep(w) \/ \E j \in Jobs : Abandon(w, j))
           \/ \E j \in Jobs : ResetJob(j)
  BY <1>2, <1>9 DEF StartSome, Start, HandlerStep, BeginGeneration, FinishGeneration,
                    GenerationRaises, EndJob, Abandon, ResetJob
<1>10. CASE Next
  BY <1>4, <1>5, <1>6, <1>7, <1>9, <1>10 DEF Next, Requesters
<1>11. QED
  BY <1>8, <1>10

LEMMA InsertersAreFinite ==
  /\ Cardinality(Callers) \in Nat
  /\ IsFiniteSet(Inserters) /\ Cardinality(Inserters) \in Nat
  /\ Cardinality(Inserters) <= Cardinality(Callers)
BY CallersAssumption, FS_Subset, FS_CardinalityType DEF Inserters

\* An insertion uses up the room of its request, and a SELECT makes room for its own only
\* when there is nothing active.
LEMMA RoomIsKept ==
  ASSUME PatchInv, RoomForInserters, [Next]_vars
  PROVE  RoomForInserters'
<1> DEFINE A == ActivePatches
           I == Inserters
<1>1. /\ IsFiniteSet(A) /\ Cardinality(A) \in Nat /\ IsFiniteSet(I) /\ Cardinality(I) \in Nat
      /\ Cardinality(Callers) \in Nat /\ Cardinality(A) + Cardinality(I) <= Cardinality(Callers)
  BY InsertersAreFinite, FS_CardinalityType DEF RoomForInserters
<1>2. I' \subseteq Callers
  BY DEF Inserters
<1>3. IsFiniteSet(I') /\ Cardinality(I') \in Nat /\ Cardinality(I') <= Cardinality(Callers)
  BY <1>2, CallersAssumption, FS_Subset, FS_CardinalityType
<1>4. CASE Tame
  <2>1. A' \subseteq A
    BY <1>4 DEF Tame, ActivePatches
  <2>2. IsFiniteSet(A') /\ Cardinality(A') \in Nat /\ Cardinality(A') <= Cardinality(A)
    BY <1>1, <2>1, FS_Subset, FS_CardinalityType
  <2>3. CASE I' \subseteq I
    <3>1. Cardinality(I') <= Cardinality(I)
      BY <1>1, <2>3, FS_Subset
    <3> HIDE DEF A, I
    <3>2. QED
      BY <1>1, <1>3, <2>2, <3>1 DEF RoomForInserters, A, I
  <2>4. CASE ~ (I' \subseteq I)
    <3>1. PICK c \in Callers : request'[c].step = "none found" /\ request[c].step # "none found"
      BY <2>4 DEF Inserters
    <3>2. A = {}
      BY <3>1, FoundByLooking DEF ActivePatches
    <3>3. A' = {} /\ Cardinality(A') = 0
      BY <2>1, <3>2, FS_EmptySet
    <3> HIDE DEF A, I
    <3>4. QED
      BY <1>1, <1>3, <2>2, <3>3 DEF RoomForInserters, A, I
  <2>5. QED
    BY <2>3, <2>4
<1>5. ASSUME NEW c \in Callers, NEW p \in Patches, InsertPatch(c, p)
      PROVE  RoomForInserters'
  <2>1. A' = A \cup {p} /\ p \notin A
    BY <1>5 DEF InsertPatch, PatchInv, TypeOK, ActivePatches, Active
  <2>2. I' = I \ {c} /\ c \in I
    BY <1>5 DEF InsertPatch, PatchInv, TypeOK, Inserters
  <2> HIDE DEF A, I
  <2>3. IsFiniteSet(A') /\ Cardinality(A') = Cardinality(A) + 1
    BY <1>1, <2>1, FS_AddElement
  <2>4. Cardinality(I') = Cardinality(I) - 1
    BY <1>1, <2>2, FS_RemoveElement
  <2>5. QED
    BY <1>1, <2>3, <2>4 DEF RoomForInserters, A, I
<1>6. QED
  BY <1>4, <1>5, PatchStep

\* However generate requests overlap, and whatever workers, reviewers, resets and killed
\* processes do in between, an analysis has no more active suggestions than requests overlap,
\* and one when none do: nothing but the SELECT of generate_patch makes a patch active.
THEOREM ActivePatchesBounded == Spec => []ActivePatchesAreFew
<1>1. Init => RoomForInserters
  <2> SUFFICES ASSUME Init
               PROVE  RoomForInserters
    OBVIOUS
  <2>1. ActivePatches = {} /\ Inserters = {}
    BY DEF Init, ActivePatches, Inserters, Active, IdleRequest
  <2>2. QED
    BY <2>1, InsertersAreFinite, FS_EmptySet DEF RoomForInserters
<1>2. PatchInv /\ RoomForInserters /\ [Next]_vars => RoomForInserters'
  BY RoomIsKept
<1>3. RoomForInserters => ActivePatchesAreFew
  <2> SUFFICES ASSUME RoomForInserters
               PROVE  ActivePatchesAreFew
    OBVIOUS
  <2>1. Cardinality(ActivePatches) \in Nat
    BY FS_CardinalityType DEF RoomForInserters
  <2> DEFINE a == Cardinality(ActivePatches)
  <2> HIDE DEF a
  <2>2. a \in Nat /\ a + Cardinality(Inserters) <= Cardinality(Callers)
    BY <2>1 DEF RoomForInserters, a
  <2>3. a <= Cardinality(Callers)
    BY <2>2, InsertersAreFinite
  <2>4. QED
    BY <2>3 DEF a, ActivePatches, ActivePatchesAreFew
<1>4. QED
  BY PatchInvariant, <1>1, <1>2, <1>3, PTL DEF Spec

=============================================================================
