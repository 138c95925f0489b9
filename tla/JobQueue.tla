------------------------------- MODULE JobQueue -------------------------------
(***************************************************************************)
(* The job table, the Redis list and the worker processes of PipelineMedic *)
(* in Redis mode: app/services/jobs.py, app/worker.py (_claim, process_job,*)
(* consume) and the manual retry route of app/main.py.                     *)
(*                                                                         *)
(* The jobs table is the source of truth; the Redis list only carries job  *)
(* ids.  Every SELECT, every COMMIT and every Redis command is a step of   *)
(* its own, because other processes run between any two of them.  An ORM   *)
(* commit writes only the columns whose value differs from the one the     *)
(* session loaded, by primary key and without a version check: Written     *)
(* below.  Job payloads, timestamps and error texts are left out;          *)
(* next_retry_at is too, because no consumer ever reads it.                *)
(***************************************************************************)
EXTENDS Integers, Sequences, FiniteSets

CONSTANTS
  Jobs,              \* rows of the jobs table, present or not yet inserted
  Workers,           \* worker processes running consume()
  Callers,           \* concurrent API requests, each a thread of the backend
  Keys,              \* (organization_id, workflow_run_id, run_attempt) triples
  Deliveries,        \* values of the X-GitHub-Delivery header
  None,              \* a NULL column, a free lock, no job
  MaxAttempts,       \* settings.worker_max_attempts
  LocksExpire,       \* may a lock outlive its 30 s TTL while it is held?
  MaxManualRetries,  \* bound: how often users press retry
  MaxDisruptions     \* bound: process crashes and failing Redis calls

ASSUME MaxAttemptsAssumption == MaxAttempts \in Nat \ {0}
ASSUME BoundsAssumption == /\ MaxManualRetries \in Nat
                           /\ MaxDisruptions \in Nat
                           /\ LocksExpire \in BOOLEAN
ASSUME CallersAssumption == IsFiniteSet(Callers)
ASSUME NoneAssumption == None \notin Jobs \cup Workers \cup Keys \cup Deliveries

VARIABLES
  status,         \* jobs.status; "NONE" for a row not inserted yet
  attempts,       \* jobs.attempts
  key,            \* the columns enqueue deduplicates on
  delivery,       \* jobs.delivery_id, a UNIQUE column
  queue,          \* the Redis list settings.redis_queue_name
  lock,           \* pipelinemedic:job-lock:<id>, as the worker whose token it holds
  worker,         \* program counter and locals of each worker
  call,           \* program counter and locals of each API request
  runs,           \* history: handler starts since the row was inserted or reset
  manualRetries,  \* retry requests accepted so far
  disruptions     \* crashes and Redis failures so far

jobRow  == <<status, attempts, key, delivery>>
bounds  == <<manualRetries, disruptions>>
vars    == <<status, attempts, key, delivery, queue, lock, worker, call, runs,
             manualRetries, disruptions>>

Claimable == {"QUEUED", "RETRYING"}
\* Mutation of Retryable: the route forgets that a running job may not be retried.
RetryableOrRunning == {"FAILED", "FAILED_PERMANENT", "RUNNING"}

Retryable == {"FAILED", "FAILED_PERMANENT"}
Statuses  == Claimable \cup Retryable \cup {"NONE", "RUNNING", "COMPLETED"}

\* A worker's program counter:
\*   popped      BLPOP returned its job id       claimed   _claim committed RUNNING
\*   handling    in handler(claimed)             loading   about to db.get the row
\*   committing  row loaded, commit pending      publishing  RETRYING committed
\*   releasing   in `finally`, before GET        deleting  GET matched, before DEL
WorkerSteps == {"down", "idle", "popped", "claimed", "handling", "loading",
                "committing", "publishing", "releasing", "deleting"}
Outcomes    == {"none", "returned", "temporary", "permanent"}
CallSteps   == {"idle", "checked", "loaded", "publishing"}

\* The locals of process_job and of a route, the row as loaded among them.
WorkerType == [step : WorkerSteps, job : Jobs \cup {None}, token : BOOLEAN,
               outcome : Outcomes, seenStatus : Statuses, seenAttempts : 0..MaxAttempts]
CallType   == [step : CallSteps, job : Jobs \cup {None}, key : Keys \cup {None},
               delivery : Deliveries \cup {None}, seenStatus : Statuses,
               seenAttempts : 0..MaxAttempts]

IdleWorker == [step |-> "idle", job |-> None, token |-> FALSE, outcome |-> "none",
               seenStatus |-> "NONE", seenAttempts |-> 0]
IdleCall   == [step |-> "idle", job |-> None, key |-> None, delivery |-> None,
               seenStatus |-> "NONE", seenAttempts |-> 0]

-----------------------------------------------------------------------------
(* What the steps are built from. *)

\* The column after an ORM commit of `new` by a session that loaded `seen`.
Written(current, seen, new) == IF new = seen THEN current ELSE new

Disrupt == /\ disruptions < MaxDisruptions
           /\ disruptions' = disruptions + 1

\* Worker w moves on; its other locals stay.
Goto(w, next) == worker' = [worker EXCEPT ![w].step = next]

\* process_job is over for w, by return or by an exception consume() catches.
Finish(w) == worker' = [worker EXCEPT ![w] = IdleWorker]

\* Mutation of AfterRelease: the except branches do not return.
AfterReleaseFallsThrough(w) ==
  worker' = [worker EXCEPT ![w].step = "loading", ![w].outcome = "returned",
                           ![w].token = FALSE]

\* After `finally`: commit COMPLETED if the handler returned, else done.  The
\* token is not used again.
AfterRelease(w) ==
  IF worker[w].outcome = "returned"
  THEN worker' = [worker EXCEPT ![w].step = "loading", ![w].token = FALSE]
  ELSE Finish(w)

\* w has claimed j and not yet committed what came of it.
Executes(w, j) ==
  /\ worker[w].job = j
  /\ \/ worker[w].step \in {"claimed", "handling", "loading", "committing"}
     \/ worker[w].step \in {"releasing", "deleting"} /\ worker[w].outcome = "returned"

Init ==
  /\ status = [j \in Jobs |-> "NONE"]
  /\ attempts = [j \in Jobs |-> 0]
  /\ key = [j \in Jobs |-> None]
  /\ delivery = [j \in Jobs |-> None]
  /\ queue = <<>>
  /\ lock = [j \in Jobs |-> None]
  /\ worker = [w \in Workers |-> IdleWorker]
  /\ call = [c \in Callers |-> IdleCall]
  /\ runs = [j \in Jobs |-> 0]
  /\ manualRetries = 0
  /\ disruptions = 0

-----------------------------------------------------------------------------
(* jobs.enqueue, called by the webhook, pr_comments and patch routes. *)

\* Mutation of CheckDuplicate: only jobs that are not over yet count as duplicates.
CheckDuplicateUnfinished(c, k, d) ==
  /\ call[c].step = "idle"
  /\ \A j \in Jobs : key[j] = k => status[j] \in Retryable \cup {"COMPLETED"}
  /\ call' = [call EXCEPT ![c] = [IdleCall EXCEPT !.step = "checked", !.key = k,
                                                  !.delivery = d]]
  /\ UNCHANGED <<jobRow, queue, lock, worker, runs, bounds>>

\* The deduplicating SELECT finds no row; when it finds one, enqueue returns
\* that row and changes nothing, whatever the row's status is.
CheckDuplicate(c, k, d) ==
  /\ call[c].step = "idle"
  /\ \A j \in Jobs : key[j] # k
  /\ call' = [call EXCEPT ![c] = [IdleCall EXCEPT !.step = "checked", !.key = k,
                                                  !.delivery = d]]
  /\ UNCHANGED <<jobRow, queue, lock, worker, runs, bounds>>

DeliveryTaken(d) == d # None /\ \E j \in Jobs : delivery[j] = d

Insert(c, j) ==
  /\ call[c].step = "checked"
  /\ status[j] = "NONE"
  /\ ~ DeliveryTaken(call[c].delivery)
  /\ status' = [status EXCEPT ![j] = "QUEUED"]
  /\ key' = [key EXCEPT ![j] = call[c].key]
  /\ delivery' = [delivery EXCEPT ![j] = call[c].delivery]
  /\ call' = [call EXCEPT ![c].step = "publishing", ![c].job = j]
  /\ UNCHANGED <<attempts, queue, lock, worker, runs, bounds>>

\* The UNIQUE constraint on delivery_id fails the commit; the request ends in a 500.
InsertRejected(c) ==
  /\ call[c].step = "checked"
  /\ DeliveryTaken(call[c].delivery)
  /\ call' = [call EXCEPT ![c] = IdleCall]
  /\ UNCHANGED <<jobRow, queue, lock, worker, runs, bounds>>

Publish(c) ==
  /\ call[c].step = "publishing"
  /\ queue' = Append(queue, call[c].job)
  /\ call' = [call EXCEPT ![c] = IdleCall]
  /\ UNCHANGED <<jobRow, lock, worker, runs, bounds>>

\* RPUSH raises and `except Exception: pass` swallows it, or the backend dies here.
PublishSwallowed(c) ==
  /\ call[c].step = "publishing"
  /\ Disrupt
  /\ call' = [call EXCEPT ![c] = IdleCall]
  /\ UNCHANGED <<jobRow, queue, lock, worker, runs, manualRetries>>

-----------------------------------------------------------------------------
(* POST /api/jobs/{id}/retry. *)

LoadForRetry(c, j) ==
  /\ call[c].step = "idle"
  /\ status[j] \in Retryable
  /\ manualRetries < MaxManualRetries
  /\ manualRetries' = manualRetries + 1
  /\ call' = [call EXCEPT ![c] = [IdleCall EXCEPT !.step = "loaded", !.job = j,
                                    !.seenStatus = status[j], !.seenAttempts = attempts[j]]]
  /\ UNCHANGED <<jobRow, queue, lock, worker, runs, disruptions>>

CommitRetry(c) ==
  LET j == call[c].job IN
  /\ call[c].step = "loaded"
  /\ status' = [status EXCEPT ![j] = Written(@, call[c].seenStatus, "QUEUED")]
  /\ attempts' = [attempts EXCEPT ![j] = Written(@, call[c].seenAttempts, 0)]
  /\ runs' = [runs EXCEPT ![j] = 0]
  /\ call' = [call EXCEPT ![c] = [IdleCall EXCEPT !.step = "publishing", !.job = j]]
  /\ UNCHANGED <<key, delivery, queue, lock, worker, bounds>>

-----------------------------------------------------------------------------
(* worker.consume and worker.process_job. *)

\* BLPOP removes the id before anything is recorded about it.
Pop(w) ==
  /\ worker[w].step = "idle"
  /\ queue # <<>>
  /\ queue' = Tail(queue)
  /\ worker' = [worker EXCEPT ![w].step = "popped", ![w].job = Head(queue)]
  /\ UNCHANGED <<jobRow, lock, call, runs, bounds>>

\* UPDATE ... SET status = RUNNING WHERE status IN (QUEUED, RETRYING), committed.
Claim(w) ==
  LET j == worker[w].job IN
  /\ worker[w].step = "popped"
  /\ status[j] \in Claimable
  /\ status' = [status EXCEPT ![j] = "RUNNING"]
  /\ runs' = [runs EXCEPT ![j] = @ + 1]
  /\ Goto(w, "claimed")
  /\ UNCHANGED <<attempts, key, delivery, queue, lock, call, bounds>>

\* The UPDATE matched no row.
ClaimSkipped(w) ==
  /\ worker[w].step = "popped"
  /\ status[worker[w].job] \notin Claimable
  /\ Finish(w)
  /\ UNCHANGED <<jobRow, queue, lock, call, runs, bounds>>

\* SET NX PX.  The handler runs whether or not the lock was obtained.
AcquireLock(w) ==
  LET j == worker[w].job IN
  /\ worker[w].step = "claimed"
  /\ lock' = [lock EXCEPT ![j] = IF @ = None THEN w ELSE @]
  /\ worker' = [worker EXCEPT ![w].step = "handling", ![w].token = (lock[j] = None)]
  /\ UNCHANGED <<jobRow, queue, call, runs, bounds>>

\* The SET raises outside the try: the exception reaches consume(), the row stays RUNNING.
AcquireRaises(w) ==
  /\ worker[w].step = "claimed"
  /\ Disrupt
  /\ Finish(w)
  /\ UNCHANGED <<jobRow, queue, lock, call, runs, manualRetries>>

HandlerReturns(w) ==
  /\ worker[w].step = "handling"
  /\ worker' = [worker EXCEPT ![w].step = "releasing", ![w].outcome = "returned"]
  /\ UNCHANGED <<jobRow, queue, lock, call, runs, bounds>>

\* Mutation of HandlerRaises: an exception that no except clause catches.
HandlerRaisesUncaught(w, kind) ==
  /\ worker[w].step = "handling"
  /\ worker' = [worker EXCEPT ![w].step = "releasing", ![w].outcome = kind]
  /\ UNCHANGED <<jobRow, queue, lock, call, runs, bounds>>

\* "permanent" is PermanentJobError, "temporary" any other exception.
HandlerRaises(w, kind) ==
  /\ worker[w].step = "handling"
  /\ worker' = [worker EXCEPT ![w].step = "loading", ![w].outcome = kind]
  /\ UNCHANGED <<jobRow, queue, lock, call, runs, bounds>>

LoadRow(w) ==
  LET j == worker[w].job IN
  /\ worker[w].step = "loading"
  /\ worker' = [worker EXCEPT ![w].step = "committing", ![w].seenStatus = status[j],
                              ![w].seenAttempts = attempts[j]]
  /\ UNCHANGED <<jobRow, queue, lock, call, runs, bounds>>

\* Mutation of AttemptsLeft: `>` for `>=` in jobs.retry.
AttemptsLeftInclusive(w) ==
  worker[w].outcome = "temporary" /\ worker[w].seenAttempts <= MaxAttempts

\* jobs.retry's decision, taken on the loaded row.
AttemptsLeft(w) ==
  worker[w].outcome = "temporary" /\ worker[w].seenAttempts < MaxAttempts

\* w commits `new` as the status of its job.
CommitStatus(w, new) ==
  status' = [status EXCEPT ![worker[w].job] = Written(@, worker[w].seenStatus, new)]

\* Mutations of ScheduleRetry: the attempt is not counted; the id is not published.
ScheduleRetryUncounted(w) ==
  /\ worker[w].step = "committing"
  /\ AttemptsLeft(w)
  /\ CommitStatus(w, IF worker[w].seenAttempts > 0 THEN "RETRYING" ELSE "QUEUED")
  /\ Goto(w, "publishing")
  /\ UNCHANGED <<attempts, key, delivery, queue, lock, call, runs, bounds>>

ScheduleRetryUnpublished(w) ==
  LET n == worker[w].seenAttempts + 1 IN
  /\ worker[w].step = "committing"
  /\ AttemptsLeft(w)
  /\ CommitStatus(w, IF n > 1 THEN "RETRYING" ELSE "QUEUED")
  /\ attempts' = [attempts EXCEPT ![worker[w].job] = n]
  /\ Goto(w, "releasing")
  /\ UNCHANGED <<key, delivery, queue, lock, call, runs, bounds>>

ScheduleRetry(w) ==
  LET n == worker[w].seenAttempts + 1 IN
  /\ worker[w].step = "committing"
  /\ AttemptsLeft(w)
  /\ CommitStatus(w, IF n > 1 THEN "RETRYING" ELSE "QUEUED")
  /\ attempts' = [attempts EXCEPT ![worker[w].job] = n]
  /\ Goto(w, "publishing")
  /\ UNCHANGED <<key, delivery, queue, lock, call, runs, bounds>>

GiveUp(w) ==
  /\ worker[w].step = "committing"
  /\ worker[w].outcome \in {"temporary", "permanent"}
  /\ ~ AttemptsLeft(w)
  /\ CommitStatus(w, "FAILED_PERMANENT")
  /\ Goto(w, "releasing")
  /\ UNCHANGED <<attempts, key, delivery, queue, lock, call, runs, bounds>>

Republish(w) ==
  /\ worker[w].step = "publishing"
  /\ queue' = Append(queue, worker[w].job)
  /\ Goto(w, "releasing")
  /\ UNCHANGED <<jobRow, lock, call, runs, bounds>>

RepublishSwallowed(w) ==
  /\ worker[w].step = "publishing"
  /\ Disrupt
  /\ Goto(w, "releasing")
  /\ UNCHANGED <<jobRow, queue, lock, call, runs, manualRetries>>

\* Mutations of ReadLock: the key is never deleted; the token is not compared.
ReadLockNoDelete(w) ==
  /\ worker[w].step = "releasing"
  /\ AfterRelease(w)
  /\ UNCHANGED <<jobRow, queue, lock, call, runs, bounds>>

ReadLockUncompared(w) ==
  /\ worker[w].step = "releasing"
  /\ Goto(w, "deleting")
  /\ UNCHANGED <<jobRow, queue, lock, call, runs, bounds>>

\* release_distributed_lock: GET and compare; without a token there is no Redis call.
ReadLock(w) ==
  /\ worker[w].step = "releasing"
  /\ IF worker[w].token /\ lock[worker[w].job] = w
     THEN Goto(w, "deleting") ELSE AfterRelease(w)
  /\ UNCHANGED <<jobRow, queue, lock, call, runs, bounds>>

\* DEL removes the key whoever holds it by now.
DeleteLock(w) ==
  /\ worker[w].step = "deleting"
  /\ lock' = [lock EXCEPT ![worker[w].job] = None]
  /\ AfterRelease(w)
  /\ UNCHANGED <<jobRow, queue, call, runs, bounds>>

\* GET or DEL raises in `finally`: even a handler that returned is not recorded.
ReleaseRaises(w) ==
  /\ worker[w].step \in {"releasing", "deleting"}
  /\ worker[w].token
  /\ Disrupt
  /\ Finish(w)
  /\ UNCHANGED <<jobRow, queue, lock, call, runs, manualRetries>>

Complete(w) ==
  /\ worker[w].step = "committing"
  /\ worker[w].outcome = "returned"
  /\ CommitStatus(w, "COMPLETED")
  /\ Finish(w)
  /\ UNCHANGED <<attempts, key, delivery, queue, lock, call, runs, bounds>>

-----------------------------------------------------------------------------
(* The environment: Redis expiring a lock, a container killed and restarted. *)

ExpireLock(j) ==
  /\ LocksExpire
  /\ lock[j] # None
  /\ lock' = [lock EXCEPT ![j] = None]
  /\ UNCHANGED <<jobRow, queue, worker, call, runs, bounds>>

Crash(w) ==
  /\ worker[w].step # "down"
  /\ Disrupt
  /\ worker' = [worker EXCEPT ![w] = [IdleWorker EXCEPT !.step = "down"]]
  /\ UNCHANGED <<jobRow, queue, lock, call, runs, manualRetries>>

Restart(w) ==
  /\ worker[w].step = "down"
  /\ Finish(w)
  /\ UNCHANGED <<jobRow, queue, lock, call, runs, bounds>>

-----------------------------------------------------------------------------
\* What a request in flight does next, and what a running worker does next.
CallStep(c) ==
  \/ \E j \in Jobs : Insert(c, j)
  \/ InsertRejected(c)
  \/ Publish(c)
  \/ CommitRetry(c)

WorkerStep(w) ==
  \/ Pop(w) \/ Claim(w) \/ ClaimSkipped(w) \/ AcquireLock(w)
  \/ HandlerReturns(w) \/ \E kind \in {"temporary", "permanent"} : HandlerRaises(w, kind)
  \/ LoadRow(w) \/ ScheduleRetry(w) \/ GiveUp(w) \/ Republish(w)
  \/ ReadLock(w) \/ DeleteLock(w) \/ Complete(w) \/ Restart(w)

NewCall(c) ==
  \/ \E k \in Keys, d \in Deliveries \cup {None} : CheckDuplicate(c, k, d)
  \/ \E j \in Jobs : LoadForRetry(c, j)

Disruption ==
  \/ \E c \in Callers : PublishSwallowed(c)
  \/ \E w \in Workers : \/ AcquireRaises(w) \/ RepublishSwallowed(w)
                        \/ ReleaseRaises(w) \/ Crash(w)

Next ==
  \/ \E c \in Callers : NewCall(c) \/ CallStep(c)
  \/ \E w \in Workers : WorkerStep(w)
  \/ \E j \in Jobs : ExpireLock(j)
  \/ Disruption

Spec == Init /\ [][Next]_vars

\* Requests in flight and workers keep running; nobody is forced to send a request.
FairSpec == Spec /\ (\A c \in Callers : WF_vars(CallStep(c)))
                 /\ (\A w \in Workers : WF_vars(WorkerStep(w)))

-----------------------------------------------------------------------------
(* Properties *)

TableTypes ==
  /\ status \in [Jobs -> Statuses]
  /\ attempts \in [Jobs -> 0..MaxAttempts]
  /\ key \in [Jobs -> Keys \cup {None}]
  /\ delivery \in [Jobs -> Deliveries \cup {None}]
  /\ queue \in Seq(Jobs)
  /\ lock \in [Jobs -> Workers \cup {None}]
  /\ runs \in [Jobs -> Nat]
  /\ manualRetries \in 0..MaxManualRetries
  /\ disruptions \in 0..MaxDisruptions

WorkerTypes ==
  /\ worker \in [Workers -> WorkerType]
  /\ \A w \in Workers : worker[w].step \notin {"down", "idle"} => worker[w].job \in Jobs

CallTypes ==
  /\ call \in [Callers -> CallType]
  /\ \A c \in Callers : call[c].step \in {"loaded", "publishing"} => call[c].job \in Jobs
  /\ \A c \in Callers : call[c].step = "checked" => call[c].key \in Keys

\* Types: the table holds the statuses of JobStatus, attempts never pass the
\* configured maximum, and the locals of workers and requests are what the code
\* can hold at each step.
TypeOK == TableTypes /\ WorkerTypes /\ CallTypes

\* The hypothesis several guarantees need: no two API requests overlap.
SerialCallers == \A a, b \in Callers : a = b

\* A claim is exclusive: at no time do two workers execute the same job, be it
\* after retries, manual retries, crashes or lost locks.  It rests on the
\* conditional UPDATE of _claim alone; the Redis lock adds nothing to it.
ClaimExclusive ==
  \A j \in Jobs, v, w \in Workers : Executes(v, j) /\ Executes(w, j) => v = w

\* A row that says RUNNING has a worker executing it, unless a crash or a Redis
\* failure has happened: without disruptions process_job never leaves a row behind.
RunningIsExecuted ==
  disruptions = 0 =>
    \A j \in Jobs : status[j] = "RUNNING" => \E w \in Workers : Executes(w, j)

\* The retry budget: between an enqueue or a manual retry and the next one a
\* job's handler starts at most worker_max_attempts + 1 times.
RetryBudget == \A j \in Jobs : runs[j] <= MaxAttempts + 1

\* Somebody holds j's id and will bring it to a worker.
Notified(j) ==
  \/ \E i \in DOMAIN queue : queue[i] = j
  \/ \E w \in Workers : worker[w].job = j /\ worker[w].step \in {"popped", "publishing"}
  \/ \E c \in Callers : call[c].job = j /\ call[c].step = "publishing"

\* No lost wake-up: without disruptions a row waiting for a worker (QUEUED or
\* RETRYING) always has its id in the Redis list or on its way into it.  Nothing
\* polls the table in Redis mode, so a row without its id would wait for ever.
WaitingIsNotified ==
  disruptions = 0 => \A j \in Jobs : status[j] \in Claimable => Notified(j)

\* A worker's lock does not outlive its use: without disruptions a lock held by w
\* is on the job w is processing, between SET NX and DEL.
LockIsInUse ==
  disruptions = 0 =>
    \A j \in Jobs, w \in Workers : lock[j] = w =>
      /\ worker[w].job = j
      /\ worker[w].token
      /\ worker[w].step \notin {"down", "idle", "popped", "claimed"}

\* While locks do not expire, nobody removes the lock of a worker that still
\* counts on it: the GET-then-DEL of release_distributed_lock is safe only then.
HolderKeepsLock ==
  ~ LocksExpire =>
    \A w \in Workers :
      worker[w].token => lock[worker[w].job] = w

\* COMPLETED is final: no retry, late failure or stale commit brings a job the
\* user has seen complete back into the queue.
CompletedIsFinal ==
  [][\A j \in Jobs : status[j] = "COMPLETED" => status'[j] = "COMPLETED"]_vars

\* Deduplication: no more rows share (organization, run, attempt), finished and failed ones
\* included, than API requests overlap: one, when they do not.  No constraint of the table
\* says so: enqueue's SELECT and INSERT are two steps, and nothing else keeps a row away.
DuplicatesAreFew ==
  \A k \in Keys : Cardinality({j \in Jobs : key[j] = k}) <= Cardinality(Callers)

\* Every enqueued or retried job is eventually completed or permanently failed,
\* unless a crash or a Redis failure intervenes.
EventuallySettled ==
  \A j \in Jobs :
    status[j] \in Claimable ~>
      status[j] \in {"COMPLETED", "FAILED_PERMANENT"} \/ disruptions > 0

=============================================================================
