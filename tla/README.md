# PipelineMedic in TLA+

PipelineMedic receives GitHub webhooks about failed workflow runs, analyses the logs of a
run in a background job, comments the result on the pull request and can draft a patch.
Around that core it keeps browser sessions, GitHub logins, GitHub App installations, API keys
and organizations. This directory holds TLA+ models of the asynchronous core and of these
services, TLC configurations that check them, and TLAPS proofs about all of the detailed models.

Paths below are relative to `src/apps/backend/app/` unless they start with `docs` or `apps`.

## 1. The system

### Processes

| process | code | notes |
|---|---|---|
| backend | `main.py` and its routers, under uvicorn | synchronous routes run in a thread pool, so two of them overlap freely; the webhook route is `async` and never awaits after it has read the request, so one backend process handles one webhook at a time |
| worker | `worker.py: main, consume` | the Kubernetes manifests start one worker; the backend image's own command starts another next to the API. At least two workers run |
| Redis | list of job ids, one lock key per job, rate-limit counters | the jobs table, not Redis, is the source of truth |
| PostgreSQL | `models.py`, `db.py` | every request and every worker step has its own session. An ORM commit updates by primary key only the columns whose value changed against the loaded one, without a version check. `autoflush` is off |
| GitHub, AI provider, browser | external | slow, failing, and able to lose an answer after having acted |

### Components

**Job queue** (`services/jobs.py`, `worker.py` 39-167, `main.py` 381-395) - modelled.
State: the `jobs` rows (status, attempts, deduplication columns), the Redis list, the locks,
the locals of each worker and request. Operations: `enqueue`, manual retry, BLPOP, `_claim`,
lock and release, handler outcome, `retry`, completion. Hard: every SELECT, COMMIT and Redis
command is separate; ids may be in the list twice; locks expire; workers die; Redis calls
fail. Correct means: one worker per job at a time, bounded retries, COMPLETED is final, no
waiting row without a wake-up, and every job settled when nothing breaks.

**Webhook ingestion and analysis** (`main.py` 842-912 and 61-95, `worker.py` 245-345) -
modelled. State: stored runs, jobs, analyses with occurrence counts and delivery records.
Hard: GitHub announces a run several times, the handler is retried after any step of it,
there is no constraint on analyses. Correct means: one analysis per run, none missing behind
a completed job, counts that are not invented, every run settled.

**Pull-request comment delivery** (`services/pr_comments.py`, `worker.py` 173-188,
`main.py` 245-252, `services/github.py`) - modelled. State: one delivery row, its job, the
comments on GitHub. Hard: a POST may succeed and time out; the row and the job are committed
by different sessions; exceptions that `deliver` does not expect pass it by; users retry
meanwhile. Correct means: at most one comment, and a row that tells the truth.

**Patch suggestions** (`main.py` 259-290, `worker.py` 189-229) - modelled. State: patch rows,
decisions, jobs. Hard: provider and GitHub failures in the middle of GENERATING, decisions
while workers run. Correct means: one active suggestion per analysis, decisions only about
READY patches, which then stay as they are.

**Inline mode** (`worker.py` 131-152, 347-370) - modelled. Without Redis a worker polls the
table. State: job rows, the job each process has selected. Hard: a job is selected in one
session and claimed in another; processes die anywhere; only QUEUED rows are selected, so a
job in RETRYING is left alone. Correct means: no job executed by two processes, and a bound on
its executions.

**Organizations, members, invitations** (`organization_routes.py`, `authz.py` 146-169) -
modelled, except for renaming and deleting an organization. State: roles, invitations, and the
roles of the API keys in force (`main.py` 313-354), whose holders act here too. Hard: the
last-owner check, the check for an open invitation and its acceptance are all
check-then-commit. Correct means: an organization keeps an owner, ownership is given and taken
by role OWNER only, an address has one open invitation.

**Sessions** (`auth_routes.py`, `services/auth.py`, `apps/frontend/src/api/client.ts`,
`AuthPages.tsx`, `AuthenticatedShell.tsx`) - modelled, except for the login attempt counter
and what passwords and access tokens decide. State: refresh tokens, the browser's cookie, the
page of each tab, requests on their way. Hard: tabs share a cookie; check and revocation are
apart; answers are late or lost. Correct means: a refresh token is used again only under
overlap, and nothing but a logout, an expiry or a lost answer ends a tab's session.

**GitHub OAuth login** (`auth_routes.py` 78-222) - modelled. State: OAuth states, the state
cookie, accounts with address and GitHub identity. Hard: a state may serve two callbacks, each
looks for the account in two SELECTs and links or creates it in a COMMIT; addresses change
hands on GitHub. Correct means: an account that is linked stays its identity's.

**GitHub App installations** (`github_app_routes.py`, `services/github_app.py`, `main.py`
785-813) - modelled. State: installation states, installations, repositories with their
installation and active flag. Hard: GitHub is asked between the SELECT and the COMMIT, a
rollback undoes the use of a state, webhooks come in any order. Correct means: an installation
costs a state, deactivation holds, tokens stay in their organization.

**API keys and rate limits** (`authz.py` 35-115) - modelled. State: a sliding window in the
memory of each process, a fixed window in Redis. Hard: the reading of the time, the trimming,
the test and the append are apart; the window is chosen before its INCR, and INCR and EXPIRE
are two commands; Redis fails open. Correct means: a bound on what passes each window, where
the code has one.

**Rule analyzer, AI fallback, log processing** (`services/analyzer.py`, `ai.py`,
`log_processing.py`, `worker.py` 231-243) - modelled as far as category, confidence, severity,
evidence and step go. State: none; a pipeline from the log to the stored result. Hard: limits
on evidence and excerpt, an answer that goes through two filters and two decisions. Correct
means: the stored diagnosis follows from the log. Root cause, recommendations, fingerprint and
prompt are text.

**Not modelled.** Patch validation is a pure function of one string; its verdict is a
nondeterministic outcome in `PatchGeneration`. Similarity and embeddings are floating-point
arithmetic over text. E-mail is output whose failures are swallowed, schema creation idempotent
DDL at start-up, resolving and feedback updates of a single row by one statement, dashboards
and lists read-only, the rest of the web client rendering. Renaming and deleting an
organization are left out of `Membership`: the one concerns no member, the other is
refused by the foreign key of the member rows as long as there are any.

How they interact: a webhook, the analysis handler (for a comment) and the patch route call
`enqueue`; a worker's `process_job` calls the handler of the job's type; a handler ends by
returning, by a `PermanentJobError` or by any other exception, and that alone decides what
`process_job` writes to the job. The three application modules therefore use the abstract
job life cycle, and the queue is shown to implement it. Sessions, logins, installations, API
keys, inline workers and the diagnosis share no table with each other while they act, apart
from the account a login ends in and the repository a job belongs to, which none of their
properties is about; each is a module of its own.

## 2. Modules

| module | what it is |
|---|---|
| `JobLifecycle` | abstract specification: what the job table promises (status, attempts, who executes) |
| `JobQueue` | the queue in detail: requests, Redis, locks, workers, crashes |
| `JobQueueRefinement` | the mapping from `JobQueue` to `JobLifecycle` |
| `RunAnalysis` | webhook route and analysis handler over `JobLifecycle` |
| `PRDelivery` | delivery row, handler, retry route and GitHub over `JobLifecycle` |
| `PatchGeneration` | patch and decision rows, handler, routes over `JobLifecycle` |
| `Membership` | members, roles, invitations and API keys of one organization |
| `Sessions` | refresh tokens on the server, cookie and tabs in the browser |
| `GitHubLogin` | OAuth states, callbacks and the accounts they find, link or create |
| `Installations` | GitHub App installations, connected repositories, webhooks |
| `ApiAccess` | the two rate limits of an API key over a clock |
| `InlineWorker` | workers that poll the job table |
| `LogDiagnosis` | the pipeline from a log to the stored diagnosis |
| `MCServices` | one behaviour of one of the seven modules before it at a time |
| `...Proofs` | theorems about the module named before it; `AccountProofs`: about `Sessions`, `GitHubLogin` and `ApiAccess`; `ServiceProofs`: about `InlineWorker`, `LogDiagnosis` and their composition with the other services in `MCServices` |
| `MC...` | the instances TLC checks, with their symmetry sets |

### JobQueue

`status`, `attempts`, `key`, `delivery` are columns of `jobs`; `queue` and `lock` are Redis;
`worker[w]` and `call[c]` hold the program counter and the locals of a worker and a request,
the row as it was loaded among them. `runs`, `manualRetries`, `disruptions` are history and
bounds.

| code | actions |
|---|---|
| `enqueue` | `CheckDuplicate`, `Insert` or `InsertRejected`, `Publish` or `PublishSwallowed` |
| `POST /api/jobs/{id}/retry` | `LoadForRetry`, `CommitRetry`, `Publish` |
| `consume` | `Pop`; an escaping exception is `Finish` |
| `_claim` | `Claim`, `ClaimSkipped`: the conditional UPDATE |
| `acquire_distributed_lock` | `AcquireLock`, `AcquireRaises` (outside the `try`) |
| handler | `HandlerReturns`, `HandlerRaises` |
| `jobs.retry` and the `except` branches | `LoadRow`, `ScheduleRetry` or `GiveUp`, `Republish` |
| `release_distributed_lock` in `finally` | `ReadLock`, `DeleteLock`, `ReleaseRaises` |
| the commit after `finally` | `LoadRow`, `Complete` |
| environment | `ExpireLock`, `Crash`, `Restart` |

The value `Written(current, seen, new)` is the column after an ORM commit: unchanged by a
commit that assigns what was loaded, otherwise overwritten whatever it is by now. Left out:
payloads, texts, timestamps, and `next_retry_at`, which is stored but never read in Redis
mode: a retry is available at once.

### The application modules

They instantiate `JobLifecycle` on their own `status`, `attempts`, `runners`: `Start` is a
claim, `EndJob` is what `process_job` does with the handler's end, `Abandon` an execution
lost to a crash or a Redis failure, `ResetJob` the retry button. What the abstraction assumes
of the queue is what `ImplementsLifecycle` states and `QueueImplementsLifecycle` proves.

* `RunAnalysis`: `Receive` .. `InsertJob` is the route from the SELECT of the run on;
  `LoadRun` .. `QueueDelivery` the handler. `FetchFails` covers its temporary and permanent
  exits, `HandlerFails` a database error at any later step, `HookFails` one in the route. All
  runs share a fingerprint, because counts of different fingerprints do not interact.
* `PRDelivery`: `MarkSending`, `FindPullRequest`, `ListComments`, `Post`, `CommitVerdict` are
  the commits and GitHub requests of `deliver`. `Post(w, "temporary")` is an answer lost after
  the effect, `RequestFails` a failure without one. `HandlerRaises` is every exception that is
  neither of GitHub's two, anywhere in the handler: a body that is no JSON, the list of a redirected
  request, a failing commit. It leaves the row as it is, and the job is retried or fails for good.
  In a repository that was renamed or transferred (`pr = "moved"`) requests are redirected, which
  `_request` takes for success: `PostRedirected` writes DELIVERED and no comment. `Verdict` is the
  table of what each path commits. `LongPullRequest` says that the comment lies beyond the 500
  comments the listing reads.
* `PatchGeneration`: `LookForActive`, `InsertPatch`, `EnqueueJob` are the three commits of
  `generate_patch`; `CheckReady`, `CommitDecision` of `decide_patch`; `BeginGeneration`,
  `FinishGeneration`, `GenerationRaises` the handler.

### Membership

`role` and `rowId` are the member rows of one organization: the role, and the id of the row,
which changes when a user is removed and joins again. `invitation` holds the invitations with
the role of their author, `keys` the roles of the API keys that members made and that are in
force, `manager[m]` and `guest[g]` the locals of an administrative request and of an acceptance.
A key works for whoever holds it, whatever has become of the member who made it. A key made
with a key has no user, `current_user` refuses it, and it is left out, as are keys of a role
below ADMIN.

| code | actions |
|---|---|
| `organization_context`, `require_role` | `Authorize`: for a member or an API key |
| `create_api_key`; `delete_api_key`, expiry | `CreateKey`; `EndKeys` |
| `PATCH` and `DELETE .../members/{id}` | `LoadMember`, `CheckOwners`, `CommitMember` |
| `POST .../invitations` | `CheckInvitee`, `CheckInvitations`, `InsertInvitation` |
| `DELETE .../invitations/{id}` | `LoadInvitation`, `CommitRevocation` |
| `POST /invitations/{token}/accept` | `Present`, `CheckMember`, `CommitAcceptance` |
| time | `ExpireInvitation` |

### Sessions

`token` is the table, numbered by commits; `call[c]` is a request of a tab, from its sending
to the application of its answer. `seen`, in a token, is the number of tokens issued when its
parent was read; `undisturbed` records that nothing has ended the session since the login.

| code | actions |
|---|---|
| `SessionGate`, login and logout of the client, a request that meets 401 | `OpenTab`, `SendLogin`, `SendLogout`, `SendRefresh` (one exchange for all requests of a tab) |
| `consume_refresh` | `Consume`: the SELECT with its checks |
| `refresh`, `login`, `register`, `logout` | `CommitRefresh`, `CommitLogin`, `RefuseLogin`, `CommitLogout` |
| the client's handling of the answer | `Answer`, or `Lose` |
| time | `Expire` |

### GitHubLogin

| code | actions |
|---|---|
| `github_start` | `Start` |
| `github_callback` up to GitHub's answer | `CheckState`, `UseState`, `Identify`, `Fail` |
| `_github_user` | `FindLinked`, `FindByMail`, then `CommitKnown`, `CommitLink` or `CommitNew` |
| `register` | `RegisterAccount` |
| GitHub, the browser, time | `Verify`, `DropCookie`, `ExpireState` |

### Installations

`cut[i]` is history: `i` was deactivated by a webhook no request overlapped, and nobody has
revived it since.

| code | actions |
|---|---|
| `_start_installation` | `StartInstallation` |
| `complete_installation` | `LoadSetup`, `CancelSetup`, `VerifySetup`, `CommitSetup`, `RollbackSetup` |
| `connect_authorized_repository` | `BeginConnect`, `LoadRepository`, `CommitConnect`, `FailConnect` |
| installation webhooks | `Deactivate`, `Unsuspend`, `ChangeRepositories` |
| repository routes of `main.py` | `CreateRepository`, `ActivateRepository` |
| time | `ExpirePending` |

`TokenOf` is `resolve_repository_token`.

### ApiAccess

| code | actions |
|---|---|
| `_in_memory_api_key_limiter` | `ReadClock` (53), `TestHead` (55), `PopLeft` (56), `TestBucket` (57), `Admit` (59) |
| `_redis_api_key_limiter` | `ChooseWindow` (41), `Count` (43), `SetExpiry` (45), `RedisFails` |
| time, a process that dies | `Tick`, `Restart` |

The numbers are lines of `authz.py`; any other thread may run between two of them, and the
clock may tick. What comes before, the key's SELECT with its checks, ends the request or changes
nothing here; what comes after only records the usage. `admitted`, `overlapped` and `passed` are
history: the appends to a process's bucket, the processes in which two requests were in the
limiter at once, and the requests Redis let through in each of its windows.

### InlineWorker

| code | actions |
|---|---|
| `enqueue`, the retry route | `EnqueueInline`, `ResetJob` |
| `main`, `run_once` | `StartInline`, `SelectJob`, `ClaimInline` |
| the ends of `process_job` | `Succeed`, `FailForGood`, `FailForNow` (`retry` and its status) |
| a process that dies | `StopInline` |

### LogDiagnosis

A line of a log is its text together with what the regular expressions find in it. `Collapse`,
`Evidence`, `Excerpt` are `process_log`, its two loops (`Collapsing`, `Collecting`) recursive
functions whose value at n is what the loop has kept after n lines; `Score`, `Best`, `Severity`,
`FailedStep`, `RuleAnalyze` the rules; `ShouldAllowAI`, `SafeAIResult`, `IsSupportedAIResult`
the functions of `ai.py` of that name. A quotation is a line, or part of it, and says whether
there are words around it that are not of the log. `EvidenceSupported` accepts it as `ai.py`
202-215 does, and `Foremost` is the cut `[:10]` on the rules' quotations (`analyzer.py` 289,
301) and on the provider's (`ai.py` 347), in the order in which the lines stand or are offered.
`Receive` .. `Persist` the steps of the handler between the log and the row, with a provider
that may answer anything or fail.

## 3. What TLC checks

| run | instance | what it shows |
|---|---|---|
| `queue_serial` | 2 jobs, 2 workers, 1 request at a time, 2 keys, 1 delivery id, 2 retries, 1 manual retry, 1 crash or Redis failure, locks expire | types, `ClaimExclusive`, `RetryBudget`, `DuplicatesAreFew` (one row per key), `CompletedIsFinal`, and the refinement `ImplementsLifecycle` |
| `queue_overlapping` | 2 jobs, 2 workers, 2 overlapping requests, 1 key, 2 manual retries, nothing breaks, locks do not expire | `RunningIsExecuted`, `WaitingIsNotified`, `LockIsInUse`, `HolderKeepsLock`, and the liveness `EventuallySettled` |
| `delivery` | 2 job rows, 2 workers, 1 retry request at a time, 2 retries of the job, 2 manual retries, 1 lost execution, an unexpected exception at any step, a repository that may move | `CommentsAreFew` (at most one), `DeliveredMeansPosted`, `CompletedJobSettlesDelivery`, `DeliveredIsKept`, liveness `EventuallyResolved` |
| `analysis` | 2 runs, 3 webhooks, 2 workers, 1 API process, 1 reset, 1 fault | `AnalysesAreFew` (one per run), `CompletedIsAnalyzed`, `OccurrencesAreSeen`, liveness `RunIsSettled` |
| `patches` | 2 patches, 2 workers, 1 generate and 1 decide request at a time, 1 reset, 1 fault | `ActivePatchesAreFew` (at most one), `DecidedPatchStays` (only READY patches are decided about, and they stay), liveness `RequestedIsResolved` |
| `services` | see below | `ReuseNeedsOverlap`, `SessionIsKept`; `LinkIsKept`; `StatesBuyInstallations`, `DeactivationHolds`, `TokensStayInside`; `OwnerRetained`, `OwnershipIsOwners`, `OpenInvitationsAreFew` (one per address); `RateIsBounded`; `InlineRunsAreBounded`; `DiagnosisFollowsTheLog` |
| `queue_two_retries` | 2 overlapping retries of one job | `ClaimExclusive` fails |
| `delivery_stuck` | 1 retry of a failed delivery | `QueuedIsServed` fails |
| `analysis_undelivered` | 1 fault in `queue_delivery` | `AnalysisHasDelivery` fails |
| `patch_stuck` | errors outlasting the attempts | `UnfinishedIsServed` fails |
| `membership_last_owner` | 2 users, 1 invitation, 2 overlapping administrative requests | `OwnerRetained` fails |
| `evidence_invented` | as `services` | `EvidenceIsNotInvented` fails |

`services` checks seven modules in one run. `MCServices` chooses a `focus` in the initial state
and lets that module step while the variables of the others rest, so that TLC explores the sum
of the seven state spaces. Nothing is lost: the modules have no variable in common, and a property
of one of them reads no variable of another. One set of model values stands for tabs, accounts
and installations, another for calls, identities, organizations, invitations and requests, a
third for users and guests; all three are symmetric because no module tells the values of a
set apart. The instances:

| module | instance |
|---|---|
| `Sessions` | 2 tabs, 2 requests at a time, 3 tokens: a login, its exchange, and a second exchange of the same token or of its successor |
| `GitHubLogin` | 2 accounts, 2 identities, 2 addresses, 2 states, 2 overlapping callbacks: an address verified by one identity, then by the other |
| `Installations` | 2 installations, 2 organizations with a row of 1 repository each, 2 states, 1 setup and 2 connects at a time |
| `Membership` | 2 users, 2 invitations, 1 administrative request at a time, 2 guests, roles OWNER and ADMIN, keys of role OWNER |
| `ApiAccess` | 1 process, 2 requests at a time, a limit of 2 in windows of 2 ticks, a clock up to 3: two fixed windows and a sliding one across their boundary |
| `InlineWorker` | 2 jobs, 2 processes, 4 attempts, 1 manual retry: a job may reach RETRYING, and end after it |
| `LogDiagnosis` | logs of up to 4 lines of 6 sorts, 3 evidence lines, an excerpt of 3 lines, 1 quotation kept of 2 that the provider offers, an answer with or without category and with a confidence of 34 or 35, the threshold |

Every property of a passing run has a mutation of one mapped definition (`Retryable` that
lets a running job through, `ReadLock` that does not compare tokens, ...), defined beside the
definition it mutates, under which TLC finds the property violated. This shows that the
property depends on the code's behaviour and that the instance is large enough to notice.

**Why these bounds.** Two workers and two jobs give every pair of interleaved executions and
a second job to be blocked by the first; a third worker only repeats the second's role,
because a claim, a lock and a row are each contested pairwise. Two retries distinguish the
first failure (QUEUED) from later ones (RETRYING) and reach the budget. One crash at every
possible point shows each partial failure; the properties that speak of undisturbed runs are
also checked in the states before it. Without a bound on manual retries, webhooks and
faults the state space is infinite; the bounds count events, they do not order them. In
`Membership` two users are an owner and another one who joins, rises, falls and leaves, and
two invitations are needed for a second one to be refused or to follow a closed one; only
`rowId`, the ids of member rows, counts without a bound of its own, and the number of
invitations bounds it. The roles below ADMIN let nobody in and are a constant, empty in
`services`, VIEWER in `membership_last_owner`. In `ApiAccess` the three bounds of
`RateIsBounded` are all reached: one less anywhere and TLC finds a counterexample.

**Deadlock** is not checked: every system here may be at rest for good, once the bounded
environment has stopped sending webhooks, retries and requests, or the repository has moved.

**Fairness.** The modules of `services` state none, for nothing in them has to
happen. Elsewhere `WF` on each running request, each worker and each handler: a thread that has
something to do runs on (uvicorn's pool and the worker loop have no priorities, and every
blocking call has a timeout or an error path, which is an action of the model). Starting a
job is weakly fair in the application modules, which is what `EventuallySettled` gives for
the queue. No fairness is assumed for users, webhooks, crashes, Redis failures, lock expiry,
or for GitHub answering well: a handler may fail every time. Liveness is stated for
behaviours in which nothing is lost (`disruptions`, `faults`, `abandons` are zero), because
the code has no recovery: an id taken by BLPOP and lost is never published again.

## 4. What is proved

`JobQueueProofs` proves, for every number of jobs, workers, keys, retries and disruptions:

| theorem | hypothesis | statement |
|---|---|---|
| `TypeCorrect` | - | `Spec => []TypeOK` |
| `ClaimsAreExclusive` | `SerialCallers` | `Spec => []ClaimExclusive` |
| `CompletionIsFinal` | `SerialCallers` | `Spec => CompletedIsFinal` |
| `RetriesAreBounded` | `SerialCallers` | `Spec => []RetryBudget` |
| `QueueImplementsLifecycle` | `SerialCallers` | `Spec => ImplementsLifecycle` |
| `LocksAreInUse` | - | `Spec => []LockIsInUse` |
| `HoldersKeepLocks` | - | `Spec => []HolderKeepsLock` |
| `WaitingJobsAreNotified` | - | `Spec => []WaitingIsNotified` |
| `RunningJobsAreExecuted` | - | `Spec => []RunningIsExecuted` |
| `DuplicatesBounded` | - | `Spec => []DuplicatesAreFew` |

The constants satisfy the module's assumptions: at least one attempt, natural bounds, and `None`
outside the other sets, finitely many requests at once. `SerialCallers` says that no two API
requests overlap; it is needed, since `queue_two_retries` violates `ClaimExclusive` without it.

`ClaimExclusive` is not inductive: a state in which a worker executes a job whose row says
QUEUED satisfies it and lets a second worker claim the row. `ExclusiveInv` adds that a job
being executed says RUNNING in the table, that the status and attempts loaded by the worker
about to commit are the row's, and that a retry request about to commit loaded a row nobody
executes; with one request at a time nothing can claim a row between the request's load and
its commit. Finality of COMPLETED and the refinement follow from `TypeOK /\ ExclusiveInv`,
one step per action; `RetryBudget` needs `BudgetInv`, which
relates the handler starts to `attempts` in each status. `RunningIsExecuted` needs more when
requests overlap: the worker on the row must not be one whose commit will write nothing because
it loaded a row that was reset meanwhile (`RunningIsWatched`). The two lock properties need
`TokensFit`: a worker has a token between acquisition and release only, without which nothing
says whose lock a GET compares.
`WaitingIsNotified` is inductive by itself: each commit of a waiting status is followed by an
RPUSH, and an id is dropped only for a row that is not waiting. Each step lemma has one case
per action and cites only what it needs.

**Counting what overlaps.** Five tables have no constraint that keeps a second row away; the
code looks for one and inserts later, and when requests overlap it does insert several. The
properties say how many: no more than requests overlap, hence one when they do not. The
argument is the same in `JobQueueProofs` (`RoomForChecked`), `PatchGenerationProofs`
(`RoomForInserters`), `MembershipProofs` (`InvitationInv`), `RunAnalysisProofs` and
`PRDeliveryProofs` (`RoomInv`): the things there are and the actors between their SELECT and
their INSERT are together no more than the actors. An actor gets between the two only when
there is no thing; its INSERT makes one thing of one actor; every other step takes away. The
theorems need no hypothesis on who overlaps.

`MembershipProofs` proves, for every number of users, invitations and guests:

| theorem | hypothesis | statement |
|---|---|---|
| `MembershipTypes` | - | `MemberSpec => []MemberTypeOK` |
| `OwnersAreRetained` | `SerialManagers` | `MemberSpec => []OwnerRetained` |
| `OwnershipStaysWithOwners` | `SerialManagers` | `MemberSpec => OwnershipIsOwners` |
| `OpenInvitationsBounded` | - | `MemberSpec => []OpenInvitationsAreFew` |

`SerialManagers` says that no two administrative requests overlap; guests may, with anything,
and `membership_last_owner` shows that it is needed. `OwnerInv` strengthens `OwnerRetained` by
what a request still knows when it commits: the row it loaded is as it was loaded
(`TargetIsLoaded`), it has authority over what it touches (`GrantsAreOwners`, which also says
that an OWNER invitation was written by an OWNER), and if it takes ownership away, another owner
exists now and not only when it looked (`AnotherOwner`): guests add member rows but change none.
"By role OWNER" is what a request has, a key's request too, and an ADMIN may make such a key
(section 5). `InvitationInv` counts an address's open invitations with the requests about to
insert one; guests and time only close invitations.

The application modules and services, for every value of their constants:

| module | theorem | hypothesis | statement |
|---|---|---|---|
| `PRDeliveryProofs` | `DeliveryTypes` | - | `Spec => []TypeOK` |
| | `DeliveredIsPosted` | - | `Spec => []DeliveredMeansPosted` |
| | `CommentsBounded` | - | `Spec => []CommentsAreFew` |
| | `CompletionSettles` | `SerialCallers` | `Spec => []CompletedJobSettlesDelivery` |
| | `DeliveredStays` | `SerialCallers` | `Spec => DeliveredIsKept` |
| `RunAnalysisProofs` | `RunTypes` | - | `Spec => []TypeOK` |
| | `CompletionIsAnalyzed` | - | `Spec => []CompletedIsAnalyzed` |
| | `CountsAreSeen` | - | `Spec => []OccurrencesAreSeen` |
| | `AnalysesBounded` | - | `Spec => []AnalysesAreFew` |
| `PatchGenerationProofs` | `PatchTypes` | - | `Spec => []TypeOK` |
| | `DecidedStays` | - | `Spec => DecidedPatchStays` |
| | `ActivePatchesBounded` | - | `Spec => []ActivePatchesAreFew` |
| `AccountProofs` | `SessionTypeCorrect` | - | `SessionSpec => []SessionTypeOK` |
| | `TokensAreReusedInOverlapOnly` | - | `SessionSpec => []ReuseNeedsOverlap` |
| | `SessionsAreKept` | - | `SessionSpec => []SessionIsKept` |
| | `LoginTypeCorrect` | - | `LoginSpec => []LoginTypeOK` |
| | `LinksAreKept` | - | `LoginSpec => LinkIsKept` |
| | `AccessTypeCorrect` | - | `AccessSpec => []AccessTypeOK` |
| | `AccessRateBounded` | - | `AccessSpec => []RateIsBounded` |
| `InstallationsProofs` | `InstallTypeCorrect` | - | `InstallSpec => []InstallTypeOK` |
| | `TokensInside` | - | `InstallSpec => []TokensStayInside` |
| | `DeactivationIsKept` | - | `InstallSpec => []DeactivationHolds` |
| | `InstallationsArePaid` | `SerialSetups` | `InstallSpec => []StatesBuyInstallations` |
| `ServiceProofs` | `InlineTypeCorrect` | - | `InlineSpec => []InlineTypeOK` |
| | `InlineRunsBounded` | - | `InlineSpec => []InlineRunsAreBounded` |
| | `DiagnosisTypeCorrect` | - | `DiagnosisSpec => []DiagnosisTypeOK` |
| | `DiagnosisCorrect` | - | `DiagnosisSpec => []DiagnosisFollowsTheLog` |
| | `OrderAndRepetitionDoNotMatter` | same diagnostic lines, within the evidence limit | the rules give two logs the same category, confidence and severity, and the same evidence if there are no more diagnostic lines than `MaxQuoted` |
| | `ServicesTypeCorrect` | - | `Spec => []TypeOK`, `Spec` of `MCServices` |
| | `ServicesCorrect` | - | the properties of the seven components that have no hypothesis, for the same `Spec` |

The strengthenings, and what each is for:

* `PostedInv`: a handler that believes in a comment (it has posted, or its listing found the
  marker) is right. That alone makes DELIVERED true, whoever overlaps.
* `SerialInv`: one job per delivery, one worker per job, so that what a handler listed is still
  so when it posts (`HandlersFit`); once DELIVERED, no handler does more (`DeliveredFits`); a
  retry request that creates a job still finds none (`RequestsFit`).
* `RunInv`: a job is for a stored run (`KeysFit`), so that its handler never returns for want of
  the row; a handler is about the run of the only job its worker executes (`HandlersFit`), has
  found an analysis or committed one when it returns, and counted no more than there is when it
  commits. Analyses are only added, so that whatever a handler knows of them stays true.
* `RoomInv` of `RunAnalysisProofs` counts twice: a run has no more jobs than API processes, and
  no more analyses than jobs. The second needs that a worker between the handler's SELECT and
  its COMMIT executes a job of its own: workers map into the run's jobs by an injection
  (`WritersHaveJobs`), because `RunInv` gives a job one worker and `FS_Injection` counts.
* `RoomInv` of `PRDeliveryProofs` does the same for the delivery's jobs, and for its comments
  with the workers whose listing had none; `ExecInv` says that a job has one worker.
* `PatchInv`: the job of a READY patch is settled, or its handler has returned (`JobsFit`), and
  a patch without a job is READY never: hence no execution can follow READY, and
  `decide_patch`'s check cannot be overtaken.
* `SessionInv`: whoever has checked a token read it before any exchange of it (`CallsFit`), and
  exchanged tokens are revoked (`ParentsAreRevoked`), so that no later SELECT accepts them.
* `KeptInv`: in an undisturbed session one tab is open, its exchange presents the cookie's token or
  has brought a usable one back, and no other request runs (`SessionHolds`).
* `LoginInv`: the account a callback is about to link still has the address it was found by and
  no link but the callback's own (`CallbacksFit`). Two callbacks of different identities could
  find one account only if both had its address, but GitHub verifies an address for one
  identity (`VerifiedOnce`) and a placeholder is one identity's (`AccountsFit`).
* `InstallInv`: a request connects to an installation of its own organization (`ConnectsFit`);
  while an installation is cut off no request is on its way to it, and one that will save one of
  its repositories for another installation has read whose it is (`CutHolds`), so that its
  UPDATE, which writes only what it changed, takes the repository away.
* `PriceInv`: with one setup at a time (`SerialSetups`), the installation and the state a setup has
  read are still what it read (`SetupHolds`), so that its COMMIT adds one used state and at most
  one installation to one organization; the tables are finite, and `FS_AddElement` counts them.
* `InlineInv`: an executed job is RUNNING and has one executor (`ExecutorsOwn`); executions
  follow the attempts (`ExecutionsAreAttempts`); after the second claim a job is no longer
  selected, and each further execution uses up a process that had selected it before
  (`SelectorsAreSpent`), counted with `Cardinality`.

* `AccessInv`: while no two requests have been in a process's limiter at once
  (`LimitersAreSerial`), its bucket is what was appended to it but for a prefix that is too old
  for any request to come (`BucketsKeep`), and what a request has found about it is still so
  (`TestsHold`), so that a window never has more than `Limit` appends (`AdmissionsAreBounded`).
  Overlapping or not, every request that appends has seen room, and those which have seen it
  together are no more than the requests (`BucketsAreBounded`). A counter of Redis lives until its
  window is over, even if another request sets its time to live late; afterwards nobody chooses the
  window any more, and only those who had chosen it still count (`CountsOutlastWindows`).
* `DiagnosisInv`: what an analysis knows in each phase: the evidence and the rules' result are
  those of its log, the provider was asked only after `ShouldAllowAI`, its answer quotes and names
  what is in the log, and what is decided is grounded and justified. That a rule's score is its
  weight (`ScoreIsWeight`) needs that `Evidence` has every diagnostic line exactly once. The two
  loops of `process_log` are recursive functions; without an induction theorem to instantiate,
  their lemmas (`CollapsingUnfolds`, `CollectingFinds`, ...) argue with the set of the positions
  up to which a statement holds and its greatest element (`CountingUp`). Of an answer, what
  `EvidenceSupported` lets through has a line of the log in it, and with words around it a
  diagnostic one (`SafeIsGrounded`); the cut takes from the quotations and adds none
  (`QuotedLines`).
* `ComponentsOfSpec`: a behaviour of `MCServices` is one of each component, since a step of one
  leaves the variables of the others alone. `StatesBuyInstallations`, `OwnerRetained` and
  `OwnershipIsOwners` hold in the composition under the hypotheses of their own theorems.

**Assumptions on the constants**, beyond types and names that differ: `Callers`, `API`,
`Managers`, `Requests` and `InlineWorkers` are finite, because a process has finitely many
threads and a deployment finitely many processes. `MaxExcerpt` is at least one line, which
`max_ai_log_characters`, 30,000 by default, exceeds; with none the excerpt of a log would be
empty and the provider asked about nothing. `MaxQuoted` is 10 in the code and at least one here.
The answers of the provider have a category and a confidence that `AIResult` accepts
(`AnswersAssumption`); it refuses the others, which is `ProviderFails`. A blank line has no
other quality (`LogLinesAssumption`).

**Hypotheses that are needed.** `SerialCallers`, `SerialManagers` and `SerialSetups` stay where the
property fails without them: section 5 lists how.

**Only model-checked** are the liveness properties (`EventuallySettled`, `EventuallyResolved`,
`RunIsSettled`, `RequestedIsResolved`): their fairness conditions contain ENABLED, which TLAPS
does not reason about. Every invariant and every action property of a passing run has a theorem.

## 5. Disagreements found, and limits of the guarantees

The violation runs show what the code does against what its documents and tests say
(`PROJECT.json`, "findings", quotes them):

1. `main.py` 385: two overlapping retries of a failed job. The second commits QUEUED after a
   worker has claimed the job, and another worker executes it too. The lock does not help:
   a worker that fails to get it runs the handler all the same.
2. `main.py` 251: the retry of a failed delivery sets QUEUED, but `enqueue` finds the
   delivery's old job and creates none; nothing delivers it.
3. `worker.py` 307: if `queue_delivery` fails after the analysis is committed, the retried
   handler returns early and the job completes without a delivery record.
4. `worker.py` 224: an error that outlasts the retries leaves the patch GENERATING for ever,
   and `generate_patch` keeps returning it.
5. `organization_routes.py` 76 and 86: two requests that take the role from two owners at the
   same time each find the other one, and leave the organization without an owner.
6. `ai.py` 214: a quotation of the provider's that contains an evidence line is supported,
   whatever else it says, and is stored; the documents restrict evidence to extracted lines.

What overlapping requests insert twice is bounded by their number (`DuplicatesAreFew`,
`CommentsAreFew`, `AnalysesAreFew`, `OpenInvitationsAreFew`, `ActivePatchesAreFew`). The bound
is reached: two SELECTs before either INSERT make two rows of a key, two active patches or two
open invitations; two backends create two jobs of one run, and its workers two analyses; two
retries of a skipped delivery create two jobs, whose workers both list and then both POST.

Other properties hold only while requests of a kind do not overlap, as one user of one backend
would send them. TLC finds a counterexample as soon as the named constant is enlarged:

| property | constant | behaviour |
|---|---|---|
| `ClaimExclusive`, `CompletedIsFinal`, `RetryBudget`, `ImplementsLifecycle` | `Callers = {c1, c2}` in `JobQueue` | the second of two retries re-queues a job that is claimed already |
| `CompletedJobSettlesDelivery`, `DeliveredIsKept` | `Callers = {c1, c2}` in `PRDelivery` | two jobs of one delivery write its row in turn |
| `OwnerRetained`, `OwnershipIsOwners` | `Managers = {m1, m2}` in `Membership` | both check before either commits |
| `StatesBuyInstallations` | `Setups` of two in `Installations` | both find the state unused |

The organization routes answer an ADMIN "Only an owner may change an owner"
(`organization_routes.py` 75, 85). That does not hold of what an ADMIN can bring about:
`create_api_key` asks for ADMIN and takes any role (`schemas.py` 69-71, `main.py` 313-319), and
with a key of role OWNER (`authz.py` 151-154) owners are made, demoted and removed; `CreateKey`,
`Authorize`, `LoadMember` is the behaviour. `OwnershipIsOwners` says only that a request, a
member's or a key's, has role OWNER when it changes an owner; it is no statement about who
stands behind the key.

Four more are weakened to what holds. `DeliveredMeansPosted` excepts a repository that has
moved. `EventuallyResolved` admits a row left QUEUED, SENDING or RETRYING by a job that has
failed for good: an exception which `deliver` does not expect leaves it SENDING.
`DeliveredIsKept` admits that a retry request which loaded the row before the delivery
overwrites DELIVERED, and `OccurrencesAreSeen` that two workers counting at the same time store
the same `occurrence_count`. Nothing is claimed about an invitation revoked while it is being
accepted: the acceptance may win.

What the services do not promise, and no property says:

* Two tabs that refresh together both exchange the cookie's token (`services/auth.py` 19);
  `ReuseNeedsOverlap` says that a token is used twice in no other way.
* A refresh that overlaps a logout may put a token into the cookie afterwards, and its session
  lives on. `SessionIsKept` is about one tab in use, with nothing lost and nothing expired.
* One OAuth state may serve two callbacks (`auth_routes.py` 195), which `LinkIsKept` allows for.
  A known user with a placeholder address whose new verified address belongs to another account
  gets an IntegrityError (`auth_routes.py` 110): its callback can only `Fail`. `Verify` assumes
  that an address does not change hands on GitHub between a callback's question and its COMMIT.
* A connect that overlaps a suspension leaves an active repository behind; `DeactivationHolds`
  excludes requests that overlap the webhook. Unsuspending revives the installation, not its
  repositories. The app webhook finds repositories whatever their active flag (`main.py` 806).
* Rate limits are per process and per fixed window: two windows' worth may pass around a
  boundary. Once two threads of a process are in the in-memory limiter at once, no rate holds of
  it any more: both may pass the test, and each may trim by its own time what the other needs.
  Only what the bucket remembers is bounded then. A request that chose its window and counts when
  the key has expired passes on a new count. While Redis fails only the memory of the process
  limits. `RateIsBounded` says exactly this much.
* A job in RETRYING is never selected in inline mode, and the retry route refuses it.
* Beyond 30 evidence lines the decisive one may be cut off, and which ten of more matching lines
  are quoted depends on their order. The severity of an accepted answer is free text. A blank
  log passes the question whether to ask the provider (`ai.py` 477).

## 6. Plan

What is left, in order of importance:

1. Renaming and deleting an organization, and the login attempt counter.
2. The components named under "Not modelled", as far as they get state of their own.
