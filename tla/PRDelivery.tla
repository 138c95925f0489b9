------------------------------ MODULE PRDelivery ------------------------------
(***************************************************************************)
(* One PRCommentDelivery row, from queue_delivery to the GitHub comment:   *)
(* app/services/pr_comments.py, the PR_COMMENT_DELIVERY branch of          *)
(* worker.handle_job and the retry route of app/main.py.                   *)
(*                                                                         *)
(* The job that carries the delivery is a job of JobLifecycle, which       *)
(* JobQueue implements: a handler runs while its worker is in the job's    *)
(* runners.  Every GitHub request and every commit is a step; any request  *)
(* may fail for a while, fail for good, time out after it took effect, or  *)
(* end in an exception that deliver does not expect.                       *)
(* The report's text is left out: only the marker in it matters here.  The *)
(* first commit of a session writes a column only if it changes the value  *)
(* loaded; deliver's later commits always write status, because the first  *)
(* commit expired the row.                                                 *)
(***************************************************************************)
EXTENDS Integers, FiniteSets

CONSTANTS
  Jobs,          \* rows of the jobs table that may carry this delivery
  Workers,
  Callers,       \* concurrent requests of the retry route
  MaxAttempts,   \* settings.worker_max_attempts
  LongPullRequest,  \* is the comment beyond the 500 that client.comments reads?
  MaxRetries,    \* bound: presses of the two retry buttons
  MaxAbandons    \* bound: executions lost to crashes and Redis failures

ASSUME CallersAssumption == IsFiniteSet(Callers)
ASSUME MaxAttemptsAssumption == MaxAttempts \in Nat
ASSUME BoundsAssumption == MaxRetries \in Nat /\ MaxAbandons \in Nat
ASSUME LongPullRequestAssumption == LongPullRequest \in BOOLEAN

VARIABLES
  status, attempts, runners,  \* the jobs, as in JobLifecycle
  delivery,   \* PRCommentDelivery.status; "NONE" before queue_delivery
  handler,    \* where each worker is in handle_job and deliver
  request,    \* where each request is in retry_pr_comment
  pr,         \* GitHub: the pull request of the run's branch and SHA, "moved" for good
              \* once the repository has another name or owner: requests are redirected
  comments,   \* GitHub: comments of that pull request that carry the marker
  retries,    \* retry requests so far
  abandons    \* executions lost so far

jobVars == <<status, attempts, runners>>
bounds  == <<retries, abandons>>
vars    == <<status, attempts, runners, delivery, handler, request, pr, comments,
             retries, abandons>>

Life == INSTANCE JobLifecycle

DeliveryStatuses == {"NONE", "QUEUED", "SENDING", "RETRYING", "DELIVERED", "SKIPPED", "FAILED"}
HandlerSteps == {"none", "loaded", "finding", "listing", "posting", "skipping", "posted",
                 "temporary", "permanent", "returned", "raised"}
RequestSteps == {"idle", "loaded", "committed", "checked"}

Idle == [step |-> "none", seen |-> "NONE", marker |-> FALSE]

Written(current, seen, new) == IF new = seen THEN current ELSE new

Goto(w, next) == handler' = [handler EXCEPT ![w].step = next]

Init ==
  /\ Life!Init
  /\ delivery = "NONE"
  /\ handler = [w \in Workers |-> Idle]
  /\ request = [c \in Callers |-> [step |-> "idle", seen |-> "NONE"]]
  /\ pr \in {"none", "open", "closed"}
  /\ comments = 0
  /\ retries = 0
  /\ abandons = 0

-----------------------------------------------------------------------------
(* queue_delivery, called once, by the handler that persisted the analysis. *)

\* Settings, confidence, branch and token permit a comment: the delivery and its
\* job are inserted by one commit.
QueueDelivery(j) ==
  /\ delivery = "NONE"
  /\ \A i \in Jobs : status[i] = "NONE"
  /\ delivery' = "QUEUED"
  /\ Life!Create(j)
  /\ UNCHANGED <<handler, request, pr, comments, bounds>>

\* DISABLED, LOW_CONFIDENCE, BRANCH_NOT_ALLOWED or MISSING_CREDENTIALS: no job.
SkipDelivery ==
  /\ delivery = "NONE"
  /\ delivery' = "SKIPPED"
  /\ UNCHANGED <<jobVars, handler, request, pr, comments, bounds>>

-----------------------------------------------------------------------------
(* handle_job and deliver, by a worker executing job j. *)

Start(w, j) ==
  /\ \A i \in Jobs : w \notin runners[i]
  /\ Life!Start(j, w)
  /\ UNCHANGED <<delivery, handler, request, pr, comments, bounds>>

Load(w, j) ==
  /\ w \in runners[j]
  /\ handler[w].step = "none"
  /\ handler' = [handler EXCEPT ![w] = [Idle EXCEPT !.step = "loaded", !.seen = delivery]]
  /\ UNCHANGED <<jobVars, delivery, request, pr, comments, bounds>>

\* resolve_repository_token raises ValueError: SKIPPED, and the job completes.
NoCredentials(w) ==
  /\ handler[w].step = "loaded"
  /\ delivery' = Written(delivery, handler[w].seen, "SKIPPED")
  /\ Goto(w, "returned")
  /\ UNCHANGED <<jobVars, request, pr, comments, bounds>>

MarkSending(w) ==
  /\ handler[w].step = "loaded"
  /\ delivery' = Written(delivery, handler[w].seen, "SENDING")
  /\ Goto(w, "finding")
  /\ UNCHANGED <<jobVars, request, pr, comments, bounds>>

FindPullRequest(w) ==
  /\ handler[w].step = "finding"
  /\ pr # "moved"
  /\ Goto(w, IF pr = "open" THEN "listing" ELSE "skipping")
  /\ UNCHANGED <<jobVars, delivery, request, pr, comments, bounds>>

\* Mutation of ListComments: the marker is not looked for.
ListCommentsUnmarked(w) ==
  /\ handler[w].step = "listing"
  /\ pr # "moved"
  /\ handler' = [handler EXCEPT ![w].step = "posting", ![w].marker = FALSE]
  /\ UNCHANGED <<jobVars, delivery, request, pr, comments, bounds>>

ListComments(w) ==
  /\ handler[w].step = "listing"
  /\ pr # "moved"
  /\ handler' = [handler EXCEPT ![w].step = "posting",
                                ![w].marker = (comments > 0 /\ ~ LongPullRequest)]
  /\ UNCHANGED <<jobVars, delivery, request, pr, comments, bounds>>

\* PATCH the comment seen, or POST a new one; `next` is "posted", "temporary" when the
\* answer is lost, or "raised" when it is no JSON object.
Post(w, next) ==
  /\ handler[w].step = "posting"
  /\ pr # "moved"
  /\ comments' = IF handler[w].marker THEN comments ELSE comments + 1
  /\ Goto(w, next)
  /\ UNCHANGED <<jobVars, delivery, request, pr, bounds>>

\* The write is redirected, which is no error to _request and has no effect, and the body
\* of the redirection is taken for the comment.
PostRedirected(w) ==
  /\ handler[w].step = "posting"
  /\ pr = "moved"
  /\ Goto(w, "posted")
  /\ UNCHANGED <<jobVars, delivery, request, pr, comments, bounds>>

\* A GitHub request fails without effect: GitHubTemporaryError or GitHubPermanentError.
RequestFails(w, kind) ==
  /\ handler[w].step \in {"finding", "listing", "posting"}
  /\ Goto(w, kind)
  /\ UNCHANGED <<jobVars, delivery, request, pr, comments, bounds>>

\* Any other exception, which neither except of deliver catches: the list of a redirected
\* request, a body that is no JSON, a failing SELECT or COMMIT.  The row stays as it is.
HandlerRaises(w) ==
  /\ handler[w].step \notin {"none", "returned", "raised"}
  /\ Goto(w, "raised")
  /\ UNCHANGED <<jobVars, delivery, request, pr, comments, bounds>>

\* Mutations of Verdict: a temporary error is recorded as a delivery; a temporary
\* error is recorded and not raised.
VerdictOptimistic ==
  [skipping  |-> [status |-> "SKIPPED",   next |-> "returned"],
   posted    |-> [status |-> "DELIVERED", next |-> "returned"],
   temporary |-> [status |-> "DELIVERED", next |-> "raised"],
   permanent |-> [status |-> "FAILED",    next |-> "returned"]]

VerdictSwallowed ==
  [skipping  |-> [status |-> "SKIPPED",   next |-> "returned"],
   posted    |-> [status |-> "DELIVERED", next |-> "returned"],
   temporary |-> [status |-> "RETRYING",  next |-> "returned"],
   permanent |-> [status |-> "FAILED",    next |-> "returned"]]

\* What deliver commits at the end of each path, and whether it then raises.
Verdict == [skipping  |-> [status |-> "SKIPPED",   next |-> "returned"],
            posted    |-> [status |-> "DELIVERED", next |-> "returned"],
            temporary |-> [status |-> "RETRYING",  next |-> "raised"],
            permanent |-> [status |-> "FAILED",    next |-> "returned"]]

CommitVerdict(w) ==
  /\ handler[w].step \in DOMAIN Verdict
  /\ delivery' = Verdict[handler[w].step].status
  /\ Goto(w, Verdict[handler[w].step].next)
  /\ UNCHANGED <<jobVars, request, pr, comments, bounds>>

\* Mutation of EndJob: a job out of attempts ends as FAILED.
EndJobFailed(w, j) ==
  /\ \/ handler[w].step = "returned" /\ Life!Complete(j, w)
     \/ handler[w].step = "raised" /\ Life!Retry(j, w)
     \/ handler[w].step = "raised" /\ attempts[j] >= MaxAttempts
                                  /\ Life!End(j, w, "FAILED") /\ UNCHANGED attempts
  /\ handler' = [handler EXCEPT ![w] = Idle]
  /\ UNCHANGED <<delivery, request, pr, comments, bounds>>

\* process_job settles the job by how the handler ended.
EndJob(w, j) ==
  /\ \/ handler[w].step = "returned" /\ Life!Complete(j, w)
     \/ handler[w].step = "raised" /\ Life!Retry(j, w)
     \/ handler[w].step = "raised" /\ attempts[j] >= MaxAttempts /\ Life!Fail(j, w)
  /\ handler' = [handler EXCEPT ![w] = Idle]
  /\ UNCHANGED <<delivery, request, pr, comments, bounds>>

\* The execution is lost wherever the handler was; the delivery stays as it is.
Abandon(w, j) ==
  /\ abandons < MaxAbandons
  /\ abandons' = abandons + 1
  /\ Life!Abandon(j, w)
  /\ handler' = [handler EXCEPT ![w] = Idle]
  /\ UNCHANGED <<delivery, request, pr, comments, retries>>

-----------------------------------------------------------------------------
(* POST /api/analyses/{id}/pr-comment/retry and POST /api/jobs/{id}/retry. *)

\* Mutation of RetryLoad: a delivered comment may be retried.
RetryLoadDelivered(c) ==
  /\ request[c].step = "idle"
  /\ delivery # "NONE"
  /\ retries < MaxRetries
  /\ retries' = retries + 1
  /\ request' = [request EXCEPT ![c] = [step |-> "loaded", seen |-> delivery]]
  /\ UNCHANGED <<jobVars, delivery, handler, pr, comments, abandons>>

RetryLoad(c) ==
  /\ request[c].step = "idle"
  /\ delivery \notin {"NONE", "DELIVERED"}
  /\ retries < MaxRetries
  /\ retries' = retries + 1
  /\ request' = [request EXCEPT ![c] = [step |-> "loaded", seen |-> delivery]]
  /\ UNCHANGED <<jobVars, delivery, handler, pr, comments, abandons>>

RetryCommit(c) ==
  /\ request[c].step = "loaded"
  /\ delivery' = Written(delivery, request[c].seen, "QUEUED")
  /\ request' = [request EXCEPT ![c].step = "committed"]
  /\ UNCHANGED <<jobVars, handler, pr, comments, bounds>>

\* enqueue's SELECT; a row found, in whatever state, ends the request.
RetryCheck(c) ==
  /\ request[c].step = "committed"
  /\ request' = [request EXCEPT ![c] =
       IF \E j \in Jobs : status[j] # "NONE" THEN [step |-> "idle", seen |-> "NONE"]
                                             ELSE [@ EXCEPT !.step = "checked"]]
  /\ UNCHANGED <<jobVars, delivery, handler, pr, comments, bounds>>

RetryInsert(c, j) ==
  /\ request[c].step = "checked"
  /\ Life!Create(j)
  /\ request' = [request EXCEPT ![c] = [step |-> "idle", seen |-> "NONE"]]
  /\ UNCHANGED <<delivery, handler, pr, comments, bounds>>

ResetJob(j) ==
  /\ retries < MaxRetries
  /\ retries' = retries + 1
  /\ Life!Reset(j)
  /\ UNCHANGED <<delivery, handler, request, pr, comments, abandons>>

-----------------------------------------------------------------------------
\* People open, close and reopen the pull request, rename or transfer the repository.
PullRequestChanges ==
  /\ \/ pr \in {"none", "closed"} /\ pr' = "open"
     \/ pr = "open" /\ pr' = "closed"
     \/ pr # "moved" /\ pr' = "moved"
  /\ UNCHANGED <<jobVars, delivery, handler, request, comments, bounds>>

HandlerStep(w) ==
  \/ \E j \in Jobs : Load(w, j) \/ EndJob(w, j)
  \/ NoCredentials(w) \/ MarkSending(w) \/ FindPullRequest(w) \/ ListComments(w)
  \/ \E next \in {"posted", "temporary", "raised"} : Post(w, next)
  \/ \E kind \in {"temporary", "permanent"} : RequestFails(w, kind)
  \/ PostRedirected(w) \/ HandlerRaises(w) \/ CommitVerdict(w)

RequestStep(c) == RetryCommit(c) \/ RetryCheck(c) \/ \E j \in Jobs : RetryInsert(c, j)

StartSome == \E w \in Workers, j \in Jobs : Start(w, j)

Next ==
  \/ \E j \in Jobs : QueueDelivery(j) \/ ResetJob(j)
  \/ SkipDelivery
  \/ StartSome
  \/ \E w \in Workers : HandlerStep(w) \/ \E j \in Jobs : Abandon(w, j)
  \/ \E c \in Callers : RetryLoad(c) \/ RequestStep(c)
  \/ PullRequestChanges

Spec == Init /\ [][Next]_vars

\* Queued jobs are started (JobQueue's liveness), handlers and requests run on.
FairSpec == /\ Spec
            /\ WF_vars(StartSome)
            /\ \A w \in Workers : WF_vars(HandlerStep(w))
            /\ \A c \in Callers : WF_vars(RequestStep(c))

-----------------------------------------------------------------------------
(* Properties *)

\* Types of the delivery row, of the handlers' and requests' locals, and of GitHub.
TypeOK ==
  /\ status \in [Jobs -> {"NONE", "QUEUED", "RETRYING", "RUNNING", "COMPLETED",
                          "FAILED_PERMANENT"}]
  /\ attempts \in [Jobs -> 0..MaxAttempts]
  /\ runners \in [Jobs -> SUBSET Workers]
  /\ delivery \in DeliveryStatuses
  /\ handler \in [Workers -> [step : HandlerSteps, seen : DeliveryStatuses, marker : BOOLEAN]]
  /\ request \in [Callers -> [step : RequestSteps, seen : DeliveryStatuses]]
  /\ pr \in {"none", "open", "closed", "moved"}
  /\ comments \in Nat
  /\ retries \in 0..MaxRetries
  /\ abandons \in 0..MaxAbandons

\* The marker makes the comment unique: retries, lost answers, crashes and manual retries
\* never leave more comments of one analysis on the pull request than retry requests overlap,
\* one when they do not, as long as the listing reaches the comment.
CommentsAreFew == ~ LongPullRequest => comments <= 1 \/ comments <= Cardinality(Callers)

\* A delivery shown as DELIVERED has its comment on the pull request, whatever requests
\* failed or lost their answers before; except in a repository that moved, where the
\* client takes the redirection of its POST for the comment.
DeliveredMeansPosted == delivery = "DELIVERED" => comments >= 1 \/ pr = "moved"

\* A settled job has settled its delivery: nobody is left SENDING or RETRYING
\* behind a job that counts as completed.
CompletedJobSettlesDelivery ==
  (\E j \in Jobs : status[j] = "COMPLETED") => delivery \notin {"SENDING", "RETRYING"}

\* A delivered comment is not sent again: DELIVERED is left only for a retry request
\* that had loaded the row before the delivery, never for a handler that runs late
\* and never for a request that saw the delivered comment.
DeliveredIsKept ==
  [][delivery = "DELIVERED" /\ delivery' # "DELIVERED" =>
       \E c \in Callers : request[c].step = "loaded" /\ request[c].seen # "DELIVERED"]_vars

\* A QUEUED delivery is served: once no retry request is under way there is a job
\* that a worker has or will get.  deliver runs only from such a job.
QueuedIsServed ==
  delivery = "QUEUED" /\ (\A c \in Callers : request[c].step = "idle") =>
    \E j \in Jobs : status[j] \in {"QUEUED", "RETRYING", "RUNNING"}

\* A queued delivery is eventually delivered, skipped or failed, or its job has used up its
\* attempts and failed for good, where the job's own retry button can take it up again;
\* unless somebody presses retry (see QueuedIsServed) or an execution is lost.  A job
\* that ends so leaves the row RETRYING after a temporary error and SENDING, or QUEUED,
\* after an exception that deliver does not expect.
EventuallyResolved ==
  delivery = "QUEUED" ~>
    \/ delivery \in {"DELIVERED", "SKIPPED", "FAILED"}
    \/ \E j \in Jobs : status[j] = "FAILED_PERMANENT"
    \/ retries > 0 \/ abandons > 0

=============================================================================
