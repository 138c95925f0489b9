--------------------------- MODULE PRDeliveryProofs ---------------------------
(***************************************************************************)
(* Theorems about PRDelivery, for any number of jobs, workers, retries and *)
(* lost executions: whatever overlaps, what a DELIVERED row says and how   *)
(* many comments there are, and, when retry requests do not overlap, what  *)
(* a settled job and a delivered comment promise.                          *)
(***************************************************************************)
EXTENDS PRDelivery, FiniteSetTheorems, TLAPS

HandlerType == [step : HandlerSteps, seen : DeliveryStatuses, marker : BOOLEAN]
RequestType == [step : RequestSteps, seen : DeliveryStatuses]

\* The steps of deliver and of its caller that leave the jobs alone.
HandlerActs(w) ==
  \/ \E j \in Jobs : Load(w, j)
  \/ NoCredentials(w) \/ MarkSending(w) \/ FindPullRequest(w) \/ ListComments(w)
  \/ \E next \in {"posted", "temporary", "raised"} : Post(w, next)
  \/ \E kind \in {"temporary", "permanent"} : RequestFails(w, kind)
  \/ PostRedirected(w) \/ HandlerRaises(w) \/ CommitVerdict(w)

JobEnds(w, j) == EndJob(w, j) \/ Abandon(w, j)

LEMMA NextSplits ==
  Next <=> \/ \E j \in Jobs : QueueDelivery(j) \/ ResetJob(j)
           \/ SkipDelivery \/ PullRequestChanges
           \/ \E w \in Workers : HandlerActs(w) \/ \E j \in Jobs : Start(w, j) \/ JobEnds(w, j)
           \/ \E c \in Callers : RetryLoad(c) \/ RetryCommit(c) \/ RetryCheck(c)
                                 \/ \E j \in Jobs : RetryInsert(c, j)
BY DEF Next, StartSome, HandlerStep, HandlerActs, JobEnds, RequestStep

-----------------------------------------------------------------------------
(* Types, and what a DELIVERED row says of GitHub. *)

\* A comment was found, or has been posted, or the answer was a redirection.
PostedFits == \A w \in Workers :
  handler[w].step = "posted" \/ (handler[w].step = "posting" /\ handler[w].marker) =>
    comments >= 1 \/ pr = "moved"

PostedInv == TypeOK /\ PostedFits /\ DeliveredMeansPosted

\* What an action of the handler of w does, h being its new locals and d the row's status:
\* it runs in an execution, comments once if its listing found no comment, and commits
\* DELIVERED after that only.
Acted(w, h, d) ==
  /\ handler' = [handler EXCEPT ![w] = h]
  /\ delivery' = d
  /\ UNCHANGED <<status, attempts, runners, request, pr, retries, abandons>>
  /\ h.step # "none" /\ handler[w].step # "returned"
  /\ handler[w].step = "none" => \E j \in Jobs : w \in runners[j]
  /\ h.step = "loaded" => h.seen = d
  /\ h.step = "posting" => /\ comments' = comments
                           /\ h.marker => comments > 0
                           /\ ~ LongPullRequest /\ comments > 0 => h.marker
  /\ h.step = "posted" => /\ handler[w].step = "posting"
                          /\ handler[w].marker \/ comments' = comments + 1 \/ pr = "moved"
  /\ h.step = "returned" /\ d \in {"SENDING", "RETRYING"} =>
       handler[w].step = "loaded" /\ d = delivery /\ handler[w].seen = "SKIPPED"
  /\ d = "DELIVERED" /\ delivery # "DELIVERED" =>
       handler[w].step = "posted" /\ h.step = "returned"
  /\ d = "NONE" => d = delivery
  /\ \/ comments' = comments
     \/ handler[w].step = "posting" /\ ~ handler[w].marker /\ comments' = comments + 1

LEMMA HandlerActsAre ==
  ASSUME TypeOK, NEW w \in Workers, HandlerActs(w)
  PROVE  \E h \in HandlerType, d \in DeliveryStatuses : Acted(w, h, d)
<1>0. handler[w] \in HandlerType /\ delivery \in DeliveryStatuses /\ comments \in Nat
  BY DEF TypeOK, HandlerType
<1>1. ASSUME NEW j \in Jobs, Load(w, j)
      PROVE  \E h \in HandlerType, d \in DeliveryStatuses : Acted(w, h, d)
  <2> DEFINE h == [Idle EXCEPT !.step = "loaded", !.seen = delivery]
  <2>1. h \in HandlerType /\ h.step = "loaded" /\ h.seen = delivery
    BY <1>0 DEF HandlerType, Idle, HandlerSteps, DeliveryStatuses
  <2>2. handler' = [handler EXCEPT ![w] = h]
    BY <1>1 DEF Load
  <2> HIDE DEF h
  <2>3. Acted(w, h, delivery)
    BY <1>1, <2>1, <2>2 DEF Acted, Load, jobVars, bounds
  <2>4. QED
    BY <1>0, <2>1, <2>3
<1>2. ASSUME NEW next \in HandlerSteps, Goto(w, next)
      PROVE  \E h \in HandlerType : handler' = [handler EXCEPT ![w] = h] /\ h.step = next
  <2> DEFINE h == [handler[w] EXCEPT !.step = next]
  <2>1. h \in HandlerType /\ h.step = next
    BY <1>0 DEF HandlerType
  <2>2. handler' = [handler EXCEPT ![w] = h]
    BY <1>2 DEF Goto, TypeOK
  <2> HIDE DEF h
  <2>3. QED
    BY <2>1, <2>2
<1>3. CASE NoCredentials(w)
  <2>1. PICK h \in HandlerType : handler' = [handler EXCEPT ![w] = h] /\ h.step = "returned"
    BY <1>2, <1>3 DEF NoCredentials, HandlerSteps
  <2>2. delivery' \in {delivery, "SKIPPED"} /\ (delivery' = delivery => delivery = "SKIPPED" \/ handler[w].seen = "SKIPPED")
    BY <1>3 DEF NoCredentials, Written
  <2>3. PICK d \in DeliveryStatuses : d = delivery'
    BY <1>0, <2>2 DEF DeliveryStatuses
  <2>4. Acted(w, h, d)
    BY <1>3, <2>1, <2>2, <2>3 DEF Acted, NoCredentials, jobVars, bounds
  <2>5. QED
    BY <2>4
<1>4. CASE MarkSending(w)
  <2>1. PICK h \in HandlerType : handler' = [handler EXCEPT ![w] = h] /\ h.step = "finding"
    BY <1>2, <1>4 DEF MarkSending, HandlerSteps
  <2>2. delivery' \in {delivery, "SENDING"}
    BY <1>4 DEF MarkSending, Written
  <2>3. PICK d \in DeliveryStatuses : d = delivery'
    BY <1>0, <2>2 DEF DeliveryStatuses
  <2>4. Acted(w, h, d)
    BY <1>4, <2>1, <2>2, <2>3 DEF Acted, MarkSending, jobVars, bounds
  <2>5. QED
    BY <2>4
<1>5. CASE FindPullRequest(w)
  <2>1. PICK next \in {"listing", "skipping"} : Goto(w, next)
    BY <1>5 DEF FindPullRequest
  <2>2. PICK h \in HandlerType : handler' = [handler EXCEPT ![w] = h] /\ h.step = next
    BY <1>2, <2>1 DEF HandlerSteps
  <2>3. Acted(w, h, delivery)
    BY <1>5, <2>1, <2>2 DEF Acted, FindPullRequest, jobVars, bounds
  <2>4. QED
    BY <1>0, <2>3
<1>6. CASE ListComments(w)
  <2> DEFINE h == [handler[w] EXCEPT !.step = "posting",
                                     !.marker = (comments > 0 /\ ~ LongPullRequest)]
  <2>1. h \in HandlerType /\ h.step = "posting" /\ h.marker = (comments > 0 /\ ~ LongPullRequest)
    BY <1>0, LongPullRequestAssumption DEF HandlerType, HandlerSteps
  <2>2. handler' = [handler EXCEPT ![w] = h]
    BY <1>6 DEF ListComments, TypeOK
  <2> HIDE DEF h
  <2>3. Acted(w, h, delivery)
    BY <1>6, <2>1, <2>2 DEF Acted, ListComments, jobVars, bounds
  <2>4. QED
    BY <1>0, <2>1, <2>3
<1>7. ASSUME NEW next \in {"posted", "temporary", "raised"}, Post(w, next)
      PROVE  \E h \in HandlerType, d \in DeliveryStatuses : Acted(w, h, d)
  <2>1. PICK h \in HandlerType : handler' = [handler EXCEPT ![w] = h] /\ h.step = next
    BY <1>2, <1>7 DEF Post, HandlerSteps
  <2>2. Acted(w, h, delivery)
    BY <1>0, <1>7, <2>1 DEF Acted, Post, jobVars, bounds
  <2>3. QED
    BY <1>0, <2>2
<1>8. ASSUME NEW kind \in {"temporary", "permanent"}, RequestFails(w, kind)
      PROVE  \E h \in HandlerType, d \in DeliveryStatuses : Acted(w, h, d)
  <2>1. PICK h \in HandlerType : handler' = [handler EXCEPT ![w] = h] /\ h.step = kind
    BY <1>2, <1>8 DEF RequestFails, HandlerSteps
  <2>2. Acted(w, h, delivery)
    BY <1>8, <2>1 DEF Acted, RequestFails, jobVars, bounds
  <2>3. QED
    BY <1>0, <2>2
<1>9. CASE PostRedirected(w)
  <2>1. PICK h \in HandlerType : handler' = [handler EXCEPT ![w] = h] /\ h.step = "posted"
    BY <1>2, <1>9 DEF PostRedirected, HandlerSteps
  <2>2. Acted(w, h, delivery)
    BY <1>9, <2>1 DEF Acted, PostRedirected, jobVars, bounds
  <2>3. QED
    BY <1>0, <2>2
<1>10. CASE CommitVerdict(w)
  <2>1. /\ handler[w].step \in {"skipping", "posted", "temporary", "permanent"}
        /\ \/ handler[w].step = "skipping" /\ delivery' = "SKIPPED" /\ Goto(w, "returned")
           \/ handler[w].step = "posted" /\ delivery' = "DELIVERED" /\ Goto(w, "returned")
           \/ handler[w].step = "temporary" /\ delivery' = "RETRYING" /\ Goto(w, "raised")
           \/ handler[w].step = "permanent" /\ delivery' = "FAILED" /\ Goto(w, "returned")
    BY <1>10 DEF CommitVerdict, Verdict
  <2>2. PICK next \in {"returned", "raised"} :
          Goto(w, next) /\ (delivery' = "RETRYING" <=> next = "raised")
    BY <2>1
  <2>3. PICK h \in HandlerType : handler' = [handler EXCEPT ![w] = h] /\ h.step = next
    BY <1>2, <2>2 DEF HandlerSteps
  <2>4. PICK d \in {"SKIPPED", "DELIVERED", "RETRYING", "FAILED"} : d = delivery'
    BY <2>1
  <2>5. Acted(w, h, d)
    BY <1>10, <2>1, <2>2, <2>3, <2>4 DEF Acted, CommitVerdict, jobVars, bounds
  <2>6. QED
    BY <2>5 DEF DeliveryStatuses
<1>11. CASE HandlerRaises(w)
  <2>1. PICK h \in HandlerType : handler' = [handler EXCEPT ![w] = h] /\ h.step = "raised"
    BY <1>2, <1>11 DEF HandlerRaises, HandlerSteps
  <2>2. Acted(w, h, delivery)
    BY <1>11, <2>1 DEF Acted, HandlerRaises, jobVars, bounds
  <2>3. QED
    BY <1>0, <2>2
<1>12. QED
  BY <1>1, <1>3, <1>4, <1>5, <1>6, <1>7, <1>8, <1>9, <1>10, <1>11 DEF HandlerActs

LEMMA PostedStep == PostedInv /\ [Next]_vars => PostedInv'
<1> SUFFICES ASSUME PostedInv, [Next]_vars
             PROVE  PostedInv'
  OBVIOUS
<1>0. TypeOK /\ comments \in Nat
  BY DEF PostedInv, TypeOK
<1>1. CASE UNCHANGED vars
  BY <1>1 DEF vars, PostedInv, TypeOK, PostedFits, DeliveredMeansPosted
<1>2. ASSUME NEW w \in Workers, HandlerActs(w)
      PROVE  PostedInv'
  <2>1. PICK h \in HandlerType, d \in DeliveryStatuses : Acted(w, h, d)
    BY <1>0, <1>2, HandlerActsAre
  <2>2. /\ handler' \in [Workers -> HandlerType] /\ handler'[w] = h
        /\ \A v \in Workers : v # w => handler'[v] = handler[v]
        /\ comments' \in {comments, comments + 1}
    BY <1>0, <2>1 DEF Acted, TypeOK, HandlerType
  <2>3. TypeOK'
    BY <1>0, <2>1, <2>2 DEF Acted, TypeOK, HandlerType
  <2>4. PostedFits'
    BY <1>0, <2>1, <2>2 DEF Acted, PostedInv, PostedFits
  <2>5. DeliveredMeansPosted'
    BY <1>0, <2>1, <2>2 DEF Acted, PostedInv, PostedFits, DeliveredMeansPosted
  <2>6. QED
    BY <2>3, <2>4, <2>5 DEF PostedInv
<1>3. ASSUME NEW j \in Jobs, QueueDelivery(j) \/ ResetJob(j)
      PROVE  PostedInv'
  <2>1. UNCHANGED <<handler, comments, pr>>
    BY <1>3 DEF QueueDelivery, ResetJob
  <2>2. TypeOK'
    BY <1>0, <1>3, <2>1, MaxAttemptsAssumption, BoundsAssumption
      DEF QueueDelivery, ResetJob, Life!Create, Life!Reset, TypeOK, DeliveryStatuses, bounds
  <2>3. delivery' \in {delivery, "QUEUED"}
    BY <1>3 DEF QueueDelivery, ResetJob
  <2>4. QED
    BY <2>1, <2>2, <2>3 DEF PostedInv, PostedFits, DeliveredMeansPosted
<1>4. CASE SkipDelivery \/ PullRequestChanges
  BY <1>4 DEF SkipDelivery, PullRequestChanges, jobVars, bounds, PostedInv, TypeOK, PostedFits,
              DeliveredMeansPosted, DeliveryStatuses
<1>5. ASSUME NEW w \in Workers, NEW j \in Jobs, Start(w, j)
      PROVE  PostedInv'
  BY <1>5 DEF Start, Life!Start, bounds, PostedInv, TypeOK, PostedFits, DeliveredMeansPosted
<1>6. ASSUME NEW w \in Workers, NEW j \in Jobs, JobEnds(w, j)
      PROVE  PostedInv'
  <2>1. Idle \in HandlerType /\ Idle.step = "none"
    BY DEF HandlerType, Idle, HandlerSteps, DeliveryStatuses
  <2>2. /\ handler' = [handler EXCEPT ![w] = Idle] /\ abandons' \in 0 .. MaxAbandons
        /\ UNCHANGED <<delivery, comments, request, pr, retries>>
    BY <1>0, <1>6, BoundsAssumption DEF JobEnds, EndJob, Abandon, bounds, TypeOK
  <2>3. /\ \A v \in Workers : handler'[v] = handler[v] \/ handler'[v] = Idle
        /\ handler' \in [Workers -> HandlerType]
    BY <1>0, <2>1, <2>2 DEF TypeOK, HandlerType
  <2>4. /\ attempts' \in [Jobs -> 0 .. MaxAttempts]
        /\ runners' \in [Jobs -> SUBSET Workers]
        /\ status' \in [Jobs -> {"NONE", "QUEUED", "RETRYING", "RUNNING", "COMPLETED",
                                 "FAILED_PERMANENT"}]
    BY <1>0, <1>6, MaxAttemptsAssumption
      DEF JobEnds, EndJob, Abandon, Life!Complete, Life!Retry, Life!Fail, Life!Abandon, Life!End,
          TypeOK
  <2>5. TypeOK'
    BY <1>0, <2>2, <2>3, <2>4 DEF TypeOK, HandlerType
  <2>6. QED
    BY <2>1, <2>2, <2>3, <2>5 DEF PostedInv, PostedFits, DeliveredMeansPosted
<1>7. ASSUME NEW c \in Callers,
             RetryLoad(c) \/ RetryCommit(c) \/ RetryCheck(c) \/ \E j \in Jobs : RetryInsert(c, j)
      PROVE  PostedInv'
  <2>1. UNCHANGED <<handler, comments, pr, abandons>> /\ delivery' \in {delivery, "QUEUED"}
    BY <1>7 DEF RetryLoad, RetryCommit, RetryCheck, RetryInsert, bounds, Written
  <2>2. retries' \in 0 .. MaxRetries
    BY <1>0, <1>7, BoundsAssumption DEF RetryLoad, RetryCommit, RetryCheck, RetryInsert, bounds, TypeOK
  <2>3. request' \in [Callers -> RequestType]
    BY <1>0, <1>7
      DEF RetryLoad, RetryCommit, RetryCheck, RetryInsert, TypeOK, RequestType, RequestSteps,
          DeliveryStatuses
  <2>4. TypeOK'
    BY <1>0, <1>7, <2>1, <2>2, <2>3
      DEF RetryLoad, RetryCommit, RetryCheck, RetryInsert, Life!Create, jobVars, TypeOK,
          RequestType, DeliveryStatuses
  <2>5. QED
    BY <2>1, <2>4 DEF PostedInv, PostedFits, DeliveredMeansPosted
<1>8. QED
  BY <1>1, <1>2, <1>3, <1>4, <1>5, <1>6, <1>7, NextSplits

LEMMA PostedInvariant == Spec => []PostedInv
<1>1. Init => PostedInv
  <2> SUFFICES ASSUME Init
               PROVE  PostedInv
    OBVIOUS
  <2>1. TypeOK
    BY MaxAttemptsAssumption, BoundsAssumption
      DEF Init, Life!Init, TypeOK, Idle, HandlerSteps, RequestSteps, DeliveryStatuses
  <2>2. QED
    BY <2>1 DEF Init, Idle, PostedInv, PostedFits, DeliveredMeansPosted
<1>2. QED
  BY <1>1, PostedStep, PTL DEF Spec

\* The rows, the locals of deliver and of the retry route are well typed, and the attempts
\* of a delivery's job never exceed the configured maximum.
THEOREM DeliveryTypes == Spec => []TypeOK
<1>1. PostedInv => TypeOK
  BY DEF PostedInv
<1>2. QED
  BY PostedInvariant, <1>1, PTL

\* Whoever overlaps with whom, deliver commits DELIVERED only after a comment with the
\* marker was there: the row never claims a comment GitHub does not have.
THEOREM DeliveredIsPosted == Spec => []DeliveredMeansPosted
<1>1. PostedInv => DeliveredMeansPosted
  BY DEF PostedInv
<1>2. QED
  BY PostedInvariant, <1>1, PTL

-----------------------------------------------------------------------------
(* One job of a delivery. *)

\* No two retry requests overlap.
SerialCallers == \A c, d \in Callers : c = d

OneJob == \A i, j \in Jobs : status[i] # "NONE" /\ status[j] # "NONE" => i = j

RunnersFit == \A j \in Jobs : \A w \in runners[j] : status[j] = "RUNNING" /\ runners[j] = {w}

\* A retry request has seen the row, and creates a job if none is there still.
RequestsFit ==
  /\ \A c \in Callers :
       /\ request[c].step = "loaded" => request[c].seen # "DELIVERED"
       /\ request[c].step = "checked" => \A j \in Jobs : status[j] = "NONE"
       /\ request[c].step # "idle" => delivery # "NONE"
  /\ delivery = "NONE" => \A j \in Jobs : status[j] = "NONE"

\* What a handler knows is so when it acts: nobody else posts meanwhile, and the row is
\* changed by retry requests only.
HandlersFit ==
  \A w \in Workers :
    /\ handler[w].step # "none" => \E j \in Jobs : w \in runners[j]
    /\ handler[w].step = "loaded" => delivery \in {handler[w].seen, "QUEUED"}
    /\ handler[w].step = "posting" /\ ~ LongPullRequest /\ comments > 0 => handler[w].marker
    /\ handler[w].step = "returned" => delivery \notin {"SENDING", "RETRYING"}

\* Once delivered, the job is not executed again, and its handler does no more.
DeliveredFits ==
  delivery = "DELIVERED" =>
    /\ \E j \in Jobs : status[j] # "NONE"
    /\ \A j \in Jobs : /\ status[j] \in {"NONE", "RUNNING", "COMPLETED"}
                       /\ \A w \in runners[j] : handler[w].step = "returned"

SerialInv == /\ OneJob /\ RunnersFit /\ RequestsFit /\ HandlersFit /\ DeliveredFits
             /\ CompletedJobSettlesDelivery

\* The worker of an execution is the only one.
LEMMA OnlyExecution ==
  ASSUME OneJob, RunnersFit, HandlersFit, NEW w \in Workers, NEW j \in Jobs, w \in runners[j]
  PROVE  /\ status[j] = "RUNNING" /\ runners[j] = {w}
         /\ \A i \in Jobs : i # j => status[i] = "NONE" /\ runners[i] = {}
         /\ \A v \in Workers : v # w => handler[v].step = "none"
<1>1. status[j] = "RUNNING" /\ runners[j] = {w}
  BY DEF RunnersFit
<1>2. \A i \in Jobs : i # j => status[i] = "NONE" /\ runners[i] = {}
  BY <1>1 DEF OneJob, RunnersFit
<1>3. QED
  BY <1>1, <1>2 DEF HandlersFit

LEMMA NoExecution ==
  ASSUME RunnersFit, HandlersFit, NEW j \in Jobs, status[j] # "RUNNING",
         \A i \in Jobs : i # j => status[i] = "NONE"
  PROVE  (\A i \in Jobs : runners[i] = {}) /\ \A w \in Workers : handler[w].step = "none"
BY DEF RunnersFit, HandlersFit

LEMMA ActsKeep ==
  ASSUME TypeOK, PostedFits, SerialInv, NEW w \in Workers, HandlerActs(w)
  PROVE  SerialInv' /\ (delivery = "DELIVERED" => delivery' = "DELIVERED")
<1>1. PICK h \in HandlerType, d \in DeliveryStatuses : Acted(w, h, d)
  BY HandlerActsAre
<1>2. PICK j \in Jobs : w \in runners[j]
  BY <1>1 DEF Acted, SerialInv, HandlersFit
<1>3. /\ status[j] = "RUNNING" /\ runners[j] = {w}
      /\ \A i \in Jobs : i # j => status[i] = "NONE" /\ runners[i] = {}
      /\ \A v \in Workers : v # w => handler[v].step = "none"
  BY <1>2, OnlyExecution DEF SerialInv
<1>4. delivery \notin {"NONE", "DELIVERED"}
  BY <1>1, <1>2, <1>3 DEF Acted, SerialInv, RequestsFit, DeliveredFits
<1>5. /\ handler'[w] = h /\ \A v \in Workers : v # w => handler'[v] = handler[v]
      /\ UNCHANGED <<status, runners, request>> /\ delivery' = d
      /\ handler[w] \in HandlerType /\ comments \in Nat
  BY <1>1 DEF Acted, TypeOK, HandlerType
<1>6. OneJob' /\ RunnersFit'
  BY <1>5 DEF SerialInv, OneJob, RunnersFit
<1>7. RequestsFit'
  BY <1>1, <1>4, <1>5 DEF Acted, SerialInv, RequestsFit
<1>8. HandlersFit'
  <2>1. h.step = "returned" => d \notin {"SENDING", "RETRYING"}
    BY <1>1, <1>4 DEF Acted, SerialInv, HandlersFit
  <2>2. h.step = "posting" /\ ~ LongPullRequest /\ comments' > 0 => h.marker
    BY <1>1 DEF Acted
  <2>3. h.step = "loaded" => d = h.seen
    BY <1>1 DEF Acted
  <2>4. QED
    BY <1>2, <1>3, <1>5, <2>1, <2>2, <2>3 DEF HandlersFit
<1>9. DeliveredFits'
  <2>1. d = "DELIVERED" => h.step = "returned"
    BY <1>1, <1>4 DEF Acted
  <2>2. QED
    BY <1>2, <1>3, <1>5, <2>1 DEF DeliveredFits
<1>10. CompletedJobSettlesDelivery'
  BY <1>3, <1>5 DEF CompletedJobSettlesDelivery
<1>11. QED
  BY <1>4, <1>6, <1>7, <1>8, <1>9, <1>10 DEF SerialInv

LEMMA EndsAre ==
  ASSUME TypeOK, NEW w \in Workers, NEW j \in Jobs, JobEnds(w, j)
  PROVE  \E new \in {"RUNNING", "COMPLETED", "QUEUED", "RETRYING", "FAILED_PERMANENT"} :
        /\ status[j] = "RUNNING" /\ runners[j] = {w}
        /\ status' = [status EXCEPT ![j] = new] /\ runners' = [runners EXCEPT ![j] = {}]
        /\ new = "COMPLETED" => handler[w].step = "returned"
        /\ new \notin {"COMPLETED", "RUNNING"} => handler[w].step = "raised"
<1>1. CASE Abandon(w, j)
  <2>1. status' = [status EXCEPT ![j] = "RUNNING"]
    BY <1>1 DEF Abandon, Life!Abandon, TypeOK
  <2>2. QED
    BY <1>1, <2>1 DEF Abandon, Life!Abandon
<1>2. CASE handler[w].step = "returned" /\ Life!Complete(j, w)
  BY <1>2 DEF Life!Complete, Life!End
<1>3. CASE handler[w].step = "raised" /\ Life!Fail(j, w)
  BY <1>3 DEF Life!Fail, Life!End
<1>4. CASE handler[w].step = "raised" /\ Life!Retry(j, w)
  <2>1. PICK s \in {"QUEUED", "RETRYING"} : Life!End(j, w, s)
    BY <1>4 DEF Life!Retry
  <2>2. QED
    BY <1>4, <2>1 DEF Life!End
<1>5. QED
  BY <1>1, <1>2, <1>3, <1>4 DEF JobEnds, EndJob

LEMMA EndsKeep ==
  ASSUME TypeOK, SerialInv, NEW w \in Workers, NEW j \in Jobs, JobEnds(w, j)
  PROVE  SerialInv' /\ delivery' = delivery
<1>1. PICK new \in {"RUNNING", "COMPLETED", "QUEUED", "RETRYING", "FAILED_PERMANENT"} :
        /\ status[j] = "RUNNING" /\ runners[j] = {w}
        /\ status' = [status EXCEPT ![j] = new] /\ runners' = [runners EXCEPT ![j] = {}]
        /\ new = "COMPLETED" => handler[w].step = "returned"
        /\ new \notin {"COMPLETED", "RUNNING"} => handler[w].step = "raised"
  BY EndsAre
<1>2. handler' = [handler EXCEPT ![w] = Idle] /\ UNCHANGED <<delivery, request, comments>>
  BY DEF JobEnds, EndJob, Abandon
<1>3. /\ \A i \in Jobs : i # j => status[i] = "NONE" /\ runners[i] = {}
      /\ \A v \in Workers : v # w => handler[v].step = "none"
  BY <1>1, OnlyExecution DEF SerialInv
<1>4. /\ status'[j] = new /\ runners'[j] = {}
      /\ \A i \in Jobs : i # j => status'[i] = "NONE" /\ runners'[i] = {}
      /\ \A v \in Workers : handler'[v].step = "none"
  BY <1>1, <1>2, <1>3 DEF TypeOK, Idle
<1>5. OneJob' /\ RunnersFit'
  BY <1>4 DEF OneJob, RunnersFit
<1>6. RequestsFit'
  BY <1>1, <1>2 DEF SerialInv, RequestsFit
<1>7. HandlersFit'
  BY <1>4 DEF HandlersFit
<1>8. DeliveredFits'
  BY <1>1, <1>2, <1>4 DEF SerialInv, DeliveredFits
<1>9. CompletedJobSettlesDelivery'
  BY <1>1, <1>2, <1>4 DEF SerialInv, HandlersFit, CompletedJobSettlesDelivery
<1>10. QED
  BY <1>2, <1>5, <1>6, <1>7, <1>8, <1>9 DEF SerialInv

LEMMA StartsKeep ==
  ASSUME TypeOK, SerialInv, NEW w \in Workers, NEW j \in Jobs, Start(w, j)
  PROVE  SerialInv' /\ delivery' = delivery
<1>1. /\ status[j] \in {"QUEUED", "RETRYING"}
      /\ status' = [status EXCEPT ![j] = "RUNNING"] /\ runners' = [runners EXCEPT ![j] = {w}]
      /\ UNCHANGED <<delivery, handler, request, comments>>
  BY DEF Start, Life!Start
<1>2. \A i \in Jobs : i # j => status[i] = "NONE"
  BY <1>1 DEF SerialInv, OneJob
<1>3. (\A i \in Jobs : runners[i] = {}) /\ \A v \in Workers : handler[v].step = "none"
  BY <1>1, <1>2, NoExecution DEF SerialInv
<1>4. /\ status'[j] = "RUNNING" /\ runners'[j] = {w}
      /\ \A i \in Jobs : i # j => status'[i] = "NONE" /\ runners'[i] = {}
  BY <1>1, <1>2, <1>3 DEF TypeOK
<1>5. OneJob' /\ RunnersFit'
  BY <1>4 DEF OneJob, RunnersFit
<1>6. RequestsFit'
  BY <1>1 DEF SerialInv, RequestsFit
<1>7. HandlersFit'
  BY <1>1, <1>3 DEF HandlersFit
<1>8. DeliveredFits'
  BY <1>1 DEF SerialInv, DeliveredFits
<1>9. CompletedJobSettlesDelivery'
  BY <1>1, <1>4 DEF SerialInv, CompletedJobSettlesDelivery
<1>10. QED
  BY <1>1, <1>5, <1>6, <1>7, <1>8, <1>9 DEF SerialInv

\* A job is created, or goes back to QUEUED: no execution is under way.
LEMMA QueueingKeeps ==
  ASSUME TypeOK, SerialInv, NEW j \in Jobs, status[j] # "RUNNING", delivery # "DELIVERED",
         \A i \in Jobs : i # j => status[i] = "NONE",
         status' = [status EXCEPT ![j] = "QUEUED"],
         \A c \in Callers : request'[c].step = "checked" => FALSE,
         \A c \in Callers : request'[c] = request[c] \/ request'[c].step = "idle",
         UNCHANGED <<runners, handler, comments>>, delivery' \in {delivery, "QUEUED"},
         delivery' # "NONE"
  PROVE  SerialInv'
<1>1. (\A i \in Jobs : runners[i] = {}) /\ \A w \in Workers : handler[w].step = "none"
  BY NoExecution DEF SerialInv
<1>2. status'[j] = "QUEUED" /\ \A i \in Jobs : i # j => status'[i] = "NONE"
  BY DEF TypeOK
<1>3. OneJob' /\ RunnersFit'
  BY <1>1, <1>2 DEF OneJob, RunnersFit
<1>4. RequestsFit'
  BY DEF SerialInv, RequestsFit
<1>5. HandlersFit' /\ DeliveredFits'
  BY <1>1 DEF HandlersFit, DeliveredFits, SerialInv
<1>6. CompletedJobSettlesDelivery'
  BY <1>2 DEF CompletedJobSettlesDelivery
<1>7. QED
  BY <1>3, <1>4, <1>5, <1>6 DEF SerialInv

LEMMA QueuesKeep ==
  ASSUME TypeOK, SerialInv, SerialCallers, NEW j \in Jobs,
         QueueDelivery(j) \/ ResetJob(j) \/ \E c \in Callers : RetryInsert(c, j)
  PROVE  SerialInv' /\ (delivery = "DELIVERED" => delivery' = "DELIVERED")
<1>1. CASE QueueDelivery(j)
  <2>1. /\ \A i \in Jobs : status[i] = "NONE"
        /\ status' = [status EXCEPT ![j] = "QUEUED"] /\ delivery = "NONE" /\ delivery' = "QUEUED"
        /\ UNCHANGED <<runners, handler, request, comments>>
    BY <1>1 DEF QueueDelivery, Life!Create
  <2>2. \A c \in Callers : request[c].step = "idle"
    BY <2>1 DEF SerialInv, RequestsFit
  <2>3. QED
    BY <2>1, <2>2, QueueingKeeps
<1>2. CASE ResetJob(j)
  <2>1. /\ status[j] = "FAILED_PERMANENT"
        /\ status' = [status EXCEPT ![j] = "QUEUED"]
        /\ UNCHANGED <<runners, delivery, handler, request, comments>>
    BY <1>2 DEF ResetJob, Life!Reset, TypeOK
  <2>2. /\ delivery \notin {"DELIVERED", "NONE"}
        /\ \A c \in Callers : request[c].step # "checked"
        /\ \A i \in Jobs : i # j => status[i] = "NONE"
    BY <2>1 DEF SerialInv, DeliveredFits, RequestsFit, OneJob
  <2>3. QED
    BY <2>1, <2>2, QueueingKeeps
<1>3. ASSUME NEW c \in Callers, RetryInsert(c, j)
      PROVE  SerialInv' /\ delivery' = delivery
  <2>1. /\ status' = [status EXCEPT ![j] = "QUEUED"] /\ request[c].step = "checked"
        /\ request' = [request EXCEPT ![c] = [step |-> "idle", seen |-> "NONE"]]
        /\ UNCHANGED <<runners, delivery, handler, comments>>
    BY <1>3 DEF RetryInsert, Life!Create
  <2>2. /\ \A i \in Jobs : status[i] = "NONE"
        /\ delivery \notin {"DELIVERED", "NONE"}
    BY <2>1 DEF SerialInv, DeliveredFits, RequestsFit
  <2>3. \A d \in Callers : request'[d].step = "idle"
    BY <2>1 DEF SerialCallers, TypeOK
  <2>4. QED
    BY <2>1, <2>2, <2>3, QueueingKeeps
<1>4. QED
  BY <1>1, <1>2, <1>3

LEMMA RetriesKeep ==
  ASSUME TypeOK, SerialInv, NEW c \in Callers, RetryLoad(c) \/ RetryCommit(c) \/ RetryCheck(c)
  PROVE  SerialInv'
<1>1. /\ UNCHANGED <<status, runners, handler, comments>>
      /\ delivery' \in {delivery, "QUEUED"} /\ delivery # "NONE"
  BY DEF RetryLoad, RetryCommit, RetryCheck, jobVars, Written, SerialInv, RequestsFit
<1>2. RequestsFit'
  BY <1>1 DEF RetryLoad, RetryCommit, RetryCheck, SerialInv, RequestsFit, TypeOK
<1>3. OneJob' /\ RunnersFit'
  BY <1>1 DEF SerialInv, OneJob, RunnersFit
<1>4. HandlersFit'
  BY <1>1 DEF SerialInv, HandlersFit
<1>5. DeliveredFits' /\ CompletedJobSettlesDelivery'
  BY <1>1 DEF SerialInv, DeliveredFits, CompletedJobSettlesDelivery
<1>6. QED
  BY <1>2, <1>3, <1>4, <1>5 DEF SerialInv

LEMMA SkipKeeps ==
  ASSUME TypeOK, SerialInv, SkipDelivery \/ PullRequestChanges
  PROVE  SerialInv' /\ (delivery = "DELIVERED" => delivery' = "DELIVERED")
<1>1. CASE PullRequestChanges
  BY <1>1 DEF PullRequestChanges, jobVars, SerialInv, OneJob, RunnersFit, RequestsFit, HandlersFit,
              DeliveredFits, CompletedJobSettlesDelivery
<1>2. CASE SkipDelivery
  <2>1. /\ delivery = "NONE" /\ delivery' = "SKIPPED"
        /\ UNCHANGED <<status, runners, handler, request, comments>>
    BY <1>2 DEF SkipDelivery, jobVars
  <2>2. /\ \A j \in Jobs : status[j] = "NONE"
        /\ \A w \in Workers : handler[w].step = "none"
    BY <2>1 DEF SerialInv, RequestsFit, RunnersFit, HandlersFit
  <2>3. QED
    BY <2>1, <2>2 DEF SerialInv, OneJob, RunnersFit, RequestsFit, HandlersFit, DeliveredFits,
                      CompletedJobSettlesDelivery
<1>3. QED
  BY <1>1, <1>2

LEMMA SerialInvariant ==
  ASSUME SerialCallers
  PROVE  Spec => [](PostedInv /\ SerialInv)
<1>1. Init => SerialInv
  BY DEF Init, Life!Init, Idle, SerialInv, OneJob, RunnersFit, RequestsFit, HandlersFit,
         DeliveredFits, CompletedJobSettlesDelivery
<1>2. ASSUME PostedInv, SerialInv, [Next]_vars
      PROVE  SerialInv'
  <2>1. TypeOK /\ PostedFits
    BY <1>2 DEF PostedInv
  <2>2. CASE UNCHANGED vars
    BY <1>2, <2>2 DEF vars, SerialInv, OneJob, RunnersFit, RequestsFit, HandlersFit,
                      DeliveredFits, CompletedJobSettlesDelivery
  <2>3. CASE Next
    BY <1>2, <2>1, <2>3, NextSplits, ActsKeep, EndsKeep, StartsKeep, QueuesKeep, RetriesKeep,
       SkipKeeps
  <2>4. QED
    BY <1>2, <2>2, <2>3
<1>3. QED
  BY PostedInvariant, <1>1, <1>2, PTL DEF Spec

\* A completed job has settled its delivery: deliver returns only with a final verdict, and
\* no other execution writes SENDING or RETRYING after it.
THEOREM CompletionSettles ==
  ASSUME SerialCallers
  PROVE  Spec => []CompletedJobSettlesDelivery
<1>1. SerialInv => CompletedJobSettlesDelivery
  BY DEF SerialInv
<1>2. QED
  BY SerialInvariant, <1>1, PTL

\* DELIVERED is left only for a retry request that had loaded the row before it was delivered;
\* no worker takes it back.
THEOREM DeliveredStays ==
  ASSUME SerialCallers
  PROVE  Spec => DeliveredIsKept
<1>1. ASSUME PostedInv, SerialInv, [Next]_vars
      PROVE  [delivery = "DELIVERED" /\ delivery' # "DELIVERED" =>
                \E c \in Callers : request[c].step = "loaded" /\ request[c].seen # "DELIVERED"]_vars
  <2>1. TypeOK /\ PostedFits
    BY <1>1 DEF PostedInv
  <2>2. ASSUME NEW c \in Callers, RetryLoad(c) \/ RetryCommit(c) \/ RetryCheck(c),
               delivery' # delivery
        PROVE  request[c].step = "loaded" /\ request[c].seen # "DELIVERED"
    BY <1>1, <2>2 DEF RetryLoad, RetryCommit, RetryCheck, SerialInv, RequestsFit
  <2>3. CASE Next
    BY <1>1, <2>1, <2>2, <2>3, NextSplits, ActsKeep, EndsKeep, StartsKeep, QueuesKeep, SkipKeeps
  <2>4. QED
    BY <1>1, <2>3
<1>2. QED
  BY SerialInvariant, <1>1, PTL DEF Spec, DeliveredIsKept

-----------------------------------------------------------------------------
(* As many comments as retry requests overlap. *)

\* A handler runs in an execution, and before queue_delivery there is neither job nor request.
ExecInv ==
  /\ RunnersFit
  /\ \A w \in Workers : handler[w].step # "none" => \E j \in Jobs : w \in runners[j]
  /\ delivery = "NONE" => /\ \A j \in Jobs : status[j] = "NONE"
                         /\ \A c \in Callers : request[c].step = "idle"

LEMMA ExecKept ==
  ASSUME TypeOK, ExecInv, [Next]_vars
  PROVE  ExecInv'
<1>1. ASSUME NEW w \in Workers, HandlerActs(w)
      PROVE  ExecInv'
  <2>1. PICK h \in HandlerType, d \in DeliveryStatuses : Acted(w, h, d)
    BY <1>1, HandlerActsAre
  <2>2. /\ \A v \in Workers : v # w => handler'[v] = handler[v]
        /\ UNCHANGED <<status, runners, request>> /\ (delivery' = "NONE" => delivery = "NONE")
        /\ \E j \in Jobs : w \in runners[j]
    BY <2>1 DEF Acted, TypeOK, ExecInv
  <2>3. QED
    BY <2>2 DEF ExecInv, RunnersFit
<1>2. ASSUME NEW w \in Workers, NEW j \in Jobs, JobEnds(w, j)
      PROVE  ExecInv'
  <2>1. PICK new \in {"RUNNING", "COMPLETED", "QUEUED", "RETRYING", "FAILED_PERMANENT"} :
          /\ status[j] = "RUNNING" /\ runners[j] = {w}
          /\ status' = [status EXCEPT ![j] = new] /\ runners' = [runners EXCEPT ![j] = {}]
    BY <1>2, EndsAre
  <2>2. handler' = [handler EXCEPT ![w] = Idle] /\ UNCHANGED <<delivery, request>>
    BY <1>2 DEF JobEnds, EndJob, Abandon
  <2>3. /\ runners'[j] = {} /\ \A i \in Jobs : i # j => status'[i] = status[i] /\ runners'[i] = runners[i]
        /\ handler'[w].step = "none" /\ \A v \in Workers : v # w => handler'[v] = handler[v]
    BY <2>1, <2>2 DEF TypeOK, Idle
  <2>4. \A v \in Workers, i \in Jobs : v # w /\ v \in runners[i] => i # j
    BY <2>1
  <2>5. delivery # "NONE"
    BY <2>1 DEF ExecInv
  <2>6. RunnersFit'
    BY <2>3 DEF ExecInv, RunnersFit
  <2>7. \A v \in Workers : handler'[v].step # "none" => \E i \in Jobs : v \in runners'[i]
    BY <2>3, <2>4 DEF ExecInv
  <2>8. QED
    BY <2>2, <2>5, <2>6, <2>7 DEF ExecInv
<1>3. ASSUME NEW w \in Workers, NEW j \in Jobs, Start(w, j)
      PROVE  ExecInv'
  <2>1. /\ status[j] \in {"QUEUED", "RETRYING"} /\ runners[j] = {}
        /\ status' = [status EXCEPT ![j] = "RUNNING"] /\ runners' = [runners EXCEPT ![j] = {w}]
        /\ UNCHANGED <<delivery, handler, request>>
    BY <1>3 DEF Start, Life!Start
  <2>2. /\ status'[j] = "RUNNING" /\ runners'[j] = {w}
        /\ \A i \in Jobs : i # j => status'[i] = status[i] /\ runners'[i] = runners[i]
    BY <2>1 DEF TypeOK
  <2>3. RunnersFit'
    BY <2>2 DEF ExecInv, RunnersFit
  <2>4. \A v \in Workers, i \in Jobs : v \in runners[i] => v \in runners'[i]
    BY <2>1, <2>2
  <2>5. delivery # "NONE"
    BY <2>1 DEF ExecInv
  <2>6. QED
    BY <2>1, <2>3, <2>4, <2>5 DEF ExecInv
<1>4. ASSUME NEW j \in Jobs, QueueDelivery(j) \/ ResetJob(j) \/ \E c \in Callers : RetryInsert(c, j)
      PROVE  ExecInv'
  <2>1. /\ status[j] # "RUNNING" /\ status' = [status EXCEPT ![j] = "QUEUED"]
        /\ UNCHANGED <<runners, handler>> /\ delivery' # "NONE"
    BY <1>4 DEF QueueDelivery, ResetJob, RetryInsert, Life!Create, Life!Reset, ExecInv
  <2>2. runners[j] = {}
    BY <2>1 DEF ExecInv, RunnersFit, TypeOK
  <2>3. RunnersFit'
    BY <2>1, <2>2 DEF ExecInv, RunnersFit, TypeOK
  <2>4. QED
    BY <2>1, <2>3 DEF ExecInv
<1>5. ASSUME NEW c \in Callers, RetryLoad(c) \/ RetryCommit(c) \/ RetryCheck(c)
      PROVE  ExecInv'
  <2>1. UNCHANGED <<status, runners, handler>> /\ delivery' # "NONE"
    BY <1>5 DEF RetryLoad, RetryCommit, RetryCheck, Written, jobVars, ExecInv
  <2>2. QED
    BY <2>1 DEF ExecInv, RunnersFit
<1>6. CASE SkipDelivery \/ PullRequestChanges \/ UNCHANGED vars
  <2>1. UNCHANGED <<status, runners, handler, request>> /\ (delivery' = "NONE" => delivery = "NONE")
    BY <1>6 DEF SkipDelivery, PullRequestChanges, jobVars, vars
  <2>2. QED
    BY <2>1 DEF ExecInv, RunnersFit
<1>7. QED
  BY <1>1, <1>2, <1>3, <1>4, <1>5, <1>6, NextSplits

\* The jobs there are, the requests between enqueue's SELECT for one and its INSERT, and the
\* workers that are about to POST because their listing had no comment.
JobsHere == {j \in Jobs : status[j] # "NONE"}
Checkers == {c \in Callers : request[c].step = "checked"}
Posters  == {w \in Workers : handler[w].step = "posting" /\ ~ handler[w].marker}

\* queue_delivery inserts a job, or every overlapping request does.
Allowed == IF Callers = {} THEN 1 ELSE Cardinality(Callers)

\* Each request that may still insert leaves room for its job, each worker that may still
\* post for its comment.
RoomInv ==
  /\ IsFiniteSet(JobsHere) /\ Cardinality(JobsHere) + Cardinality(Checkers) <= Allowed
  /\ ~ LongPullRequest => IsFiniteSet(Posters) /\ comments + Cardinality(Posters) <= Allowed

\* A step takes away from things and actors, turns one actor into a thing, or makes actors
\* where there is no thing and will be none.
Exchange(things, actors, things2, actors2) ==
  \/ things2 \subseteq things /\ actors2 \subseteq actors
  \/ \E t, a : a \in actors /\ things2 = things \cup {t} /\ actors2 = actors \ {a}
  \/ things = {} /\ things2 = {}

LEMMA ExchangeFits ==
  ASSUME NEW n \in Nat, NEW A, NEW I, NEW B, NEW J, IsFiniteSet(A), IsFiniteSet(I),
         Cardinality(A) + Cardinality(I) <= n, IsFiniteSet(J), Cardinality(J) <= n,
         Exchange(A, I, B, J)
  PROVE  IsFiniteSet(B) /\ Cardinality(B) + Cardinality(J) <= n
<1>1. Cardinality(A) \in Nat /\ Cardinality(I) \in Nat /\ Cardinality(J) \in Nat
  BY FS_CardinalityType
<1>2. CASE B \subseteq A /\ J \subseteq I
  <2>1. /\ IsFiniteSet(B) /\ Cardinality(B) \in Nat
        /\ Cardinality(B) <= Cardinality(A) /\ Cardinality(J) <= Cardinality(I)
    BY <1>2, FS_Subset, FS_CardinalityType
  <2>2. QED
    BY <1>1, <2>1
<1>3. CASE \E t, a : a \in I /\ B = A \cup {t} /\ J = I \ {a}
  <2>1. PICK t, a : a \in I /\ B = A \cup {t} /\ J = I \ {a}
    BY <1>3
  <2>2. /\ IsFiniteSet(B) /\ Cardinality(B) \in {Cardinality(A), Cardinality(A) + 1}
        /\ Cardinality(J) = Cardinality(I) - 1
    BY <2>1, FS_AddElement, FS_RemoveElement
  <2>3. QED
    BY <1>1, <2>2
<1>4. CASE B = {}
  <2>1. IsFiniteSet(B) /\ Cardinality(B) = 0
    BY <1>4, FS_EmptySet
  <2>2. QED
    BY <1>1, <2>1
<1>5. QED
  BY <1>2, <1>3, <1>4 DEF Exchange

LEMMA AllowedFits ==
  /\ Allowed \in Nat /\ Allowed >= 1
  /\ IsFiniteSet(Checkers) /\ Cardinality(Checkers) <= Allowed
  /\ IsFiniteSet(Checkers') /\ Cardinality(Checkers') <= Allowed
<1>1. Cardinality(Callers) \in Nat /\ (Callers # {} => Cardinality(Callers) >= 1)
  <2>1. Cardinality(Callers) \in Nat /\ (Cardinality(Callers) = 0 <=> Callers = {})
    BY CallersAssumption, FS_CardinalityType, FS_EmptySet
  <2>2. QED
    BY <2>1
<1>2. Checkers \subseteq Callers /\ Checkers' \subseteq Callers
  BY DEF Checkers
<1>3. /\ IsFiniteSet(Checkers) /\ Cardinality(Checkers) <= Cardinality(Callers)
      /\ IsFiniteSet(Checkers') /\ Cardinality(Checkers') <= Cardinality(Callers)
  BY <1>2, CallersAssumption, FS_Subset
<1>4. CASE Callers = {}
  <2>1. Cardinality(Callers) = 0
    BY <1>4, FS_EmptySet
  <2>2. Cardinality(Checkers) \in Nat /\ Cardinality(Checkers') \in Nat
    BY <1>3, FS_CardinalityType
  <2>3. QED
    BY <1>3, <1>4, <2>1, <2>2 DEF Allowed
<1>5. QED
  BY <1>1, <1>3, <1>4 DEF Allowed

\* There are no more posters than jobs: each executes a job of its own.
LEMMA PostersHaveJobs ==
  ASSUME ExecInv', IsFiniteSet(JobsHere'), Cardinality(JobsHere') <= Allowed
  PROVE  IsFiniteSet(Posters') /\ Cardinality(Posters') <= Allowed
<1> DEFINE S == Posters'
           T == JobsHere'
           f == [w \in S |-> CHOOSE j \in Jobs : w \in runners'[j]]
<1>1. ASSUME NEW w \in S
      PROVE  f[w] \in T /\ w \in Workers /\ runners'[f[w]] = {w}
  <2>1. w \in Workers /\ \E j \in Jobs : w \in runners'[j]
    BY DEF Posters, ExecInv
  <2>2. f[w] \in Jobs /\ w \in runners'[f[w]]
    BY <2>1
  <2> HIDE DEF f
  <2>3. QED
    BY <2>1, <2>2 DEF ExecInv, RunnersFit, JobsHere
<1>2. f \in [S -> T]
  BY <1>1
<1> HIDE DEF f, S, T
<1>3. ASSUME NEW v \in S, NEW w \in S, f[v] = f[w]
      PROVE  v = w
  BY <1>1, <1>3
<1>4. f \in Injection(S, T)
  BY <1>2, <1>3 DEF Injection, IsInjective
<1>5. IsFiniteSet(S) /\ Cardinality(S) <= Cardinality(T)
  BY <1>4, FS_Injection DEF T
<1>6. Cardinality(S) \in Nat /\ Cardinality(T) \in Nat
  BY <1>5, FS_CardinalityType DEF T
<1>7. QED
  BY <1>5, <1>6, AllowedFits DEF S, T

\* A request inserts a job that its SELECT, or another one before, did not find.
LEMMA JobsExchange ==
  ASSUME TypeOK, ExecInv, [Next]_vars
  PROVE  \/ Exchange(JobsHere, Checkers, JobsHere', Checkers')
         \/ \E j : JobsHere' = {j} /\ Checkers' = {}
<1>1. CASE UNCHANGED <<status, request>>
  BY <1>1 DEF Exchange, JobsHere, Checkers
<1>2. ASSUME NEW w \in Workers, HandlerActs(w)
      PROVE  UNCHANGED <<status, request>>
  BY <1>2, HandlerActsAre DEF Acted
<1>3. ASSUME NEW w \in Workers, NEW j \in Jobs, JobEnds(w, j) \/ Start(w, j) \/ ResetJob(j)
      PROVE  Exchange(JobsHere, Checkers, JobsHere', Checkers')
  <2>1. /\ status[j] # "NONE" /\ \A i \in Jobs : i # j => status'[i] = status[i]
        /\ UNCHANGED request
    <3>1. CASE JobEnds(w, j)
      <4>1. status[j] = "RUNNING" /\ \E new : status' = [status EXCEPT ![j] = new]
        BY <3>1, EndsAre
      <4>2. UNCHANGED request
        BY <3>1 DEF JobEnds, EndJob, Abandon
      <4>3. QED
        BY <4>1, <4>2 DEF TypeOK
    <3>2. CASE Start(w, j) \/ ResetJob(j)
      BY <3>2 DEF Start, Life!Start, ResetJob, Life!Reset, TypeOK
    <3>3. QED
      BY <1>3, <3>1, <3>2
  <2>2. JobsHere' \subseteq JobsHere /\ Checkers' = Checkers
    BY <2>1 DEF JobsHere, Checkers
  <2>3. QED
    BY <2>2 DEF Exchange
<1>4. ASSUME NEW j \in Jobs, QueueDelivery(j)
      PROVE  JobsHere' = {j} /\ Checkers' = {}
  <2>1. /\ \A i \in Jobs : status[i] = "NONE" /\ status' = [status EXCEPT ![j] = "QUEUED"]
        /\ UNCHANGED request /\ \A c \in Callers : request[c].step = "idle"
    BY <1>4 DEF QueueDelivery, Life!Create, ExecInv
  <2>2. JobsHere' = {j}
    BY <2>1 DEF JobsHere, TypeOK
  <2>3. QED
    BY <2>1, <2>2 DEF Checkers
<1>5. ASSUME NEW c \in Callers, NEW j \in Jobs, RetryInsert(c, j)
      PROVE  Exchange(JobsHere, Checkers, JobsHere', Checkers')
  <2>1. /\ request[c].step = "checked" /\ request'[c].step = "idle"
        /\ \A d \in Callers : d # c => request'[d] = request[d]
        /\ status' = [status EXCEPT ![j] = "QUEUED"]
    BY <1>5 DEF RetryInsert, Life!Create, TypeOK
  <2>2. JobsHere' = JobsHere \cup {j} /\ Checkers' = Checkers \ {c} /\ c \in Checkers
    BY <2>1 DEF JobsHere, Checkers, TypeOK
  <2>3. QED
    BY <2>2 DEF Exchange
<1>6. ASSUME NEW c \in Callers, RetryLoad(c) \/ RetryCommit(c) \/ RetryCheck(c)
      PROVE  Exchange(JobsHere, Checkers, JobsHere', Checkers')
  <2>1. /\ UNCHANGED status /\ \A d \in Callers : d # c => request'[d] = request[d]
        /\ request'[c].step = "checked" => \A j \in Jobs : status[j] = "NONE"
    BY <1>6 DEF RetryLoad, RetryCommit, RetryCheck, jobVars, TypeOK
  <2>2. JobsHere' = JobsHere /\ (Checkers' \subseteq Checkers \/ JobsHere = {})
    BY <2>1 DEF JobsHere, Checkers
  <2>3. QED
    BY <2>2 DEF Exchange
<1>7. CASE SkipDelivery \/ PullRequestChanges \/ UNCHANGED vars
  BY <1>1, <1>7 DEF SkipDelivery, PullRequestChanges, jobVars, vars
<1>8. ASSUME NEW j \in Jobs, ResetJob(j)
      PROVE  Exchange(JobsHere, Checkers, JobsHere', Checkers')
  <2>1. status[j] # "NONE" /\ \A i \in Jobs : i # j => status'[i] = status[i]
    BY <1>8 DEF ResetJob, Life!Reset, TypeOK
  <2>2. JobsHere' \subseteq JobsHere /\ Checkers' = Checkers
    BY <1>8, <2>1 DEF JobsHere, Checkers, ResetJob
  <2>3. QED
    BY <2>2 DEF Exchange
<1>9. QED
  BY <1>1, <1>2, <1>3, <1>4, <1>5, <1>6, <1>7, <1>8, NextSplits

\* A POST without a marker uses up the room of its worker, and a listing makes room for its
\* own only when there is no comment.
LEMMA CommentsExchange ==
  ASSUME TypeOK, ExecInv, [Next]_vars, ~ LongPullRequest
  PROVE  \/ comments' = comments /\ Posters' \subseteq Posters
         \/ \E w \in Posters : comments' = comments + 1 /\ Posters' = Posters \ {w}
         \/ comments' = 0
<1>1. ASSUME NEW w \in Workers, HandlerActs(w)
      PROVE  \/ comments' = comments /\ Posters' \subseteq Posters
             \/ \E v \in Posters : comments' = comments + 1 /\ Posters' = Posters \ {v}
             \/ comments' = 0
  <2>1. PICK h \in HandlerType, d \in DeliveryStatuses : Acted(w, h, d)
    BY <1>1, HandlerActsAre
  <2>2. handler'[w] = h /\ (\A v \in Workers : v # w => handler'[v] = handler[v]) /\ comments \in Nat
    BY <2>1 DEF Acted, TypeOK
  <2>3. CASE h.step = "posting" /\ ~ h.marker
    <3>1. comments' = 0
      BY <2>1, <2>2, <2>3 DEF Acted
    <3>2. QED
      BY <3>1
  <2>4. CASE ~ (h.step = "posting" /\ ~ h.marker)
    <3>1. Posters' = Posters \ {w}
      BY <2>2, <2>4 DEF Posters
    <3>2. comments' = comments \/ (w \in Posters /\ comments' = comments + 1)
      BY <2>1 DEF Acted, Posters
    <3>3. QED
      BY <3>1, <3>2
  <2>5. QED
    BY <2>3, <2>4
<1>2. ASSUME NEW w \in Workers, NEW j \in Jobs, JobEnds(w, j)
      PROVE  comments' = comments /\ Posters' \subseteq Posters
  <2>1. handler' = [handler EXCEPT ![w] = Idle] /\ UNCHANGED comments
    BY <1>2 DEF JobEnds, EndJob, Abandon
  <2>2. QED
    BY <2>1 DEF Posters, Idle, TypeOK
<1>3. ASSUME UNCHANGED <<handler, comments>>
      PROVE  comments' = comments /\ Posters' \subseteq Posters
  BY <1>3 DEF Posters
<1>4. ASSUME NEW w \in Workers, NEW j \in Jobs, Start(w, j)
      PROVE  UNCHANGED <<handler, comments>>
  BY <1>4 DEF Start
<1>5. ASSUME NEW j \in Jobs, QueueDelivery(j) \/ ResetJob(j)
      PROVE  UNCHANGED <<handler, comments>>
  BY <1>5 DEF QueueDelivery, ResetJob
<1>6. ASSUME NEW c \in Callers,
             RetryLoad(c) \/ RetryCommit(c) \/ RetryCheck(c) \/ \E j \in Jobs : RetryInsert(c, j)
      PROVE  UNCHANGED <<handler, comments>>
  BY <1>6 DEF RetryLoad, RetryCommit, RetryCheck, RetryInsert
<1>7. ASSUME SkipDelivery \/ PullRequestChanges \/ UNCHANGED vars
      PROVE  UNCHANGED <<handler, comments>>
  BY <1>7 DEF SkipDelivery, PullRequestChanges, vars
<1>8. QED
  BY <1>1, <1>2, <1>3, <1>4, <1>5, <1>6, <1>7, NextSplits

LEMMA RoomIsKept ==
  ASSUME TypeOK, ExecInv, ExecInv', RoomInv, [Next]_vars
  PROVE  RoomInv'
<1>1. IsFiniteSet(JobsHere') /\ Cardinality(JobsHere') + Cardinality(Checkers') <= Allowed
  <2>1. CASE Exchange(JobsHere, Checkers, JobsHere', Checkers')
    BY <2>1, AllowedFits, ExchangeFits DEF RoomInv
  <2>2. CASE \E j : JobsHere' = {j} /\ Checkers' = {}
    <3>1. PICK j : JobsHere' = {j} /\ Checkers' = {}
      BY <2>2
    <3>2. IsFiniteSet({j}) /\ Cardinality({j}) = 1 /\ Cardinality({}) = 0
      BY FS_Singleton, FS_EmptySet
    <3>3. IsFiniteSet(JobsHere') /\ Cardinality(JobsHere') = 1 /\ Cardinality(Checkers') = 0
      BY <3>1, <3>2
    <3>4. QED
      BY <3>3, AllowedFits
  <2>3. QED
    BY <2>1, <2>2, JobsExchange
<1>2. Cardinality(JobsHere') <= Allowed
  <2>1. PICK x, y \in Nat : x = Cardinality(JobsHere') /\ y = Cardinality(Checkers')
    BY <1>1, AllowedFits, FS_CardinalityType
  <2>2. QED
    BY <1>1, <2>1, AllowedFits
<1>3. ASSUME ~ LongPullRequest
      PROVE  IsFiniteSet(Posters') /\ comments' + Cardinality(Posters') <= Allowed
  <2>1. IsFiniteSet(Posters) /\ comments + Cardinality(Posters) <= Allowed /\ comments \in Nat
    BY <1>3 DEF RoomInv, TypeOK
  <2>2. IsFiniteSet(Posters') /\ Cardinality(Posters') <= Allowed
    BY <1>1, <1>2, PostersHaveJobs
  <2>3. PICK x, y \in Nat : x = Cardinality(Posters) /\ y = Cardinality(Posters')
    BY <2>1, <2>2, FS_CardinalityType
  <2>4. CASE comments' = comments /\ Posters' \subseteq Posters
    <3>1. y <= x
      BY <2>1, <2>3, <2>4, FS_Subset
    <3>2. QED
      BY <2>1, <2>2, <2>3, <2>4, <3>1, AllowedFits
  <2>5. CASE \E w \in Posters : comments' = comments + 1 /\ Posters' = Posters \ {w}
    <3>1. comments' = comments + 1 /\ y = x - 1
      BY <2>1, <2>3, <2>5, FS_RemoveElement
    <3>2. QED
      BY <2>1, <2>2, <2>3, <3>1, AllowedFits
  <2>6. CASE comments' = 0
    BY <2>2, <2>3, <2>6, AllowedFits
  <2>7. QED
    BY <1>3, <2>4, <2>5, <2>6, CommentsExchange
<1>4. QED
  BY <1>1, <1>3, LongPullRequestAssumption DEF RoomInv

\* However often the job is retried, reset or lost, and whether or not GitHub's answers
\* arrive, no more comments carry the marker than retry requests overlap: each inserts at most
\* one job, and only a worker that executes one of them, and listed no comment, posts one.
THEOREM CommentsBounded == Spec => []CommentsAreFew
<1>1. Init => ExecInv /\ RoomInv
  <2> SUFFICES ASSUME Init
               PROVE  ExecInv /\ RoomInv
    OBVIOUS
  <2>1. ExecInv
    BY DEF Init, Life!Init, ExecInv, RunnersFit, Idle
  <2>2. JobsHere = {} /\ Checkers = {} /\ Posters = {} /\ comments = 0
    BY DEF Init, Life!Init, JobsHere, Checkers, Posters, Idle
  <2>3. IsFiniteSet(Posters) /\ Cardinality(JobsHere) = 0 /\ Cardinality(Checkers) = 0
        /\ Cardinality(Posters) = 0 /\ IsFiniteSet(JobsHere)
    BY <2>2, FS_EmptySet
  <2>4. QED
    BY <2>1, <2>2, <2>3, AllowedFits DEF RoomInv
<1>2. PostedInv /\ ExecInv /\ RoomInv /\ [Next]_vars => ExecInv' /\ RoomInv'
  BY ExecKept, RoomIsKept DEF PostedInv
<1>3. PostedInv /\ RoomInv => CommentsAreFew
  <2> SUFFICES ASSUME PostedInv, RoomInv, ~ LongPullRequest
               PROVE  comments <= 1 \/ comments <= Cardinality(Callers)
    BY DEF CommentsAreFew
  <2>1. PICK x \in Nat : x = Cardinality(Posters)
    BY FS_CardinalityType DEF RoomInv
  <2>2. comments \in Nat /\ comments <= Allowed
    BY <2>1, AllowedFits DEF RoomInv, PostedInv, TypeOK
  <2>3. QED
    BY <2>2 DEF Allowed
<1>4. QED
  BY PostedInvariant, <1>1, <1>2, <1>3, PTL DEF Spec

=============================================================================
