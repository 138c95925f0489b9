----------------------------- MODULE JobLifecycle -----------------------------
(***************************************************************************)
(* What the job table promises its readers, with no queue, lock, request   *)
(* or commit in sight: a job is executed by at most one worker, moves only *)
(* along the edges below, and gets MaxAttempts retries between two manual  *)
(* resets.  An execution may be lost, and then the job stays RUNNING.      *)
(***************************************************************************)
EXTENDS Integers

CONSTANTS Jobs, Workers, MaxAttempts

VARIABLES status, attempts,
          runners   \* runners[j]: the workers executing j now

vars == <<status, attempts, runners>>

Init ==
  /\ status = [j \in Jobs |-> "NONE"]
  /\ attempts = [j \in Jobs |-> 0]
  /\ runners = [j \in Jobs |-> {}]

Create(j) ==
  /\ status[j] = "NONE"
  /\ status' = [status EXCEPT ![j] = "QUEUED"]
  /\ UNCHANGED <<attempts, runners>>

Start(j, w) ==
  /\ status[j] \in {"QUEUED", "RETRYING"}
  /\ runners[j] = {}
  /\ status' = [status EXCEPT ![j] = "RUNNING"]
  /\ runners' = [runners EXCEPT ![j] = {w}]
  /\ UNCHANGED attempts

\* The only runner of a RUNNING job ends its execution with status `new`.
End(j, w, new) ==
  /\ status[j] = "RUNNING"
  /\ runners[j] = {w}
  /\ status' = [status EXCEPT ![j] = new]
  /\ runners' = [runners EXCEPT ![j] = {}]

Complete(j, w) == End(j, w, "COMPLETED") /\ UNCHANGED attempts

Fail(j, w) == End(j, w, "FAILED_PERMANENT") /\ UNCHANGED attempts

\* The first failure goes back to QUEUED, the later ones to RETRYING.
Retry(j, w) ==
  /\ attempts[j] < MaxAttempts
  /\ attempts' = [attempts EXCEPT ![j] = @ + 1]
  /\ End(j, w, IF attempts[j] = 0 THEN "QUEUED" ELSE "RETRYING")

\* The execution is lost; the table does not notice.
Abandon(j, w) ==
  /\ status[j] = "RUNNING"
  /\ runners[j] = {w}
  /\ runners' = [runners EXCEPT ![j] = {}]
  /\ UNCHANGED <<status, attempts>>

Reset(j) ==
  /\ status[j] \in {"FAILED", "FAILED_PERMANENT"}
  /\ status' = [status EXCEPT ![j] = "QUEUED"]
  /\ attempts' = [attempts EXCEPT ![j] = 0]
  /\ UNCHANGED runners

Next ==
  \E j \in Jobs :
    \/ Create(j) \/ Reset(j)
    \/ \E w \in Workers : \/ Start(j, w) \/ Complete(j, w) \/ Fail(j, w)
                          \/ Retry(j, w) \/ Abandon(j, w)

Spec == Init /\ [][Next]_vars

=============================================================================
