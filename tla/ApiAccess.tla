------------------------------- MODULE ApiAccess -------------------------------
(***************************************************************************)
(* Requests with an API key and their rate limits: app/authz.py with the   *)
(* API key routes of app/main.py.                                          *)
(*                                                                         *)
(* The limits of two keys are independent, so there is one key.  A request *)
(* runs on a thread of a server process, and another thread may run        *)
(* between any two steps: it goes through the process's sliding window     *)
(* with the time it read at its start, then through the fixed window in    *)
(* Redis that it chose before its INCR.  Redis may fail at every command.  *)
(* The model's clock drives time.time and time.monotonic.  A request with  *)
(* a key that Membership has ended is refused before all this, and one     *)
(* that gets through only writes its usage.                                *)
(***************************************************************************)
EXTENDS Integers, SequencesExt

CONSTANTS
  Processes,
  Requests,     \* threads serving requests
  NoProcess,
  Limit,        \* api_key_rate_limit_per_minute
  Window,       \* api_key_rate_limit_window_seconds
  MaxTime       \* bound on the clock

ASSUME NoProcessAssumption == NoProcess \notin Processes
ASSUME RequestsAssumption == IsFiniteSet(Requests)
ASSUME LimitAssumption == {Limit, Window} \subseteq Nat \ {0} /\ MaxTime \in Nat

VARIABLES
  clock,
  bucket,     \* LOCAL_API_RATE_LIMITS of each process, in the order of the appends
  counter,    \* Redis: the key's count of each window, 0 if absent
  expiry,     \* Redis: when that count is dropped, 0 for never
  request,
  admitted,   \* history: every moment appended to a process's bucket, in the order of the appends
  overlapped, \* history: processes in which two requests were in the sliding window's code
  passed      \* history: requests Redis let through, by window

accessVars == <<clock, bucket, counter, expiry, request, admitted, overlapped, passed>>

Times       == 0 .. MaxTime
WindowOf(t) == t \div Window
Windows     == 0 .. WindowOf(MaxTime)
IdleRequest == [step |-> "idle", process |-> NoProcess, now |-> 0, window |-> 0]

AccessInit ==
  /\ clock = 0
  /\ bucket = [p \in Processes |-> <<>>]
  /\ counter = [w \in Windows |-> 0]
  /\ expiry = [w \in Windows |-> 0]
  /\ request = [r \in Requests |-> IdleRequest]
  /\ admitted = [p \in Processes |-> <<>>]
  /\ overlapped = {}
  /\ passed = [w \in Windows |-> 0]

Go(r, to) == request' = [request EXCEPT ![r] = to]
Finish(r) == Go(r, IdleRequest)

\* Time passes; Redis drops the counts whose time is over.
Tick ==
  /\ clock < MaxTime
  /\ clock' = clock + 1
  /\ counter' = [w \in Windows |-> IF expiry[w] = clock + 1 THEN 0 ELSE counter[w]]
  /\ expiry' = [w \in Windows |-> IF expiry[w] = clock + 1 THEN 0 ELSE expiry[w]]
  /\ UNCHANGED <<bucket, request, admitted, overlapped, passed>>

-----------------------------------------------------------------------------
(* _in_memory_api_key_limiter. *)

InLimiter(p) == {r \in Requests : /\ request[r].step \in {"trimming", "popping", "testing", "admitting"}
                                  /\ request[r].process = p}

\* _authenticate_api_key finds the key, which is live or the request ends there, and the
\* limiter reads its time: what follows may happen later.  Once two requests are in it the
\* history of the process is of no use.
ReadClock(r, p) ==
  /\ request[r].step = "idle"
  /\ Go(r, [IdleRequest EXCEPT !.step = "trimming", !.process = p, !.now = clock])
  /\ \/ InLimiter(p) = {} /\ UNCHANGED <<overlapped, admitted>>
     \/ /\ InLimiter(p) # {}
        /\ overlapped' = overlapped \cup {p}
        /\ admitted' = [admitted EXCEPT ![p] = <<>>]
  /\ UNCHANGED <<clock, bucket, counter, expiry, passed>>

\* Mutation of Old: an admission that is one window old is forgotten.
OldAlready(t, now) == now - t >= Window
Old(t, now)        == now - t > Window

\* The test of the loop, on the first admission.
TestHead(r) ==
  LET b == bucket[request[r].process] IN
  /\ request[r].step = "trimming"
  /\ Go(r, [request[r] EXCEPT
       !.step = IF b # <<>> /\ Old(Head(b), request[r].now) THEN "popping" ELSE "testing"])
  /\ UNCHANGED <<clock, bucket, counter, expiry, admitted, overlapped, passed>>

\* popleft drops what is first by then, and raises if nothing is.
PopLeft(r) ==
  LET p == request[r].process IN
  /\ request[r].step = "popping"
  /\ \/ bucket[p] = <<>> /\ Finish(r) /\ UNCHANGED bucket
     \/ /\ bucket[p] # <<>>
        /\ bucket' = [bucket EXCEPT ![p] = Tail(@)]
        /\ Go(r, [request[r] EXCEPT !.step = "trimming"])
  /\ UNCHANGED <<clock, counter, expiry, admitted, overlapped, passed>>

TestBucket(r) ==
  /\ request[r].step = "testing"
  /\ IF Len(bucket[request[r].process]) >= Limit THEN Finish(r)
     ELSE Go(r, [request[r] EXCEPT !.step = "admitting"])
  /\ UNCHANGED <<clock, bucket, counter, expiry, admitted, overlapped, passed>>

Admit(r) ==
  LET p == request[r].process
      t == request[r].now IN
  /\ request[r].step = "admitting"
  /\ bucket' = [bucket EXCEPT ![p] = Append(@, t)]
  /\ admitted' = [admitted EXCEPT ![p] = IF p \in overlapped THEN @ ELSE Append(@, t)]
  /\ Go(r, [request[r] EXCEPT !.step = "choosing", !.now = 0])
  /\ UNCHANGED <<clock, counter, expiry, overlapped, passed>>

-----------------------------------------------------------------------------
(* _redis_api_key_limiter. *)

ChooseWindow(r) ==
  /\ request[r].step = "choosing"
  /\ Go(r, [request[r] EXCEPT !.step = "counting", !.window = WindowOf(clock)])
  /\ UNCHANGED <<clock, bucket, counter, expiry, admitted, overlapped, passed>>

\* INCR: the first one goes on to set the time to live; when its answer is lost the request
\* passes on its own.  Beyond the limit one count is as good as another: Limit + 1 stands
\* for them all.
Count(r, answered) ==
  LET w == request[r].window
      n == IF counter[w] > Limit THEN counter[w] ELSE counter[w] + 1 IN
  /\ request[r].step = "counting"
  /\ counter' = [counter EXCEPT ![w] = n]
  /\ passed' = [passed EXCEPT ![w] = IF answered /\ n <= Limit THEN @ + 1 ELSE @]
  /\ IF answered /\ n > Limit THEN Finish(r)
     ELSE IF answered /\ n = 1 THEN Go(r, [request[r] EXCEPT !.step = "expiring"]) ELSE Finish(r)
  /\ UNCHANGED <<clock, bucket, expiry, admitted, overlapped>>

\* Mutation of SetExpiry: the count lives for half a window.
SetExpiryEarly(r) ==
  /\ request[r].step = "expiring"
  /\ expiry' = [expiry EXCEPT ![request[r].window] = clock + Window \div 2]
  /\ Finish(r)
  /\ UNCHANGED <<clock, bucket, counter, admitted, overlapped, passed>>

SetExpiry(r) ==
  /\ request[r].step = "expiring"
  /\ expiry' = [expiry EXCEPT ![request[r].window] = clock + Window]
  /\ Finish(r)
  /\ UNCHANGED <<clock, bucket, counter, admitted, overlapped, passed>>

\* Redis is not configured, or a command fails: the request passes.  Without EXPIRE the
\* count has no end.
RedisFails(r) ==
  /\ request[r].step \in {"choosing", "counting", "expiring"}
  /\ Finish(r)
  /\ UNCHANGED <<clock, bucket, counter, expiry, admitted, overlapped, passed>>

\* The process dies: its bucket and its requests are gone, the counts in Redis are not.
Restart(p) ==
  /\ bucket' = [bucket EXCEPT ![p] = <<>>]
  /\ admitted' = [admitted EXCEPT ![p] = <<>>]
  /\ overlapped' = overlapped \ {p}
  /\ request' = [r \in Requests |-> IF request[r].process = p THEN IdleRequest ELSE request[r]]
  /\ UNCHANGED <<clock, counter, expiry, passed>>

AccessNext ==
  \/ Tick
  \/ \E r \in Requests : \/ \E p \in Processes : ReadClock(r, p)
                         \/ TestHead(r) \/ PopLeft(r) \/ TestBucket(r) \/ Admit(r)
                         \/ ChooseWindow(r) \/ \E answered \in BOOLEAN : Count(r, answered)
                         \/ SetExpiry(r) \/ RedisFails(r)
  \/ \E p \in Processes : Restart(p)

AccessSpec == AccessInit /\ [][AccessNext]_accessVars

-----------------------------------------------------------------------------
AccessTypeOK ==
  /\ clock \in Times
  /\ bucket \in [Processes -> Seq(Times)]
  /\ counter \in [Windows -> 0 .. Limit + 1] /\ passed \in [Windows -> Nat]
  /\ expiry \in [Windows -> Nat]
  /\ request \in [Requests -> [step : {"idle", "trimming", "popping", "testing",
                                       "admitting", "choosing", "counting", "expiring"},
                               process : Processes \cup {NoProcess}, now : Times,
                               window : Windows]]
  /\ admitted \in [Processes -> Seq(Times)]
  /\ overlapped \subseteq Processes

AdmittedFrom(p, t) == Cardinality({i \in DOMAIN admitted[p] : admitted[p][i] \in t .. t + Window})

\* A process admits no more than the limit in a window of any start, unless two of its
\* threads are in the limiter at once: its steps are not protected from each other, and then
\* only what it remembers has a bound.  Within a window of Redis's, all processes together
\* pass no more than the limit and the requests that had chosen the window when its count
\* was dropped and count only then.  A count left without a time to live changes
\* nothing (_in_memory_api_key_limiter, _redis_api_key_limiter).
RateIsBounded ==
  /\ \A p \in Processes \ overlapped, t \in Times : AdmittedFrom(p, t) <= Limit
  /\ \A p \in Processes : Len(bucket[p]) < Limit + Cardinality(Requests)
  /\ \A w \in Windows : passed[w] <= Limit + Cardinality(Requests)

=============================================================================
