-------------------------- MODULE RunAnalysisProofs --------------------------
(***************************************************************************)
(* Theorems about RunAnalysis, for any number of runs, webhooks, jobs,     *)
(* workers, API processes, resets and faults, whatever overlaps.           *)
(***************************************************************************)
EXTENDS RunAnalysis, SequenceTheorems, FiniteSetTheorems, TLAPS

HookType    == [step : HookSteps, run : Runs \cup {None}, found : BOOLEAN]
HandlerType == [step : HandlerSteps, run : Runs \cup {None}, count : Nat, row : Nat]

Analyzed(r) == \E i \in DOMAIN analyses : analyses[i].run = r

\* One worker executes a job, one job at a time.
RunnersFit ==
  /\ \A j \in Jobs, w \in Workers :
       w \in runners[j] => status[j] = "RUNNING" /\ runners[j] = {w}
  /\ \A i, j \in Jobs, w \in Workers : w \in runners[i] /\ w \in runners[j] => i = j

\* Before the route looks for a job it has stored the run.
HooksFit ==
  \A a \in API : /\ hook[a].step # "idle" => hook[a].run \in Runs
                 /\ hook[a].step \in {"persisted", "checked"} => hook[a].run \in stored

\* Jobs are for stored runs.
KeysFit == \A j \in Jobs : IF status[j] = "NONE" THEN key[j] = None ELSE key[j] \in stored

\* What the locals of a handler claim of the analyses.
HandlerFits(h) ==
  /\ h.step = "returned" => Analyzed(h.run)
  /\ h.step = "committing" => h.count \in 1 .. Len(analyses) + 1
  /\ h.step = "queueing" => h.row \in DOMAIN analyses /\ analyses[h.row].run = h.run

\* A handler is about the run of the job its worker executes.
HandlersFit ==
  \A w \in Workers : handler[w].step # "none" =>
    /\ \E j \in Jobs : w \in runners[j] /\ handler[w].run = key[j]
    /\ HandlerFits(handler[w])

RunInv == /\ TypeOK /\ RunnersFit /\ HooksFit /\ KeysFit /\ HandlersFit
          /\ CompletedIsAnalyzed /\ OccurrencesAreSeen

-----------------------------------------------------------------------------
(* The webhook route. *)

LEMMA RunInitial == Init => RunInv
<1> SUFFICES ASSUME Init
             PROVE  RunInv
  OBVIOUS
<1> USE DEF Init, Life!Init
<1>1. TypeOK
  BY MaxAttemptsAssumption, BoundsAssumption
    DEF TypeOK, IdleHook, IdleHandler, HookSteps, HandlerSteps
<1>2. RunnersFit /\ HooksFit /\ KeysFit /\ HandlersFit
  BY DEF RunnersFit, HooksFit, KeysFit, HandlersFit, IdleHook, IdleHandler
<1>3. CompletedIsAnalyzed /\ OccurrencesAreSeen
  BY DEF CompletedIsAnalyzed, OccurrencesAreSeen
<1>4. QED
  BY <1>1, <1>2, <1>3 DEF RunInv

LEMMA HookTyped ==
  ASSUME RunInv
  PROVE  /\ hook \in [API -> HookType] /\ handler \in [Workers -> HandlerType]
         /\ IdleHook \in HookType /\ IdleHook.step = "idle"
         /\ IdleHandler \in HandlerType /\ IdleHandler.step = "none"
BY DEF RunInv, TypeOK, HookType, HandlerType, IdleHook, IdleHandler, HookSteps, HandlerSteps

\* The route reads, stores its run or ends.
LEMMA HookMoves ==
  ASSUME RunInv, NEW a \in API, NEW h \in HookType, hook' = [hook EXCEPT ![a] = h],
         h.step # "idle" => h.run \in Runs,
         h.step \in {"persisted", "checked"} => h.run \in stored',
         stored \subseteq stored', stored' \subseteq Runs,
         UNCHANGED <<jobVars, key, analyses, handler, resets>>,
         webhooks' \in 0 .. MaxWebhooks, faults' \in 0 .. MaxFaults
  PROVE  RunInv'
<1>1. hook' \in [API -> HookType] /\ hook'[a] = h /\ \A b \in API : b # a => hook'[b] = hook[b]
  BY HookTyped
<1>2. TypeOK'
  BY <1>1 DEF RunInv, TypeOK, HookType, jobVars
<1>3. HooksFit'
  BY <1>1 DEF RunInv, HooksFit
<1>4. RunnersFit' /\ KeysFit' /\ HandlersFit'
  BY DEF RunInv, RunnersFit, KeysFit, HandlersFit, HandlerFits, Analyzed, jobVars
<1>5. CompletedIsAnalyzed' /\ OccurrencesAreSeen'
  BY DEF RunInv, CompletedIsAnalyzed, OccurrencesAreSeen, jobVars
<1>6. QED
  BY <1>2, <1>3, <1>4, <1>5 DEF RunInv

LEMMA RouteKeeps ==
  ASSUME RunInv, NEW a \in API
  PROVE  /\ \A r \in Runs : Receive(a, r) => RunInv'
         /\ PersistRun(a) => RunInv'
         /\ CheckJob(a) => RunInv'
         /\ HookFails(a) => RunInv'
<1>1. /\ hook[a] \in HookType /\ stored \subseteq Runs
      /\ hook[a].step # "idle" => hook[a].run \in Runs
      /\ hook[a].step = "persisted" => hook[a].run \in stored
      /\ webhooks \in 0 .. MaxWebhooks /\ faults \in 0 .. MaxFaults
  BY HookTyped DEF RunInv, TypeOK, HooksFit
<1>2. ASSUME NEW r \in Runs, Receive(a, r)
      PROVE  RunInv'
  <2> DEFINE h == [step |-> "selected", run |-> r, found |-> r \in stored]
  <2>1. h \in HookType /\ h.step = "selected" /\ h.run = r
    BY DEF HookType, HookSteps
  <2>2. webhooks' \in 0 .. MaxWebhooks
    BY <1>1, <1>2, BoundsAssumption DEF Receive
  <2> HIDE DEF h
  <2>3. hook' = [hook EXCEPT ![a] = h]
    BY <1>2 DEF Receive, h
  <2>4. QED
    BY <1>1, <1>2, <2>1, <2>2, <2>3, HookMoves DEF Receive
<1>3. ASSUME PersistRun(a)
      PROVE  RunInv'
  <2> DEFINE h == [hook[a] EXCEPT !.step = "persisted"]
  <2>1. h \in HookType /\ h.step = "persisted" /\ h.run = hook[a].run
    BY <1>1 DEF HookType, HookSteps
  <2>2. hook' = [hook EXCEPT ![a] = IdleHook] \/ hook' = [hook EXCEPT ![a] = h]
    BY <1>3, HookTyped DEF PersistRun
  <2> HIDE DEF h
  <2>3. hook[a].run \in stored' /\ stored \subseteq stored' /\ stored' \subseteq Runs
    BY <1>1, <1>3 DEF PersistRun
  <2>4. CASE hook' = [hook EXCEPT ![a] = IdleHook]
    BY <1>1, <1>3, <2>3, <2>4, HookTyped, HookMoves DEF PersistRun, bounds
  <2>5. CASE hook' = [hook EXCEPT ![a] = h]
    BY <1>1, <1>3, <2>1, <2>3, <2>5, HookMoves DEF PersistRun, bounds
  <2>6. QED
    BY <2>2, <2>4, <2>5
<1>4. ASSUME CheckJob(a)
      PROVE  RunInv'
  <2> DEFINE h == [hook[a] EXCEPT !.step = "checked"]
  <2>1. h \in HookType /\ h.step = "checked" /\ h.run = hook[a].run
    BY <1>1 DEF HookType, HookSteps
  <2>2. hook' = [hook EXCEPT ![a] = IdleHook] \/ hook' = [hook EXCEPT ![a] = h]
    BY <1>4, HookTyped DEF CheckJob
  <2> HIDE DEF h
  <2>3. hook[a].run \in stored /\ stored' = stored
    BY <1>1, <1>4 DEF CheckJob
  <2>4. CASE hook' = [hook EXCEPT ![a] = IdleHook]
    BY <1>1, <1>4, <2>3, <2>4, HookTyped, HookMoves DEF CheckJob, bounds
  <2>5. CASE hook' = [hook EXCEPT ![a] = h]
    BY <1>1, <1>4, <2>1, <2>3, <2>5, HookMoves DEF CheckJob, bounds
  <2>6. QED
    BY <2>2, <2>4, <2>5
<1>5. ASSUME HookFails(a)
      PROVE  RunInv'
  <2>1. faults' \in 0 .. MaxFaults
    BY <1>1, <1>5, BoundsAssumption DEF HookFails, Fault
  <2>2. QED
    BY <1>1, <1>5, <2>1, HookTyped, HookMoves DEF HookFails
<1>6. QED
  BY <1>2, <1>3, <1>4, <1>5

LEMMA InsertKeeps ==
  ASSUME RunInv, NEW a \in API, NEW j \in Jobs, InsertJob(a, j)
  PROVE  RunInv'
<1>1. /\ hook[a].step = "checked" /\ status[j] = "NONE"
      /\ status' = [status EXCEPT ![j] = "QUEUED"]
      /\ key' = [key EXCEPT ![j] = hook[a].run]
      /\ hook' = [hook EXCEPT ![a] = IdleHook]
      /\ UNCHANGED <<attempts, runners, stored, analyses, handler, webhooks, resets, faults>>
  BY DEF InsertJob, Life!Create, bounds
<1>2. hook[a].run \in stored /\ hook[a].run \in Runs
  BY <1>1 DEF RunInv, HooksFit
<1>3. \A w \in Workers : w \notin runners[j]
  BY <1>1 DEF RunInv, RunnersFit
<1>4. TypeOK'
  BY <1>1, <1>2, HookTyped DEF RunInv, TypeOK, HookType
<1>5. RunnersFit' /\ KeysFit'
  BY <1>1, <1>2, <1>3 DEF RunInv, RunnersFit, KeysFit, TypeOK
<1>6. HooksFit'
  BY <1>1, HookTyped DEF RunInv, HooksFit
<1>7. HandlersFit'
  BY <1>1, <1>3 DEF RunInv, HandlersFit, HandlerFits, Analyzed, TypeOK
<1>8. CompletedIsAnalyzed' /\ OccurrencesAreSeen'
  BY <1>1 DEF RunInv, CompletedIsAnalyzed, OccurrencesAreSeen, TypeOK
<1>9. QED
  BY <1>4, <1>5, <1>6, <1>7, <1>8 DEF RunInv

-----------------------------------------------------------------------------
(* The handler. *)

\* No analysis is taken away or given to another run.
Longer ==
  /\ Len(analyses) <= Len(analyses')
  /\ \A i \in DOMAIN analyses : i \in DOMAIN analyses' /\ analyses'[i].run = analyses[i].run

LEMMA FitsForGood ==
  ASSUME RunInv, Longer, analyses' \in Seq(Analysis), NEW h \in HandlerType, HandlerFits(h)
  PROVE  HandlerFits(h)'
<1>1. /\ Len(analyses) \in Nat /\ Len(analyses') \in Nat
      /\ DOMAIN analyses = 1 .. Len(analyses) /\ DOMAIN analyses' = 1 .. Len(analyses')
  BY DEF RunInv, TypeOK
<1>2. QED
  BY <1>1 DEF Longer, HandlerFits, Analyzed, HandlerType

LEMMA HandlerMoves ==
  ASSUME RunInv, NEW w \in Workers, NEW h \in HandlerType, handler' = [handler EXCEPT ![w] = h],
         handler[w].step # "none", h.run = handler[w].run, HandlerFits(h)',
         Longer, analyses' \in Seq(Analysis), OccurrencesAreSeen',
         UNCHANGED <<jobVars, key, stored, hook, webhooks, resets>>, faults' \in 0 .. MaxFaults
  PROVE  RunInv'
<1>1. /\ handler' \in [Workers -> HandlerType] /\ handler'[w] = h
      /\ \A v \in Workers : v # w => handler'[v] = handler[v]
  BY HookTyped
<1>2. TypeOK'
  BY <1>1 DEF RunInv, TypeOK, HandlerType, jobVars
<1>3. RunnersFit' /\ HooksFit' /\ KeysFit'
  BY DEF RunInv, RunnersFit, HooksFit, KeysFit, jobVars
<1>4. HandlersFit'
  <2>1. \A v \in Workers : handler[v] \in HandlerType
    BY HookTyped
  <2>2. ASSUME NEW v \in Workers, v # w, handler[v].step # "none"
        PROVE  HandlerFits(handler[v])'
    <3>1. PICK g \in HandlerType : g = handler[v] /\ g = handler'[v]
      BY <1>1, <2>1, <2>2
    <3>2. HandlerFits(g)
      BY <2>2, <3>1 DEF RunInv, HandlersFit, HandlerFits
    <3>3. HandlerFits(g)'
      BY <3>2, FitsForGood
    <3>4. QED
      BY <3>1, <3>3 DEF HandlerFits
  <2>3. HandlerFits(handler[w])'
    BY <1>1 DEF HandlerFits
  <2>4. ASSUME NEW v \in Workers, handler'[v].step # "none"
        PROVE  \E j \in Jobs : v \in runners'[j] /\ handler'[v].run = key'[j]
    BY <1>1, <2>4 DEF RunInv, HandlersFit, jobVars
  <2>5. QED
    BY <1>1, <2>2, <2>3, <2>4 DEF HandlersFit
<1>5. CompletedIsAnalyzed'
  BY DEF RunInv, CompletedIsAnalyzed, Longer, jobVars
<1>6. QED
  BY <1>2, <1>3, <1>4, <1>5 DEF RunInv

\* A handler goes on without writing an analysis.
LEMMA HandlerReads ==
  ASSUME RunInv, NEW w \in Workers, NEW h \in HandlerType, handler' = [handler EXCEPT ![w] = h],
         handler[w].step # "none", h.run = handler[w].run, HandlerFits(h),
         UNCHANGED <<jobVars, key, stored, analyses, hook, webhooks, resets>>,
         faults' \in 0 .. MaxFaults
  PROVE  RunInv'
<1>1. Longer /\ analyses' \in Seq(Analysis) /\ OccurrencesAreSeen'
  BY DEF Longer, RunInv, TypeOK, OccurrencesAreSeen
<1>2. HandlerFits(h)'
  BY <1>1, FitsForGood
<1>3. QED
  BY <1>1, <1>2, HandlerMoves

LEMMA ReadKeeps ==
  ASSUME RunInv, NEW w \in Workers
  PROVE  /\ FetchAndClassify(w) => RunInv'
         /\ \A kind \in {"temporary", "permanent"} : FetchFails(w, kind) => RunInv'
         /\ CheckExisting(w) => RunInv'
         /\ CountOccurrences(w) => RunInv'
         /\ HandlerFails(w) => RunInv'
<1>1. handler[w] \in HandlerType /\ Len(analyses) \in Nat /\ faults \in 0 .. MaxFaults
  BY HookTyped DEF RunInv, TypeOK
<1>2. ASSUME NEW s \in HandlerSteps, Goto(w, s), handler[w].step # "none",
             s \notin {"committing", "queueing"}, s = "returned" => Analyzed(handler[w].run),
             UNCHANGED <<jobVars, key, stored, analyses, hook, webhooks, resets>>,
             faults' \in 0 .. MaxFaults
      PROVE  RunInv'
  <2> DEFINE h == [handler[w] EXCEPT !.step = s]
  <2>1. h \in HandlerType /\ h.step = s /\ h.run = handler[w].run
    BY <1>1 DEF HandlerType
  <2>2. handler' = [handler EXCEPT ![w] = h]
    BY <1>2, HookTyped DEF Goto
  <2> HIDE DEF h
  <2>3. HandlerFits(h)
    BY <1>2, <2>1 DEF HandlerFits
  <2>4. QED
    BY <1>2, <2>1, <2>2, <2>3, HandlerReads
<1>3. ASSUME FetchAndClassify(w)
      PROVE  RunInv'
  BY <1>1, <1>2, <1>3 DEF FetchAndClassify, HandlerSteps, bounds
<1>4. ASSUME NEW kind \in {"temporary", "permanent"}, FetchFails(w, kind)
      PROVE  RunInv'
  BY <1>1, <1>2, <1>4 DEF FetchFails, HandlerSteps, bounds
<1>5. ASSUME CheckExisting(w)
      PROVE  RunInv'
  <2>1. CASE Analyzed(handler[w].run)
    BY <1>1, <1>2, <1>5, <2>1 DEF CheckExisting, Analyzed, HandlerSteps, bounds
  <2>2. CASE ~ Analyzed(handler[w].run)
    BY <1>1, <1>2, <1>5, <2>2 DEF CheckExisting, Analyzed, HandlerSteps, bounds
  <2>3. QED
    BY <2>1, <2>2
<1>6. ASSUME CountOccurrences(w)
      PROVE  RunInv'
  <2>0. PICK n \in Nat : n = Len(analyses) + 1
    BY <1>1
  <2> DEFINE h == [handler[w] EXCEPT !.step = "committing", !.count = n]
  <2>1. h \in HandlerType /\ h.step = "committing" /\ h.run = handler[w].run /\ h.count = n
    BY <1>1 DEF HandlerType, HandlerSteps
  <2>2. handler' = [handler EXCEPT ![w] = h]
    BY <1>6, <2>0, HookTyped DEF CountOccurrences
  <2> HIDE DEF h
  <2>3. HandlerFits(h)
    BY <1>1, <2>0, <2>1 DEF HandlerFits
  <2>4. QED
    BY <1>1, <1>6, <2>1, <2>2, <2>3, HandlerReads DEF CountOccurrences, bounds
<1>7. ASSUME HandlerFails(w)
      PROVE  RunInv'
  <2>1. faults' \in 0 .. MaxFaults
    BY <1>1, <1>7, BoundsAssumption DEF HandlerFails, Fault
  <2>2. QED
    BY <1>2, <1>7, <2>1 DEF HandlerFails, HandlerSteps
<1>8. QED
  BY <1>3, <1>4, <1>5, <1>6, <1>7

LEMMA CommitKeeps ==
  ASSUME RunInv, NEW w \in Workers, CommitAnalysis(w)
  PROVE  RunInv' /\ Longer
<1>1. handler[w] \in HandlerType /\ analyses \in Seq(Analysis) /\ faults \in 0 .. MaxFaults
      /\ Len(analyses) \in Nat
  BY HookTyped DEF RunInv, TypeOK
<1>2. PICK h \in HandlerType :
        /\ h = [handler[w] EXCEPT !.step = "queueing", !.row = Len(analyses) + 1]
        /\ h.step = "queueing" /\ h.run = handler[w].run /\ h.row = Len(analyses) + 1
  <2>1. PICK n \in Nat : n = Len(analyses) + 1
    BY <1>1
  <2> DEFINE g == [handler[w] EXCEPT !.step = "queueing", !.row = n]
  <2>2. g \in HandlerType /\ g.step = "queueing" /\ g.run = handler[w].run /\ g.row = n
    BY <1>1 DEF HandlerType, HandlerSteps
  <2>3. QED
    BY <2>1, <2>2
<1>3. handler' = [handler EXCEPT ![w] = h]
  BY <1>2, HookTyped DEF CommitAnalysis
<1>4. handler[w].run \in Runs /\ handler[w].count \in 1 .. Len(analyses) + 1
  <2>1. PICK j \in Jobs : w \in runners[j] /\ handler[w].run = key[j]
    BY DEF CommitAnalysis, RunInv, HandlersFit
  <2>2. key[j] \in stored /\ stored \subseteq Runs
    BY <2>1 DEF RunInv, RunnersFit, KeysFit, TypeOK
  <2>3. QED
    BY <2>1, <2>2 DEF CommitAnalysis, RunInv, HandlersFit, HandlerFits
<1>5. PICK x \in Analysis :
        /\ x.run = handler[w].run /\ x.count = handler[w].count
        /\ analyses' = Append(analyses, x)
  BY <1>1, <1>4 DEF Analysis, HandlerType, CommitAnalysis
<1>6. /\ analyses' \in Seq(Analysis) /\ Len(analyses') = Len(analyses) + 1
      /\ DOMAIN analyses = 1 .. Len(analyses) /\ DOMAIN analyses' = 1 .. Len(analyses) + 1
      /\ \A i \in 1 .. Len(analyses) : analyses'[i] = analyses[i]
      /\ analyses'[Len(analyses) + 1] = x
  BY <1>1, <1>5, AppendProperties
<1>7. Longer
  BY <1>1, <1>6 DEF Longer
<1>8. OccurrencesAreSeen'
  BY <1>1, <1>4, <1>5, <1>6 DEF RunInv, OccurrencesAreSeen
<1>9. HandlerFits(h)'
  BY <1>1, <1>2, <1>5, <1>6 DEF HandlerFits
<1>10. QED
  BY <1>1, <1>2, <1>3, <1>6, <1>7, <1>8, <1>9, HandlerMoves DEF CommitAnalysis, bounds

LEMMA QueueKeeps ==
  ASSUME RunInv, NEW w \in Workers, QueueDelivery(w)
  PROVE  RunInv' /\ Longer /\ DOMAIN analyses' = DOMAIN analyses
<1>1. handler[w] \in HandlerType /\ analyses \in Seq(Analysis) /\ faults \in 0 .. MaxFaults
      /\ DOMAIN analyses = 1 .. Len(analyses)
  BY HookTyped DEF RunInv, TypeOK
<1>2. PICK h \in HandlerType :
        /\ h = [handler[w] EXCEPT !.step = "returned"]
        /\ h.step = "returned" /\ h.run = handler[w].run
  <2> DEFINE g == [handler[w] EXCEPT !.step = "returned"]
  <2>1. g \in HandlerType /\ g.step = "returned" /\ g.run = handler[w].run
    BY <1>1 DEF HandlerType, HandlerSteps
  <2>2. QED
    BY <2>1
<1>3. handler' = [handler EXCEPT ![w] = h]
  BY <1>2, HookTyped DEF QueueDelivery, Goto
<1>4. PICK r \in DOMAIN analyses : r = handler[w].row /\ analyses[r].run = handler[w].run
  BY DEF QueueDelivery, RunInv, HandlersFit, HandlerFits
<1>5. analyses[r] \in Analysis
  BY <1>1, <1>4
<1>6. PICK x \in Analysis : /\ x = [analyses[r] EXCEPT !.delivery = TRUE]
                            /\ x.run = analyses[r].run /\ x.count = analyses[r].count
  <2> DEFINE y == [analyses[r] EXCEPT !.delivery = TRUE]
  <2>1. y \in Analysis /\ y.run = analyses[r].run /\ y.count = analyses[r].count
    BY <1>5 DEF Analysis
  <2>2. QED
    BY <2>1
<1>7. analyses' = [analyses EXCEPT ![r] = x]
  BY <1>4, <1>6 DEF QueueDelivery
<1>8. /\ analyses' \in Seq(Analysis) /\ Len(analyses') = Len(analyses)
      /\ DOMAIN analyses' = DOMAIN analyses
      /\ \A i \in DOMAIN analyses : analyses'[i].run = analyses[i].run
                                    /\ analyses'[i].count = analyses[i].count
  BY <1>1, <1>4, <1>6, <1>7, ExceptSeq
<1>9. Longer
  BY <1>1, <1>8 DEF Longer
<1>10. OccurrencesAreSeen'
  BY <1>8 DEF RunInv, OccurrencesAreSeen
<1>11. HandlerFits(h)'
  BY <1>2, <1>4, <1>8 DEF HandlerFits, Analyzed
<1>12. QED
  BY <1>1, <1>2, <1>3, <1>8, <1>9, <1>10, <1>11, HandlerMoves DEF QueueDelivery, bounds

\* The job's run is stored, so that the handler never takes the silent return.
LEMMA LoadKeeps ==
  ASSUME RunInv, NEW w \in Workers, NEW j \in Jobs, LoadRun(w, j)
  PROVE  RunInv' /\ handler'[w].step = "fetching"
<1>1. w \in runners[j] /\ handler[w].step = "none" /\ key[j] \in stored /\ key[j] \in Runs
  BY DEF LoadRun, RunInv, RunnersFit, KeysFit, TypeOK
<1> DEFINE h == [IdleHandler EXCEPT !.run = key[j], !.step = "fetching"]
<1>2. h \in HandlerType /\ h.step = "fetching" /\ h.run = key[j]
  BY <1>1, HookTyped DEF HandlerType, HandlerSteps
<1>3. /\ handler' = [handler EXCEPT ![w] = h]
      /\ UNCHANGED <<status, attempts, runners, key, stored, analyses, hook>>
      /\ UNCHANGED <<webhooks, resets, faults>>
  BY <1>1 DEF LoadRun, jobVars, bounds
<1> HIDE DEF h
<1>4. /\ handler' \in [Workers -> HandlerType] /\ handler'[w] = h
      /\ \A v \in Workers : v # w => handler'[v] = handler[v]
  BY <1>2, <1>3, HookTyped
<1>5. TypeOK'
  BY <1>3, <1>4 DEF RunInv, TypeOK, HandlerType
<1>6. RunnersFit' /\ HooksFit' /\ KeysFit' /\ CompletedIsAnalyzed' /\ OccurrencesAreSeen'
  BY <1>3 DEF RunInv, RunnersFit, HooksFit, KeysFit, CompletedIsAnalyzed, OccurrencesAreSeen
<1>7. HandlersFit'
  BY <1>1, <1>2, <1>3, <1>4 DEF RunInv, HandlersFit, HandlerFits, Analyzed
<1>8. QED
  BY <1>2, <1>4, <1>5, <1>6, <1>7 DEF RunInv

-----------------------------------------------------------------------------
(* Jobs. *)

LEMMA StartKeeps ==
  ASSUME RunInv, NEW w \in Workers, NEW j \in Jobs, Start(w, j)
  PROVE  RunInv'
<1>1. /\ \A i \in Jobs : w \notin runners[i]
      /\ status[j] \in {"QUEUED", "RETRYING"} /\ runners[j] = {}
      /\ status' = [status EXCEPT ![j] = "RUNNING"]
      /\ runners' = [runners EXCEPT ![j] = {w}]
      /\ UNCHANGED <<attempts, key, stored, analyses, hook, handler, webhooks, resets, faults>>
  BY DEF Start, Life!Start, bounds
<1>2. handler[w].step = "none"
  BY <1>1 DEF RunInv, HandlersFit
<1>3. TypeOK'
  BY <1>1 DEF RunInv, TypeOK
<1>4. RunnersFit' /\ KeysFit'
  BY <1>1 DEF RunInv, RunnersFit, KeysFit, TypeOK
<1>5. HooksFit' /\ CompletedIsAnalyzed' /\ OccurrencesAreSeen'
  BY <1>1 DEF RunInv, HooksFit, CompletedIsAnalyzed, OccurrencesAreSeen, TypeOK
<1>6. HandlersFit'
  BY <1>1, <1>2 DEF RunInv, HandlersFit, HandlerFits, Analyzed, TypeOK
<1>7. QED
  BY <1>3, <1>4, <1>5, <1>6 DEF RunInv

\* The execution of j by w ends, or is lost.
LEMMA EndKeeps ==
  ASSUME RunInv, NEW w \in Workers, NEW j \in Jobs,
         NEW s \in {"QUEUED", "RETRYING", "RUNNING", "COMPLETED", "FAILED_PERMANENT"},
         status[j] = "RUNNING", runners[j] = {w},
         status' = [status EXCEPT ![j] = s], runners' = [runners EXCEPT ![j] = {}],
         attempts' \in [Jobs -> 0 .. MaxAttempts], handler' = [handler EXCEPT ![w] = IdleHandler],
         s = "COMPLETED" => handler[w].step = "returned",
         UNCHANGED <<key, stored, analyses, hook, webhooks, resets>>, faults' \in 0 .. MaxFaults
  PROVE  RunInv'
<1>1. /\ handler' \in [Workers -> HandlerType] /\ handler'[w].step = "none"
      /\ \A v \in Workers : v # w => handler'[v] = handler[v]
  BY HookTyped
<1>2. TypeOK'
  BY <1>1 DEF RunInv, TypeOK, HandlerType
<1>3. RunnersFit' /\ KeysFit' /\ HooksFit' /\ OccurrencesAreSeen'
  BY DEF RunInv, RunnersFit, KeysFit, HooksFit, OccurrencesAreSeen, TypeOK
<1>4. HandlersFit'
  BY <1>1 DEF RunInv, HandlersFit, HandlerFits, Analyzed, RunnersFit, TypeOK
<1>5. CompletedIsAnalyzed'
  <2>1. s = "COMPLETED" => Analyzed(key[j])
    BY DEF RunInv, HandlersFit, HandlerFits, RunnersFit
  <2>2. QED
    BY <2>1 DEF RunInv, CompletedIsAnalyzed, Analyzed, TypeOK
<1>6. QED
  BY <1>2, <1>3, <1>4, <1>5 DEF RunInv

LEMMA JobKeeps ==
  ASSUME RunInv, NEW j \in Jobs
  PROVE  /\ \A w \in Workers : EndJob(w, j) => RunInv'
         /\ \A w \in Workers : Abandon(w, j) => RunInv'
         /\ ResetJob(j) => RunInv'
<1>1. /\ attempts \in [Jobs -> 0 .. MaxAttempts]
      /\ faults \in 0 .. MaxFaults /\ resets \in 0 .. MaxResets
  BY DEF RunInv, TypeOK
<1>2. ASSUME NEW w \in Workers, EndJob(w, j)
      PROVE  RunInv'
  <2>1. /\ status[j] = "RUNNING" /\ runners[j] = {w}
        /\ runners' = [runners EXCEPT ![j] = {}]
        /\ handler' = [handler EXCEPT ![w] = IdleHandler]
        /\ UNCHANGED <<key, stored, analyses, hook, webhooks, resets, faults>>
    BY <1>2 DEF EndJob, Life!Complete, Life!Retry, Life!Fail, Life!End, bounds
  <2>2. CASE handler[w].step = "returned" /\ Life!Complete(j, w)
    BY <1>1, <2>1, <2>2, EndKeeps DEF Life!Complete, Life!End
  <2>3. CASE Life!Fail(j, w)
    BY <1>1, <2>1, <2>3, EndKeeps DEF Life!Fail, Life!End
  <2>4. CASE Life!Retry(j, w)
    <3>1. attempts' \in [Jobs -> 0 .. MaxAttempts]
      BY <1>1, <2>4, MaxAttemptsAssumption DEF Life!Retry
    <3>2. \/ status' = [status EXCEPT ![j] = "QUEUED"]
          \/ status' = [status EXCEPT ![j] = "RETRYING"]
      BY <2>4 DEF Life!Retry, Life!End
    <3>3. QED
      BY <1>1, <2>1, <3>1, <3>2, EndKeeps
  <2>5. QED
    BY <1>2, <2>2, <2>3, <2>4 DEF EndJob
<1>3. ASSUME NEW w \in Workers, Abandon(w, j)
      PROVE  RunInv'
  <2>1. faults' \in 0 .. MaxFaults
    BY <1>1, <1>3, BoundsAssumption DEF Abandon, Fault
  <2>2. status' = [status EXCEPT ![j] = "RUNNING"]
    BY <1>3 DEF Abandon, Life!Abandon, RunInv, TypeOK
  <2>3. QED
    BY <1>1, <1>3, <2>1, <2>2, EndKeeps DEF Abandon, Life!Abandon
<1>4. ASSUME ResetJob(j)
      PROVE  RunInv'
  <2>1. /\ status[j] = "FAILED_PERMANENT"
        /\ status' = [status EXCEPT ![j] = "QUEUED"]
        /\ attempts' = [attempts EXCEPT ![j] = 0]
        /\ UNCHANGED <<runners, key, stored, analyses, hook, handler, webhooks, faults>>
    BY <1>4 DEF ResetJob, Life!Reset, RunInv, TypeOK
  <2>2. resets' \in 0 .. MaxResets
    BY <1>1, <1>4, BoundsAssumption DEF ResetJob
  <2>3. TypeOK'
    BY <2>1, <2>2, MaxAttemptsAssumption DEF RunInv, TypeOK
  <2>4. RunnersFit' /\ HooksFit' /\ KeysFit' /\ OccurrencesAreSeen'
    BY <2>1 DEF RunInv, RunnersFit, HooksFit, KeysFit, OccurrencesAreSeen, TypeOK
  <2>5. HandlersFit' /\ CompletedIsAnalyzed'
    BY <2>1 DEF RunInv, HandlersFit, HandlerFits, Analyzed, CompletedIsAnalyzed, TypeOK
  <2>6. QED
    BY <2>3, <2>4, <2>5 DEF RunInv
<1>5. QED
  BY <1>2, <1>3, <1>4

-----------------------------------------------------------------------------
(* The theorems without a hypothesis. *)

LEMMA RunStutters ==
  ASSUME RunInv, UNCHANGED vars
  PROVE  RunInv'
BY DEF RunInv, TypeOK, RunnersFit, HooksFit, KeysFit, HandlersFit, HandlerFits, Analyzed,
       CompletedIsAnalyzed, OccurrencesAreSeen, vars

LEMMA RunStep ==
  ASSUME RunInv, [Next]_vars
  PROVE  RunInv'
<1>1. CASE UNCHANGED vars
  BY <1>1, RunStutters
<1>2. ASSUME NEW a \in API, HookStep(a) \/ HookFails(a) \/ \E r \in Runs : Receive(a, r)
      PROVE  RunInv'
  BY <1>2, RouteKeeps, InsertKeeps DEF HookStep
<1>3. CASE StartSome
  BY <1>3, StartKeeps DEF StartSome
<1>4. ASSUME NEW w \in Workers, HandlerStep(w) \/ HandlerFails(w)
      PROVE  RunInv'
  BY <1>4, LoadKeeps, JobKeeps, ReadKeeps, CommitKeeps, QueueKeeps DEF HandlerStep
<1>5. ASSUME NEW j \in Jobs, ResetJob(j) \/ \E w \in Workers : Abandon(w, j)
      PROVE  RunInv'
  BY <1>5, JobKeeps
<1>6. QED
  BY <1>1, <1>2, <1>3, <1>4, <1>5 DEF Next

LEMMA RunInvariant == Spec => []RunInv
<1>1. RunInv /\ [Next]_vars => RunInv'
  BY RunStep
<1>2. QED
  BY RunInitial, <1>1, PTL DEF Spec

\* The tables and the locals of the webhook route and of the handler are well typed, and
\* the attempts of a job never exceed the configured maximum.
THEOREM RunTypes == Spec => []TypeOK
<1>1. RunInv => TypeOK
  BY DEF RunInv
<1>2. QED
  BY RunInvariant, <1>1, PTL

\* Whoever overlaps with whom and whatever is lost, retried or reset, a job completes only
\* when its run has an analysis: the silent returns of handle_analyze_workflow_run are not
\* taken by a run that has none.
THEOREM CompletionIsAnalyzed == Spec => []CompletedIsAnalyzed
<1>1. RunInv => CompletedIsAnalyzed
  BY DEF RunInv
<1>2. QED
  BY RunInvariant, <1>1, PTL

\* However the counting SELECTs and the COMMITs of workers interleave, an occurrence_count
\* counts the analysis itself and nothing that was not there.
THEOREM CountsAreSeen == Spec => []OccurrencesAreSeen
<1>1. RunInv => OccurrencesAreSeen
  BY DEF RunInv
<1>2. QED
  BY RunInvariant, <1>1, PTL

-----------------------------------------------------------------------------
(* As many analyses of a run as API processes. *)

\* The jobs of r, and the processes between enqueue's SELECT for one and its INSERT.
JobsOf(r)  == {j \in Jobs : key[j] = r}
HooksOf(r) == {a \in API : hook[a].step = "checked" /\ hook[a].run = r}

\* The analyses of r, and the workers between the handler's SELECT for one and its COMMIT.
Writing       == {"counting", "committing"}
AnalysesOf(r) == {i \in DOMAIN analyses : analyses[i].run = r}
WritersOf(r)  == {w \in Workers : handler[w].step \in Writing /\ handler[w].run = r}

\* Each process that may still insert leaves room for its job, each worker that may still
\* commit for its analysis.
RoomInv ==
  \A r \in Runs :
    /\ IsFiniteSet(JobsOf(r)) /\ Cardinality(JobsOf(r)) + Cardinality(HooksOf(r)) <= Cardinality(API)
    /\ IsFiniteSet(AnalysesOf(r)) /\ IsFiniteSet(WritersOf(r))
    /\ Cardinality(AnalysesOf(r)) + Cardinality(WritersOf(r)) <= Cardinality(API)

\* A step takes away from things and actors, turns one actor into a thing, or makes actors
\* where there is no thing and will be none.
Exchange(things, actors, things2, actors2) ==
  \/ things2 \subseteq things /\ actors2 \subseteq actors
  \/ \E t, a : a \in actors /\ things2 = things \cup {t} /\ actors2 = actors \ {a}
  \/ things = {} /\ things2 = {}

LEMMA ExchangeFits ==
  ASSUME NEW n \in Nat, NEW A, NEW I, NEW B, NEW J, IsFiniteSet(A), IsFiniteSet(I),
         Cardinality(A) + Cardinality(I) <= n, IsFiniteSet(J), Cardinality(J) <= n,
         Exchange(A, I, B, J)
  PROVE  IsFiniteSet(B) /\ Cardinality(B) + Cardinality(J) <= n
<1>1. Cardinality(A) \in Nat /\ Cardinality(I) \in Nat /\ Cardinality(J) \in Nat
  BY FS_CardinalityType
<1>2. CASE B \subseteq A /\ J \subseteq I
  <2>1. /\ IsFiniteSet(B) /\ Cardinality(B) \in Nat
        /\ Cardinality(B) <= Cardinality(A) /\ Cardinality(J) <= Cardinality(I)
    BY <1>2, FS_Subset, FS_CardinalityType
  <2>2. QED
    BY <1>1, <2>1
<1>3. CASE \E t, a : a \in I /\ B = A \cup {t} /\ J = I \ {a}
  <2>1. PICK t, a : a \in I /\ B = A \cup {t} /\ J = I \ {a}
    BY <1>3
  <2>2. /\ IsFiniteSet(B) /\ Cardinality(B) \in {Cardinality(A), Cardinality(A) + 1}
        /\ Cardinality(J) = Cardinality(I) - 1
    BY <2>1, FS_AddElement, FS_RemoveElement
  <2>3. QED
    BY <1>1, <2>2
<1>4. CASE B = {}
  <2>1. IsFiniteSet(B) /\ Cardinality(B) = 0
    BY <1>4, FS_EmptySet
  <2>2. QED
    BY <1>1, <2>1
<1>5. QED
  BY <1>2, <1>3, <1>4 DEF Exchange

LEMMA HooksAreProcesses ==
  /\ Cardinality(API) \in Nat
  /\ \A r : /\ IsFiniteSet(HooksOf(r)) /\ Cardinality(HooksOf(r)) <= Cardinality(API)
           /\ IsFiniteSet(HooksOf(r)') /\ Cardinality(HooksOf(r)') <= Cardinality(API)
<1>1. \A r : HooksOf(r) \subseteq API /\ HooksOf(r)' \subseteq API
  BY DEF HooksOf
<1>2. QED
  BY <1>1, APIAssumption, FS_Subset, FS_CardinalityType

\* A run has no more workers in its handler than jobs: each executes a job of its own.
LEMMA WritersHaveJobs ==
  ASSUME RunInv', NEW r \in Runs, IsFiniteSet(JobsOf(r)')
  PROVE  IsFiniteSet(WritersOf(r)') /\ Cardinality(WritersOf(r)') <= Cardinality(JobsOf(r)')
<1> DEFINE S == WritersOf(r)'
           T == JobsOf(r)'
           f == [w \in S |-> CHOOSE j \in Jobs : w \in runners'[j] /\ key'[j] = r]
<1>1. ASSUME NEW w \in S
      PROVE  f[w] \in T /\ w \in runners'[f[w]]
  <2>1. \E j \in Jobs : w \in runners'[j] /\ key'[j] = r
    BY DEF WritersOf, Writing, RunInv, HandlersFit
  <2>2. f[w] \in Jobs /\ w \in runners'[f[w]] /\ key'[f[w]] = r
    BY <2>1
  <2>3. QED
    BY <2>2 DEF JobsOf
<1>2. ASSUME NEW v \in S, NEW w \in S, f[v] = f[w]
      PROVE  v = w
  <2>1. f[v] \in Jobs /\ v \in Workers /\ w \in Workers /\ v \in runners'[f[v]] /\ w \in runners'[f[v]]
    BY <1>1, <1>2 DEF JobsOf, WritersOf
  <2> HIDE DEF f
  <2>2. QED
    BY <2>1 DEF RunInv, RunnersFit
<1>3. f \in [S -> T]
  BY <1>1
<1> HIDE DEF f, S, T
<1>4. f \in Injection(S, T)
  BY <1>2, <1>3 DEF Injection, IsInjective
<1>5. IsFiniteSet(S) /\ Cardinality(S) <= Cardinality(T)
  BY <1>4, FS_Injection DEF T
<1>6. QED
  BY <1>5 DEF S, T

JobsFit(r)     == Exchange(JobsOf(r), HooksOf(r), JobsOf(r)', HooksOf(r)')
AnalysesFit(r) == Exchange(AnalysesOf(r), WritersOf(r), AnalysesOf(r)', WritersOf(r)')

LEMMA RoomIsKept ==
  ASSUME RunInv', RoomInv, \A r \in Runs : JobsFit(r) /\ AnalysesFit(r)
  PROVE  RoomInv'
<1>0. SUFFICES ASSUME NEW r \in Runs
               PROVE  /\ IsFiniteSet(JobsOf(r)')
                      /\ Cardinality(JobsOf(r)') + Cardinality(HooksOf(r)') <= Cardinality(API)
                      /\ IsFiniteSet(AnalysesOf(r)') /\ IsFiniteSet(WritersOf(r)')
                      /\ Cardinality(AnalysesOf(r)') + Cardinality(WritersOf(r)') <= Cardinality(API)
  BY DEF RoomInv
<1>1. /\ IsFiniteSet(JobsOf(r)) /\ IsFiniteSet(AnalysesOf(r)) /\ IsFiniteSet(WritersOf(r))
      /\ Cardinality(JobsOf(r)) + Cardinality(HooksOf(r)) <= Cardinality(API)
      /\ Cardinality(AnalysesOf(r)) + Cardinality(WritersOf(r)) <= Cardinality(API)
  BY DEF RoomInv
<1>2. Exchange(JobsOf(r), HooksOf(r), JobsOf(r)', HooksOf(r)')
  BY DEF JobsFit
<1>3. IsFiniteSet(JobsOf(r)') /\ Cardinality(JobsOf(r)') + Cardinality(HooksOf(r)') <= Cardinality(API)
  BY <1>1, <1>2, HooksAreProcesses, ExchangeFits
<1>4. IsFiniteSet(WritersOf(r)') /\ Cardinality(WritersOf(r)') <= Cardinality(API)
  <2>1. IsFiniteSet(WritersOf(r)') /\ Cardinality(WritersOf(r)') <= Cardinality(JobsOf(r)')
    BY <1>3, WritersHaveJobs
  <2>2. PICK x, y, z \in Nat : /\ x = Cardinality(WritersOf(r)') /\ y = Cardinality(JobsOf(r)')
                               /\ z = Cardinality(HooksOf(r)')
    BY <1>3, <2>1, HooksAreProcesses, FS_CardinalityType
  <2>3. QED
    BY <1>3, <2>1, <2>2, HooksAreProcesses
<1>5. Exchange(AnalysesOf(r), WritersOf(r), AnalysesOf(r)', WritersOf(r)')
  BY DEF AnalysesFit
<1>6. IsFiniteSet(AnalysesOf(r)')
      /\ Cardinality(AnalysesOf(r)') + Cardinality(WritersOf(r)') <= Cardinality(API)
  BY <1>1, <1>4, <1>5, HooksAreProcesses, ExchangeFits
<1>7. QED
  BY <1>3, <1>4, <1>6

\* Steps that write no analysis and insert no job: who starts to insert or to write has looked.
LEMMA QuietFits ==
  ASSUME UNCHANGED <<key, analyses>>,
         \A a \in API : \/ hook'[a] = hook[a]
                        \/ hook'[a].step = "checked" => \A j \in Jobs : key[j] # hook'[a].run,
         \A w \in Workers : \/ handler'[w].step \in Writing =>
                                handler[w].step \in Writing /\ handler'[w].run = handler[w].run
                            \/ handler'[w].step \in Writing => ~ Analyzed(handler'[w].run)
  PROVE  \A r \in Runs : JobsFit(r) /\ AnalysesFit(r)
<1> TAKE r \in Runs
<1>1. JobsOf(r)' = JobsOf(r) /\ AnalysesOf(r)' = AnalysesOf(r)
  BY DEF JobsOf, AnalysesOf
<1>2. HooksOf(r)' \subseteq HooksOf(r) \/ JobsOf(r) = {}
  BY DEF HooksOf, JobsOf
<1>3. WritersOf(r)' \subseteq WritersOf(r) \/ AnalysesOf(r) = {}
  BY DEF WritersOf, AnalysesOf, Analyzed
<1>4. QED
  BY <1>1, <1>2, <1>3 DEF JobsFit, AnalysesFit, Exchange

LEMMA RouteFits ==
  ASSUME RunInv, NEW a \in API, HookStep(a) \/ HookFails(a) \/ \E r \in Runs : Receive(a, r)
  PROVE  \A r \in Runs : JobsFit(r) /\ AnalysesFit(r)
<1>1. hook \in [API -> HookType] /\ IdleHook.step = "idle"
  BY HookTyped
<1>2. ASSUME HookFails(a) \/ PersistRun(a) \/ CheckJob(a) \/ \E r \in Runs : Receive(a, r)
      PROVE  \A r \in Runs : JobsFit(r) /\ AnalysesFit(r)
  <2>1. UNCHANGED <<key, analyses, handler>> /\ \A b \in API : b # a => hook'[b] = hook[b]
    BY <1>1, <1>2 DEF HookFails, PersistRun, CheckJob, Receive
  <2>2. hook'[a].step = "checked" => \A j \in Jobs : key[j] # hook'[a].run
    BY <1>1, <1>2 DEF HookFails, PersistRun, CheckJob, Receive, HookType
  <2>3. QED
    BY <2>1, <2>2, QuietFits
<1>3. ASSUME NEW j \in Jobs, InsertJob(a, j), NEW r \in Runs
      PROVE  JobsFit(r) /\ AnalysesFit(r)
  <2>1. /\ hook[a].step = "checked" /\ hook'[a].step = "idle"
        /\ \A b \in API : b # a => hook'[b] = hook[b]
        /\ key \in [Jobs -> Runs \cup {None}] /\ key' = [key EXCEPT ![j] = hook[a].run]
        /\ UNCHANGED <<analyses, handler>>
    BY <1>1, <1>3 DEF InsertJob, RunInv, TypeOK
  <2>2. AnalysesFit(r)
    BY <2>1 DEF AnalysesFit, Exchange, AnalysesOf, WritersOf
  <2>3. CASE hook[a].run = r
    <3>1. a \in HooksOf(r) /\ HooksOf(r)' = HooksOf(r) \ {a} /\ JobsOf(r)' = JobsOf(r) \cup {j}
      BY <2>1, <2>3 DEF HooksOf, JobsOf
    <3>2. QED
      BY <2>2, <3>1 DEF JobsFit, Exchange
  <2>4. CASE hook[a].run # r
    <3>1. HooksOf(r)' \subseteq HooksOf(r) /\ JobsOf(r)' \subseteq JobsOf(r)
      BY <2>1, <2>4 DEF HooksOf, JobsOf
    <3>2. QED
      BY <2>2, <3>1 DEF JobsFit, Exchange
  <2>5. QED
    BY <2>3, <2>4
<1>4. QED
  BY <1>2, <1>3 DEF HookStep

LEMMA JobsStepFits ==
  ASSUME RunInv, NEW w \in Workers, NEW j \in Jobs,
         Start(w, j) \/ LoadRun(w, j) \/ EndJob(w, j) \/ Abandon(w, j) \/ ResetJob(j)
  PROVE  \A r \in Runs : JobsFit(r) /\ AnalysesFit(r)
<1>1. handler \in [Workers -> HandlerType] /\ IdleHandler.step = "none"
  BY HookTyped
<1>2. UNCHANGED <<key, analyses, hook>>
  BY DEF Start, LoadRun, EndJob, Abandon, ResetJob
<1>3. \A v \in Workers : handler'[v] = handler[v] \/ handler'[v].step \notin Writing
  <2>1. CASE LoadRun(w, j)
    BY <1>1, <2>1, LoadKeeps DEF LoadRun, Writing
  <2>2. CASE ~ LoadRun(w, j)
    BY <1>1, <2>2 DEF Start, EndJob, Abandon, ResetJob, Writing
  <2>3. QED
    BY <2>1, <2>2
<1>4. QED
  BY <1>2, <1>3, QuietFits

LEMMA ReadFits ==
  ASSUME RunInv, NEW w \in Workers,
         \/ FetchAndClassify(w) \/ CheckExisting(w) \/ CountOccurrences(w) \/ HandlerFails(w)
         \/ \E kind \in {"temporary", "permanent"} : FetchFails(w, kind)
  PROVE  \A r \in Runs : JobsFit(r) /\ AnalysesFit(r)
<1>1. handler[w] \in HandlerType /\ handler \in [Workers -> HandlerType]
  BY HookTyped
<1>2. UNCHANGED <<key, analyses, hook>> /\ \A v \in Workers : v # w => handler'[v] = handler[v]
  BY <1>1 DEF FetchAndClassify, CheckExisting, CountOccurrences, HandlerFails, FetchFails, Goto
<1>3. \/ handler'[w].step \in Writing =>
           handler[w].step \in Writing /\ handler'[w].run = handler[w].run
      \/ handler'[w].step \in Writing => ~ Analyzed(handler'[w].run)
  <2>1. CASE FetchAndClassify(w) \/ HandlerFails(w)
             \/ \E kind \in {"temporary", "permanent"} : FetchFails(w, kind)
    BY <1>1, <2>1 DEF FetchAndClassify, HandlerFails, FetchFails, Goto, HandlerType, Writing
  <2>2. CASE CheckExisting(w)
    BY <1>1, <2>2 DEF CheckExisting, Goto, HandlerType, Writing, Analyzed
  <2>3. CASE CountOccurrences(w)
    BY <1>1, <2>3 DEF CountOccurrences, HandlerType, Writing
  <2>4. QED
    BY <2>1, <2>2, <2>3
<1>4. QED
  BY <1>2, <1>3, QuietFits

LEMMA CommitFits ==
  ASSUME RunInv, NEW w \in Workers, CommitAnalysis(w), NEW r \in Runs
  PROVE  JobsFit(r) /\ AnalysesFit(r)
<1>1. /\ handler[w] \in HandlerType /\ handler \in [Workers -> HandlerType]
      /\ Len(analyses) \in Nat
      /\ handler[w].step = "committing" /\ UNCHANGED <<key, hook>>
  BY HookTyped DEF RunInv, TypeOK, CommitAnalysis
<1>2. PICK n \in Nat : n = Len(analyses) + 1
  BY <1>1
<1>3. /\ DOMAIN analyses = 1 .. Len(analyses) /\ DOMAIN analyses' = 1 .. n
      /\ \A i \in 1 .. Len(analyses) : analyses'[i] = analyses[i]
      /\ analyses'[n].run = handler[w].run
  BY <1>1, <1>2, AppendProperties DEF CommitAnalysis, RunInv, TypeOK
<1>4. handler'[w].step = "queueing" /\ \A v \in Workers : v # w => handler'[v] = handler[v]
  BY <1>1 DEF CommitAnalysis, HandlerType
<1>5. JobsFit(r)
  BY <1>1 DEF JobsFit, Exchange, JobsOf, HooksOf
<1>6. DOMAIN analyses' = DOMAIN analyses \cup {n}
  BY <1>1, <1>2, <1>3
<1>7. CASE handler[w].run = r
  <2>1. w \in WritersOf(r) /\ WritersOf(r)' = WritersOf(r) \ {w}
    BY <1>1, <1>4, <1>7 DEF WritersOf, Writing
  <2>2. AnalysesOf(r)' = AnalysesOf(r) \cup {n}
    BY <1>3, <1>6, <1>7 DEF AnalysesOf
  <2>3. QED
    BY <1>5, <2>1, <2>2 DEF AnalysesFit, Exchange
<1>8. CASE handler[w].run # r
  <2>1. WritersOf(r)' \subseteq WritersOf(r)
    BY <1>4 DEF WritersOf, Writing
  <2>2. AnalysesOf(r)' \subseteq AnalysesOf(r)
    BY <1>3, <1>6, <1>8 DEF AnalysesOf
  <2>3. QED
    BY <1>5, <2>1, <2>2 DEF AnalysesFit, Exchange
<1>9. QED
  BY <1>7, <1>8

LEMMA QueueFits ==
  ASSUME RunInv, NEW w \in Workers, QueueDelivery(w)
  PROVE  \A r \in Runs : JobsFit(r) /\ AnalysesFit(r)
<1>1. /\ DOMAIN analyses' = DOMAIN analyses
      /\ \A i \in DOMAIN analyses : analyses'[i].run = analyses[i].run
  BY QueueKeeps DEF Longer
<1>2. /\ handler'[w].step = "returned" /\ UNCHANGED <<key, hook>>
      /\ \A v \in Workers : v # w => handler'[v] = handler[v]
  BY HookTyped DEF QueueDelivery, Goto, HandlerType
<1>3. \A r \in Runs : /\ AnalysesOf(r)' = AnalysesOf(r) /\ WritersOf(r)' \subseteq WritersOf(r)
                      /\ JobsOf(r)' = JobsOf(r) /\ HooksOf(r)' = HooksOf(r)
  BY <1>1, <1>2 DEF AnalysesOf, WritersOf, JobsOf, HooksOf, Writing
<1>4. QED
  BY <1>3 DEF JobsFit, AnalysesFit, Exchange

LEMMA StepFits ==
  ASSUME RunInv, [Next]_vars
  PROVE  \A r \in Runs : JobsFit(r) /\ AnalysesFit(r)
<1>1. CASE UNCHANGED vars
  BY <1>1, QuietFits DEF vars
<1>2. ASSUME NEW a \in API, HookStep(a) \/ HookFails(a) \/ \E r \in Runs : Receive(a, r)
      PROVE  \A r \in Runs : JobsFit(r) /\ AnalysesFit(r)
  BY <1>2, RouteFits
<1>3. CASE StartSome
  BY <1>3, JobsStepFits DEF StartSome
<1>4. ASSUME NEW w \in Workers, HandlerStep(w) \/ HandlerFails(w)
      PROVE  \A r \in Runs : JobsFit(r) /\ AnalysesFit(r)
  BY <1>4, JobsStepFits, ReadFits, CommitFits, QueueFits DEF HandlerStep
<1>5. ASSUME NEW j \in Jobs, NEW w \in Workers, Abandon(w, j)
      PROVE  \A r \in Runs : JobsFit(r) /\ AnalysesFit(r)
  BY <1>5, JobsStepFits
<1>6. ASSUME NEW j \in Jobs, ResetJob(j)
      PROVE  \A r \in Runs : JobsFit(r) /\ AnalysesFit(r)
  <2>1. UNCHANGED <<key, analyses, hook, handler>>
    BY <1>6 DEF ResetJob
  <2>2. QED
    BY <2>1, QuietFits
<1>7. QED
  BY <1>1, <1>2, <1>3, <1>4, <1>5, <1>6 DEF Next

\* A run has at most as many analyses as there are API processes, however often it is
\* announced and whatever workers lose, fail and retry: each process inserts at most one job
\* of it, and only a worker that executes one of them, and found no analysis, commits one.
THEOREM AnalysesBounded == Spec => []AnalysesAreFew
<1>1. Init => RoomInv
  <2> SUFFICES ASSUME Init, NEW r \in Runs
               PROVE  /\ IsFiniteSet(JobsOf(r))
                      /\ Cardinality(JobsOf(r)) + Cardinality(HooksOf(r)) <= Cardinality(API)
                      /\ IsFiniteSet(AnalysesOf(r)) /\ IsFiniteSet(WritersOf(r))
                      /\ Cardinality(AnalysesOf(r)) + Cardinality(WritersOf(r)) <= Cardinality(API)
    BY DEF RoomInv
  <2>1. JobsOf(r) = {} /\ HooksOf(r) = {} /\ AnalysesOf(r) = {} /\ WritersOf(r) = {}
    BY NoneAssumption DEF Init, JobsOf, HooksOf, AnalysesOf, WritersOf, IdleHook, IdleHandler, Writing
  <2>2. QED
    BY <2>1, HooksAreProcesses, FS_EmptySet
<1>2. RunInv /\ RoomInv /\ [Next]_vars => RoomInv'
  BY RunStep, StepFits, RoomIsKept
<1>3. RoomInv => AnalysesAreFew
  <2> SUFFICES ASSUME RoomInv, NEW r \in Runs
               PROVE  Cardinality(AnalysesOf(r)) <= Cardinality(API)
    BY DEF AnalysesAreFew, AnalysesOf
  <2>1. /\ IsFiniteSet(AnalysesOf(r)) /\ IsFiniteSet(WritersOf(r))
        /\ Cardinality(AnalysesOf(r)) + Cardinality(WritersOf(r)) <= Cardinality(API)
    BY DEF RoomInv
  <2>2. PICK x, y \in Nat : x = Cardinality(AnalysesOf(r)) /\ y = Cardinality(WritersOf(r))
    BY <2>1, FS_CardinalityType
  <2>3. QED
    BY <2>1, <2>2, HooksAreProcesses
<1>4. QED
  BY RunInvariant, <1>1, <1>2, <1>3, PTL DEF Spec

=============================================================================
