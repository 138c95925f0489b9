------------------------------ MODULE LogDiagnosis ------------------------------
(***************************************************************************)
(* From a log to a diagnosis: process_log, the rules of                    *)
(* services/analyzer.py, the provider of services/ai.py with its checks,   *)
(* analyze_with_fallback, and the worker's _canonicalize_persisted_result. *)
(*                                                                         *)
(* A line of a log is its text, `name`, with what the regular expressions  *)
(* find in it.  Confidences are percentages.  What a diagnosis quotes is a *)
(* line or part of it, or, with `more`, a line among words that no log     *)
(* has.  The step a provider names stands for the line it is part of or    *)
(* that it contains.                                                       *)
(***************************************************************************)
EXTENDS Integers, SequencesExt

CONSTANTS
  LogLines,       \* the lines a log may have
  MaxLog,         \* bound on the lines of a log
  MaxEvidence,    \* evidence lines kept, 30
  MaxExcerpt,     \* max_ai_log_characters, in lines
  MaxQuoted,      \* quotations a diagnosis has, 10
  MaxAnswer,      \* bound on the quotations the provider offers
  AnswerCategories, AnswerConfidences   \* what the provider may answer

ASSUME LogLinesAssumption ==
  /\ \A x \in LogLines :
       x.is \subseteq {"blank", "diagnostic", "meaningful", "run", "exit", "signal", "failure", "step"}
  /\ \A x \in LogLines : "blank" \in x.is => x.is = {"blank"} /\ x.rules = {}
  /\ \A x, y \in LogLines : x.name = y.name => x = y
ASSUME LogSizesAssumption ==
  {MaxLog, MaxEvidence, MaxAnswer} \subseteq Nat /\ {MaxExcerpt, MaxQuoted} \subseteq Nat \ {0}

VARIABLE diagnosis   \* one analysis, from its log to what is stored

\* RULES, in their order.
Rules == <<
  [category |-> "COMPILATION_ERROR",        confidence |-> 92],
  [category |-> "LINT_ERROR",               confidence |-> 86],
  [category |-> "UNIT_TEST_FAILURE",        confidence |-> 90],
  [category |-> "DEPENDENCY_ERROR",         confidence |-> 88],
  [category |-> "CONFIGURATION_ERROR",      confidence |-> 86],
  [category |-> "DATABASE_MIGRATION_ERROR", confidence |-> 88],
  [category |-> "CONTAINER_ERROR",          confidence |-> 90],
  [category |-> "AUTHORIZATION_ERROR",      confidence |-> 91],
  [category |-> "NETWORK_TIMEOUT",          confidence |-> 87],
  [category |-> "DEPLOYMENT_ERROR",         confidence |-> 82]>>

RuleCategories == {Rules[k].category : k \in DOMAIN Rules}
Categories     == RuleCategories \cup {"INTEGRATION_TEST_FAILURE", "UNKNOWN"}

\* AIResult refuses what is no category and what is no confidence.
ASSUME AnswersAssumption ==
  AnswerCategories \subseteq Categories /\ AnswerConfidences \subseteq 0 .. 100

Unknown   == [category |-> "UNKNOWN", confidence |-> 25, severity |-> "LOW", evidence |-> {},
              step |-> "Unknown", provider |-> "RULE_BASED"]
NoAnswer  == [Unknown EXCEPT !.provider = "none"]

DiagnosisInit ==
  diagnosis = [phase |-> "waiting", log |-> <<>>, evidence |-> <<>>, rule |-> NoAnswer,
               answer |-> NoAnswer, stored |-> NoAnswer]

Is(x, what)     == what \in x.is
AtMost(n, most) == IF n < most THEN n ELSE most
Where(log, what) == {i \in DOMAIN log : Is(log[i], what)}

Steps       == {"Unknown"} \cup {x.name : x \in LogLines}
Quotations  == [line : LogLines, more : BOOLEAN]
Verbatim(x) == [line |-> x, more |-> FALSE]

\* The cut [:10]: the first of a set of positions.
Foremost(S) == {i \in S : Cardinality({j \in S : j <= i}) <= MaxQuoted}

-----------------------------------------------------------------------------
(* process_log, after colours, time stamps and secrets are out of the lines. *)

\* A line that repeats the one before it, and a leading blank one, are dropped.
CollapseLine(kept, x) ==
  IF (kept = <<>> /\ Is(x, "blank")) \/ (kept # <<>> /\ Last(kept) = x) THEN kept
  ELSE Append(kept, x)

Collapsing(log) ==
  LET kept[n \in 0 .. Len(log)] == IF n = 0 THEN <<>> ELSE CollapseLine(kept[n - 1], log[n])
  IN  kept

Collapse(log) == Collapsing(log)[Len(log)]

\* The diagnostic lines, each once, as many as are kept.
CollectLine(seen, x) ==
  IF Is(x, "diagnostic") /\ ~ Contains(seen, x) THEN Append(seen, x) ELSE seen

Collecting(lines) ==
  LET seen[n \in 0 .. Len(lines)] == IF n = 0 THEN <<>> ELSE CollectLine(seen[n - 1], lines[n])
  IN  seen

\* Mutation of Evidence: `seen` is not consulted.
EvidenceRepeated(log) ==
  LET found == SelectSeq(Collapse(log), LAMBDA x : Is(x, "diagnostic")) IN
  SubSeq(found, 1, AtMost(Len(found), MaxEvidence))

Evidence(log) ==
  LET found == Collecting(Collapse(log))[Len(Collapse(log))] IN
  SubSeq(found, 1, AtMost(Len(found), MaxEvidence))

\* The excerpt that is analysed; the evidence comes from the whole log.
Excerpt(log) ==
  SubSeq(Collapse(log), 1, AtMost(Len(Collapse(log)), MaxExcerpt))

-----------------------------------------------------------------------------
(* analyze, of services/analyzer.py. *)

Hits(evidence, c) == Cardinality({i \in DOMAIN evidence : c \in evidence[i].rules})
Score(evidence, k) == Hits(evidence, Rules[k].category) * Rules[k].confidence

\* max takes the first of the best.
Best(evidence) ==
  CHOOSE k \in DOMAIN Rules :
    /\ \A l \in DOMAIN Rules : Score(evidence, l) <= Score(evidence, k)
    /\ \A l \in 1 .. k - 1 : Score(evidence, l) < Score(evidence, k)

Severity(c, base) ==
  IF c \in {"DATABASE_MIGRATION_ERROR", "DEPLOYMENT_ERROR"} THEN "CRITICAL"
  ELSE IF base >= 90 THEN "HIGH" ELSE "MEDIUM"

\* _find_failed_run_step: none if the log has an exit code and no signal of a failure, else
\* the Run line before the first failure, or the last one.
FailedRun(log) ==
  LET runs   == Where(log, "run")
      before == {i \in runs : \E f \in Where(log, "failure") :
                                 i < f /\ \A g \in Where(log, "failure") : f <= g}
  IN  IF Where(log, "exit") # {} /\ Where(log, "signal") = {} THEN {}
      ELSE IF before # {} THEN {Max(before)}
      ELSE IF runs # {} THEN {Max(runs)} ELSE {}

\* _extract_failed_step: without a Run line, the first evidence line that mentions a step.
\* (A Run line that only changes directory stands for the last command of its block.)
FailedStep(log, evidence) ==
  IF FailedRun(log) # {} THEN log[CHOOSE i \in FailedRun(log) : TRUE].name
  ELSE IF Where(evidence, "step") # {} THEN evidence[Min(Where(evidence, "step"))].name
  ELSE "Unknown"

\* The first ten of the lines at these positions.
QuoteLines(evidence, S) == {Verbatim(evidence[i]) : i \in Foremost(S)}

RuleAnalyze(log, evidence) ==
  LET k == Best(evidence)
      r == Rules[k]
      n == Hits(evidence, r.category) IN
  IF n = 0 THEN [Unknown EXCEPT !.step = FailedStep(log, evidence),
                                !.evidence = QuoteLines(evidence, DOMAIN evidence)]
  ELSE [category   |-> r.category,
        confidence |-> AtMost(r.confidence + AtMost(n, 6), 99),
        severity   |-> Severity(r.category, r.confidence),
        evidence   |-> QuoteLines(evidence, {i \in DOMAIN evidence : r.category \in evidence[i].rules}),
        step       |-> FailedStep(log, evidence),
        provider   |-> "RULE_BASED"]

-----------------------------------------------------------------------------
(* The checks of services/ai.py. *)

Meaningful(log, evidence) ==
  /\ \E x \in ToSet(log) : ~ Is(x, "blank")
  /\ \E x \in ToSet(log) \cup ToSet(evidence) : Is(x, "meaningful")

\* Mutation of ShouldAllowAI: the log's contents are not looked at.
ShouldAllowAIAlways(rule, log, evidence) == rule.category = "UNKNOWN"

\* _should_allow_ai with AI enabled and configured: the rules are not sure, and there is
\* something to ask about, or nothing at all.
ShouldAllowAI(rule, log, evidence) ==
  /\ rule.category = "UNKNOWN" \/ rule.confidence < 70
  /\ (\E x \in ToSet(log) : ~ Is(x, "blank")) => Meaningful(log, evidence)

\* Mutation of EvidenceSupported: containing any line of the log is enough.
EvidenceSupportedLoosely(q, log, evidence) ==
  ~ Is(q.line, "blank") /\ q.line \in ToSet(evidence) \cup ToSet(log)

\* _evidence_supported: a text that is in the log, in an evidence line or around one.
EvidenceSupported(q, log, evidence) ==
  /\ ~ Is(q.line, "blank")
  /\ q.line \in ToSet(evidence) \cup (IF q.more THEN {} ELSE ToSet(log))

\* What is left of the quotations the provider offers, cut by _is_supported_ai_result.
AllowedEvidence(offered, log, evidence) ==
  {offered[i] : i \in Foremost({i \in DOMAIN offered : EvidenceSupported(offered[i], log, evidence)})}

\* _safe_ai_result: what the log does not support is taken out of the answer; the severity
\* is free text.
SafeAIResult(c, n, offered, step, log, evidence) ==
  [category   |-> c,
   confidence |-> n,
   severity   |-> "any",
   evidence   |-> AllowedEvidence(offered, log, evidence),
   step       |-> IF \E x \in LogLines : x.name = step /\ EvidenceSupported(Verbatim(x), log, evidence)
                  THEN step ELSE "Unknown",
   provider   |-> "GROQ"]

\* Mutation of IsSupportedAIResult: a category needs a confidence, but no evidence.
IsSupportedAIResultUngrounded(a, log, evidence, rule) ==
  /\ a.confidence < 35 => a.category = "UNKNOWN"
  /\ rule.category # "UNKNOWN" => a.category \in {rule.category, "UNKNOWN"}

\* _is_supported_ai_result of an answer that has been through SafeAIResult.
IsSupportedAIResult(a, log, evidence, rule) ==
  /\ a.confidence < 35 => a.category = "UNKNOWN"
  /\ rule.category # "UNKNOWN" => a.category \in {rule.category, "UNKNOWN"}
  /\ a.category = "UNKNOWN" \/ a.evidence # {} \/ Meaningful(log, evidence)

-----------------------------------------------------------------------------
(* handle_analyze_workflow_run between the log and the row. *)

\* A line of a log that is not empty is blank when it was nothing but its time stamp.
Receive(log) ==
  /\ diagnosis.phase = "waiting"
  /\ diagnosis' = [diagnosis EXCEPT !.phase = "processed", !.log = log, !.evidence = Evidence(log)]

\* The rules come first, whoever decides in the end.
Classify ==
  LET log == Excerpt(diagnosis.log)
      rule == RuleAnalyze(log, diagnosis.evidence) IN
  /\ diagnosis.phase = "processed"
  /\ diagnosis' = [diagnosis EXCEPT !.phase = "classified", !.rule = rule]

\* AI is disabled or not configured, or _should_allow_ai says no.
SkipAI ==
  /\ diagnosis.phase = "classified"
  /\ diagnosis' = [diagnosis EXCEPT !.phase = "decided", !.stored = diagnosis.rule]

AskProvider ==
  /\ diagnosis.phase = "classified"
  /\ ShouldAllowAI(diagnosis.rule, Excerpt(diagnosis.log), diagnosis.evidence)
  /\ diagnosis' = [diagnosis EXCEPT !.phase = "asking"]

\* A timeout, an error of the provider, no choices, no JSON, or a field AIResult refuses.
ProviderFails ==
  /\ diagnosis.phase = "asking"
  /\ diagnosis' = [diagnosis EXCEPT !.phase = "decided", !.stored = diagnosis.rule]

\* An answer that AIResult accepts, made safe.
ProviderAnswers(c, n, offered, step) ==
  /\ diagnosis.phase = "asking"
  /\ diagnosis' = [diagnosis EXCEPT
       !.phase = "answered",
       !.answer = SafeAIResult(c, n, offered, step, Excerpt(diagnosis.log), diagnosis.evidence)]

\* The answer counts if it is supported and the rules have no category of their own.
Decide ==
  LET a == diagnosis.answer
      rule == diagnosis.rule IN
  /\ diagnosis.phase = "answered"
  /\ diagnosis' = [diagnosis EXCEPT
       !.phase = "decided",
       !.stored = IF /\ IsSupportedAIResult(a, Excerpt(diagnosis.log), diagnosis.evidence, rule)
                     /\ rule.category = "UNKNOWN"
                  THEN a ELSE rule]

\* _canonicalize_persisted_result: the step the rules find in the whole log wins.
Persist ==
  LET step == FailedStep(Collapse(diagnosis.log), diagnosis.evidence) IN
  /\ diagnosis.phase = "decided"
  /\ diagnosis' = [diagnosis EXCEPT
       !.phase = "stored",
       !.stored.step = IF step = "Unknown" THEN @ ELSE step]

DiagnosisNext ==
  \/ \E n \in 1 .. MaxLog : \E log \in [1 .. n -> LogLines] : Receive(log)
  \/ Classify \/ SkipAI \/ AskProvider \/ ProviderFails \/ Decide \/ Persist
  \/ \E c \in AnswerCategories, n \in AnswerConfidences, step \in Steps, m \in 0 .. MaxAnswer :
       \E offered \in [1 .. m -> Quotations] : ProviderAnswers(c, n, offered, step)

DiagnosisSpec == DiagnosisInit /\ [][DiagnosisNext]_diagnosis

-----------------------------------------------------------------------------
ResultType == [category : Categories, confidence : 0 .. 100,
               severity : {"LOW", "MEDIUM", "HIGH", "CRITICAL", "any"}, evidence : SUBSET Quotations,
               step : Steps, provider : {"none", "RULE_BASED", "GROQ"}]

DiagnosisTypeOK ==
  diagnosis \in [phase : {"waiting", "processed", "classified", "asking", "answered", "decided",
                          "stored"},
                 log : Seq(LogLines), evidence : Seq(LogLines),
                 rule : ResultType, answer : ResultType, stored : ResultType]

Diagnostic(log) == {x \in ToSet(log) : Is(x, "diagnostic")}
Weight(log, k)  == Cardinality({x \in Diagnostic(log) : Rules[k].category \in x.rules})
                     * Rules[k].confidence

\* What is stored follows from the log (process_log to _canonicalize_persisted_result).
\* As long as the evidence limit cuts nothing off: if a rule recognizes a diagnostic line, a
\* rule of the greatest weight decides, in which a line counts once however often it is
\* repeated; otherwise a category is the provider's, given with confidence about a log
\* that shows something.  The step is from the log.  A quotation has a line of the log in it;
\* words of the provider's own stand around an evidence line only, never in what the rules say.
DiagnosisFollowsTheLog ==
  LET log == diagnosis.log
      d   == diagnosis.stored
      recognized == \E k \in DOMAIN Rules : Weight(log, k) > 0 IN
  diagnosis.phase = "stored" =>
    /\ \A q \in d.evidence : /\ q.line \in ToSet(log)
                             /\ q.more => q.line \in Diagnostic(log) /\ d.provider = "GROQ"
    /\ d.step = "Unknown" \/ \E x \in ToSet(log) : x.name = d.step
    /\ Cardinality(Diagnostic(log)) <= MaxEvidence =>
         IF recognized
         THEN /\ d.provider = "RULE_BASED"
              /\ \E k \in DOMAIN Rules :
                   /\ d.category = Rules[k].category
                   /\ \A l \in DOMAIN Rules : Weight(log, l) <= Weight(log, k)
         ELSE d.category # "UNKNOWN" =>
                /\ d.provider = "GROQ" /\ d.confidence >= 35
                /\ \E x \in ToSet(log) : Is(x, "meaningful")

\* What docs/architecture.md:19 and docs/interview-prep.md:246 say of the provider's answers:
\* evidence that is stored is text of the log; the model cannot invent any.
EvidenceIsNotInvented ==
  diagnosis.phase = "stored" =>
    \A q \in diagnosis.stored.evidence : ~ q.more /\ q.line \in ToSet(diagnosis.log)

=============================================================================
