------------------------------ MODULE Evaluation ------------------------------
(***************************************************************************)
(* The quality gates of agent/evaluation as pure operators: the verdict     *)
(* algebra, the three locked rule lists, the composite (fail-fast)          *)
(* evaluators and the factory that turns a strategy into a chain of them.   *)
(*                                                                          *)
(* A check that returns None is an empty set of results.  Scores are in     *)
(* tenths, affected_pct in thousandths.  What an LLM evaluator answers is   *)
(* any member of LLMResults; reasons and critiques are wording and are left *)
(* out, except that every FAIL has something to say (loop.py falls back on  *)
(* the reason).                                                             *)
(***************************************************************************)
EXTENDS Integers, Sequences, FiniteSets

CONSTANT LLMResults     \* what parse_evaluation_json may return

Verdicts == {"pass", "warn", "fail"}
Scores == {0, 5, 10}
Result == [verdict : Verdicts, score : Scores]

\* An LLM evaluator can always approve and always object.
ASSUME LLMAssumption ==
    /\ LLMResults \subseteq Result
    /\ \E r \in LLMResults : r.verdict = "pass"
    /\ \E r \in LLMResults : r.verdict = "fail"

Pass == [verdict |-> "pass", score |-> 10]
Warn == [verdict |-> "warn", score |-> 5]
Fail == [verdict |-> "fail", score |-> 0]

When(condition, result) == IF condition THEN {result} ELSE {}

-----------------------------------------------------------------------------
(* Combining results. *)

Worst(R) == CASE \E r \in R : r.verdict = "fail" -> "fail"
              [] \A r \in R : r.verdict = "pass" -> "pass"
              [] OTHER -> "warn"

LowestScore(R) == CHOOSE s \in Scores : /\ \E r \in R : r.score = s
                                        /\ \A r \in R : s <= r.score

\* _aggregate over the rules that fired and _merge over the evaluators asked:
\* the worst verdict and the lowest score, or a clean PASS when there are none.
Combine(R) == IF R = {} THEN Pass
              ELSE [verdict |-> Worst(R), score |-> LowestScore(R)]

-----------------------------------------------------------------------------
(* ACTION_RULES.  An action is a record whose "tool" says which; "wellFormed" *)
(* says whether action_input has the shape the tool requires.                 *)

\* Mutant of NoRepeatQuery: the last query is left out of the comparison.
NoEarlierQuery(a, queriesRun) ==
    When(a.tool = "run_query" /\ a.wellFormed
           /\ \E i \in 1..(Len(queriesRun) - 1) : queriesRun[i] = a.filter, Fail)

NoRepeatQuery(a, queriesRun) ==
    When(a.tool = "run_query" /\ a.wellFormed
           /\ \E i \in DOMAIN queriesRun : queriesRun[i] = a.filter, Fail)

\* Mutant of SampleBeforeQuery: statistics may be asked for at any time.
SampleBeforeFilter(a, sampled) ==
    When(a.tool \notin {"schema_sample", "get_stats", "conclude"} /\ ~sampled, Fail)

SampleBeforeQuery(a, sampled) ==
    When(a.tool \notin {"schema_sample", "conclude"} /\ ~sampled, Fail)

BudgetWarning(a, remaining) ==
    When(a.tool = "schema_sample" /\ remaining < 3, Warn)

ActionInputShape(a) ==
    When(a.tool \in {"run_query", "get_stats", "write_finding"} /\ ~a.wellFormed, Fail)

\* Every rule runs, and looking the operation of a get_stats up in a set of names raises
\* when it is a list or an object.
ActionRulesRaise(a) == a.tool = "get_stats" /\ ~a.hashable

ActionRules(a, queriesRun, sampled, remaining) ==
    Combine(NoRepeatQuery(a, queriesRun) \cup SampleBeforeQuery(a, sampled)
              \cup BudgetWarning(a, remaining) \cup ActionInputShape(a))

-----------------------------------------------------------------------------
(* FINDING_RULES.  A description is "empty", "short" (< 10 characters) or "full". *)

EvidenceRequired(f) == When(f.affected <= 0, Fail)
EvidenceQueryPresent(f) == When(~f.hasQuery, Fail)
SeverityCalibrationCritical(f) == When(f.severity = "critical" /\ f.pct < 10, Fail)
SeverityCalibrationHigh(f) == When(f.severity = "high" /\ f.pct < 1, Warn)
HypothesisPresent(f) == When(~f.hasHypothesis, Warn)
DescriptionPresent(f) == When(f.description # "full", Fail)

FindingRules(f) ==
    Combine(EvidenceRequired(f) \cup EvidenceQueryPresent(f)
              \cup SeverityCalibrationCritical(f) \cup SeverityCalibrationHigh(f)
              \cup HypothesisPresent(f) \cup DescriptionPresent(f))

-----------------------------------------------------------------------------
(* RUN_RULES, over the counts the rules read. *)

MinimumFieldCoverage(covered, total) == When(total > 0 /\ 2 * covered < total, Fail)
NoFindingsOnCleanCollection(committed, docs) == When(committed = 0 /\ docs > 1000, Warn)
EarlyTermination(iteration) == When(iteration < 3, Fail)

RunRules(covered, total, committed, docs, iteration) ==
    Combine(MinimumFieldCoverage(covered, total)
              \cup NoFindingsOnCleanCollection(committed, docs)
              \cup EarlyTermination(iteration))

-----------------------------------------------------------------------------
(* The factory: a strategy is the chain of evaluators a gate asks in order.  *)
(* The empty chain is a gate whose evaluator is None.                        *)

ActionStrategies == {"none", "rules", "composite"}
FindingStrategies == {"none", "rules", "self", "composite"}
RunStrategies == {"none", "rules", "self", "judge", "composite"}

ActionChain(strategy) == IF strategy = "none" THEN << >> ELSE <<"rules">>

FindingChain(strategy) == CASE strategy = "none" -> << >>
                            [] strategy = "composite" -> <<"rules", "self">>
                            [] OTHER -> <<strategy>>

RunChain(strategy, hasJudge) ==
    CASE strategy = "none" -> << >>
      [] strategy = "composite" /\ hasJudge -> <<"rules", "self", "judge">>
      [] strategy = "composite" /\ ~hasJudge -> <<"rules", "self">>
      [] OTHER -> <<strategy>>

-----------------------------------------------------------------------------
(* Asking a chain: in order, stopping at the first FAIL. *)

Answers(evaluator, ruled) == IF evaluator = "rules" THEN {ruled} ELSE LLMResults

\* Mutant of Consulted: the chain goes on after a FAIL and its last word counts.
LastWordOnly(chain, ruled) ==
    UNION { {<<r>> : r \in Answers(chain[n], ruled)} : n \in DOMAIN chain \ 1..(Len(chain) - 1) }

\* The answers collected from the prefix of the chain that was asked.
Consulted(chain, ruled) ==
    UNION { {rs \in [1..n -> {ruled} \cup LLMResults] :
                /\ \A i \in 1..n : rs[i] \in Answers(chain[i], ruled)
                /\ \A i \in 1..(n - 1) : rs[i].verdict # "fail"
                /\ n < Len(chain) => rs[n].verdict = "fail"}
          : n \in DOMAIN chain }

GateResults(chain, ruled) ==
    {Combine({rs[i] : i \in DOMAIN rs}) : rs \in Consulted(chain, ruled)}

\* Some LLM evaluator of the chain may be reached, and its call may raise.
MayRaise(chain, ruled) ==
    \E n \in DOMAIN chain :
        /\ chain[n] # "rules"
        /\ \A i \in 1..(n - 1) : \E r \in Answers(chain[i], ruled) : r.verdict # "fail"
=============================================================================
