--------------------------- MODULE AuditLoopProofs ---------------------------
(***************************************************************************)
(* Theorems about AuditLoop for every budget, every set of fields, filters, *)
(* proposals and configurations.                                            *)
(***************************************************************************)
EXTENDS AuditLoop, TLAPS

-----------------------------------------------------------------------------
(* The gates. *)

\* Merging results of the right type gives one: Combine has a worst verdict and a
\* lowest score whatever was collected.
LEMMA CombineType ==
    ASSUME NEW R \in SUBSET Result
    PROVE  Combine(R) \in Result
<1>1. CASE R = {}
  BY <1>1 DEF Combine, Pass, Result, Verdicts, Scores
<1>2. CASE R # {}
  <2>1. PICK r \in R : TRUE
    BY <1>2
  <2>2. \E s \in Scores : /\ \E q \in R : q.score = s
                          /\ \A q \in R : s <= q.score
    <3>1. \A q \in R : q.score = 0 \/ q.score = 5 \/ q.score = 10
      BY DEF Result, Scores
    <3>2. CASE \E q \in R : q.score = 0
      BY <3>1, <3>2 DEF Scores
    <3>3. CASE (\A q \in R : q.score # 0) /\ (\E q \in R : q.score = 5)
      BY <3>1, <3>3 DEF Scores
    <3>4. CASE \A q \in R : q.score # 0 /\ q.score # 5
      BY <2>1, <3>1, <3>4 DEF Scores
    <3> QED
      BY <3>2, <3>3, <3>4
  <2>3. LowestScore(R) \in Scores
    BY <2>2 DEF LowestScore
  <2>4. Worst(R) \in Verdicts
    BY DEF Worst, Verdicts
  <2> QED
    BY <1>2, <2>3, <2>4 DEF Combine, Result
<1> QED
  BY <1>1, <1>2

\* The worst verdict wins: a FAIL anywhere is a FAIL of the whole.
LEMMA CombineFails ==
    ASSUME NEW R, NEW r \in R, r.verdict = "fail"
    PROVE  Combine(R).verdict = "fail"
BY DEF Combine, Worst

\* A rule that fires gives its one result, one that does not gives none.
LEMMA WhenType ==
    ASSUME NEW condition \in BOOLEAN, NEW r \in Result
    PROVE  When(condition, r) \in SUBSET Result
BY DEF When

\* The results the rules return are results.
LEMMA RuleResults == Pass \in Result /\ Warn \in Result /\ Fail \in Result
BY DEF Pass, Warn, Fail, Result, Verdicts, Scores

\* The action rules give a result for any action and state.
LEMMA ActionRulesType ==
    ASSUME NEW a, NEW q, NEW s, NEW n
    PROVE  ActionRules(a, q, s, n) \in Result
<1>1. /\ NoRepeatQuery(a, q) \in SUBSET Result
      /\ SampleBeforeQuery(a, s) \in SUBSET Result
      /\ BudgetWarning(a, n) \in SUBSET Result
      /\ ActionInputShape(a) \in SUBSET Result
  BY RuleResults DEF NoRepeatQuery, SampleBeforeQuery, BudgetWarning, ActionInputShape, When
<1> QED
  BY <1>1, CombineType DEF ActionRules

\* The finding rules give a result for any candidate.
LEMMA FindingRulesType ==
    ASSUME NEW f
    PROVE  FindingRules(f) \in Result
<1>1. /\ EvidenceRequired(f) \in SUBSET Result
      /\ EvidenceQueryPresent(f) \in SUBSET Result
      /\ SeverityCalibrationCritical(f) \in SUBSET Result
      /\ SeverityCalibrationHigh(f) \in SUBSET Result
      /\ HypothesisPresent(f) \in SUBSET Result
      /\ DescriptionPresent(f) \in SUBSET Result
  BY RuleResults DEF EvidenceRequired, EvidenceQueryPresent, SeverityCalibrationCritical,
       SeverityCalibrationHigh, HypothesisPresent, DescriptionPresent, When
<1> QED
  BY <1>1, CombineType DEF FindingRules

\* The run rules give a result for any counts.
LEMMA RunRulesType ==
    ASSUME NEW c, NEW t, NEW k, NEW d, NEW i
    PROVE  RunRules(c, t, k, d, i) \in Result
<1>1. /\ MinimumFieldCoverage(c, t) \in SUBSET Result
      /\ NoFindingsOnCleanCollection(k, d) \in SUBSET Result
      /\ EarlyTermination(i) \in SUBSET Result
  BY RuleResults DEF MinimumFieldCoverage, NoFindingsOnCleanCollection, EarlyTermination, When
<1> QED
  BY <1>1, CombineType DEF RunRules

\* Whatever part of a chain is asked, the gate gives results.
LEMMA GateResultsType ==
    ASSUME NEW chain, NEW ruled \in Result
    PROVE  GateResults(chain, ruled) \subseteq Result
<1> SUFFICES ASSUME NEW rs \in Consulted(chain, ruled)
             PROVE  Combine({rs[i] : i \in DOMAIN rs}) \in Result
  BY DEF GateResults
<1>1. PICK n \in DOMAIN chain : rs \in [1..n -> {ruled} \cup LLMResults]
  BY DEF Consulted
<1>2. {ruled} \cup LLMResults \subseteq Result
  BY LLMAssumption
<1>3. {rs[i] : i \in DOMAIN rs} \in SUBSET Result
  BY <1>1, <1>2
<1> QED
  BY <1>3, CombineType

\* What the rules reject no evaluator after them can let through.
LEMMA RuledFailIsFinal ==
    ASSUME NEW chain, NEW ruled, 1 \in DOMAIN chain, DOMAIN chain \subseteq Nat \ {0},
           chain[1] = "rules", ruled.verdict = "fail",
           NEW r \in GateResults(chain, ruled)
    PROVE  r.verdict = "fail"
<1>1. PICK rs \in Consulted(chain, ruled) : r = Combine({rs[i] : i \in DOMAIN rs})
  BY DEF GateResults
<1>2. PICK n \in DOMAIN chain :
        /\ rs \in [1..n -> {ruled} \cup LLMResults]
        /\ \A i \in 1..n : rs[i] \in Answers(chain[i], ruled)
  BY <1>1 DEF Consulted
<1>3. 1 \in 1..n /\ 1 \in DOMAIN rs
  BY <1>2
<1>4. rs[1] = ruled
  BY <1>2, <1>3 DEF Answers
<1>5. ruled \in {rs[i] : i \in DOMAIN rs}
  BY <1>3, <1>4
<1> QED
  BY <1>1, <1>5, CombineFails

\* A candidate the finding rules do not fail has evidence, a query and a description,
\* and is broad when it is CRITICAL.
LEMMA FindingRulesSound ==
    ASSUME NEW f, FindingRules(f).verdict # "fail"
    PROVE  /\ ~(f.affected <= 0) /\ f.hasQuery /\ f.description = "full"
           /\ f.severity = "critical" => ~(f.pct < 10)
<1> DEFINE R == EvidenceRequired(f) \cup EvidenceQueryPresent(f)
                  \cup SeverityCalibrationCritical(f) \cup SeverityCalibrationHigh(f)
                  \cup HypothesisPresent(f) \cup DescriptionPresent(f)
<1>1. Fail \notin R
  BY CombineFails DEF FindingRules, Fail
<1> QED
  BY <1>1 DEF EvidenceRequired, EvidenceQueryPresent, SeverityCalibrationCritical,
       DescriptionPresent, When

\* A gate without an evaluator gives no verdict, any other gives results.
LEMMA ChainDomains ==
    ASSUME TypeOK
    PROVE  /\ DOMAIN FindingChain(config.finding) \subseteq Nat \ {0}
           /\ RulesGateFindings => /\ 1 \in DOMAIN FindingChain(config.finding)
                                   /\ FindingChain(config.finding)[1] = "rules"
BY DEF FindingChain, RulesGateFindings

-----------------------------------------------------------------------------
(* Type correctness. *)

\* An observation made in an iteration is well-typed.
LEMMA ObserveType ==
    ASSUME NEW what \in {"schema_sample", "run_query", "get_stats", "write_finding", "error",
                         "demotion"},
           NEW word \in BOOLEAN, iteration \in 1..Budget
    PROVE  Observe(what, word) \in Observation
BY DEF Observe, Observation

\* An evaluation record made in an iteration is well-typed.
LEMMA RecordType ==
    ASSUME NEW gate \in {"action", "finding", "run"}, NEW r \in Result,
           NEW target \in FindingId \cup {None}, iteration \in 1..Budget
    PROVE  Record(gate, r, target) \in EvaluationRecord
BY DEF Record, EvaluationRecord, Result

\* Logging a result keeps the trail well-typed.
LEMMA LogType ==
    ASSUME NEW gate \in {"action", "finding", "run"}, NEW r \in Result,
           NEW target \in FindingId \cup {None}, iteration \in 1..Budget,
           records \in Seq(EvaluationRecord), Log(gate, r, target)
    PROVE  records' \in Seq(EvaluationRecord)
BY RecordType DEF Log

\* A constructible write_finding yields a well-typed candidate, its percentage clamped.
LEMMA CandidateType ==
    ASSUME TypeOK, NEW a \in FindingInput, Constructible(a), iteration \in 1..Budget
    PROVE  Candidate(a) \in Finding
<1>1. AffectedPct(a) \in 0..1000
  <2>1. docsSampled \in Nat
    BY DEF TypeOK
  <2>2. a.pct \in Int /\ a.affected \in Int /\ a.affected >= 0
    BY DEF FindingInput, Constructible
  <2>3. docsSampled # 0 => (a.affected * 1000) \div docsSampled \in Int
    BY <2>1, <2>2
  <2>4. \A n \in Int : Clamp(n) \in 0..1000
    BY DEF Clamp
  <2> QED
    BY <2>2, <2>3, <2>4 DEF AffectedPct
<1>2. <<"candidate", iteration>> \in FindingId
  BY DEF FindingId
<1>3. /\ a.field \in Fields /\ a.category \in Categories /\ a.affected \in Nat
      /\ a.hasQuery \in BOOLEAN /\ a.hasHypothesis \in BOOLEAN
      /\ a.description \in {"short", "full"}
  <2>1. /\ a.field \in Fields \cup {""} /\ a.category \in Categories \cup {""}
        /\ a.affected \in Int /\ a.hasQuery \in BOOLEAN /\ a.hasHypothesis \in BOOLEAN
        /\ a.description \in {"empty", "short", "full"}
    BY DEF FindingInput
  <2>2. a.field # "" /\ a.category # "" /\ a.affected >= 0 /\ a.description # "empty"
    BY DEF Constructible
  <2>3. a.affected \in Nat
    <3>1. \A n \in Int : n >= 0 => n \in Nat
      OBVIOUS
    <3> QED
      BY <2>1, <2>2, <3>1
  <2>4. a.field \in Fields /\ a.category \in Categories
    BY <2>1, <2>2
  <2>5. a.description \in {"short", "full"}
    BY <2>1, <2>2
  <2> QED
    BY <2>1, <2>3, <2>4, <2>5
<1>4. (IF a.severity \in Severities THEN a.severity ELSE "medium") \in Severities
  BY DEF Severities
<1> QED
  BY <1>1, <1>2, <1>3, <1>4 DEF Candidate, Finding

\* Committing a well-typed candidate keeps the collector well-typed.
LEMMA WriteType ==
    ASSUME TypeOK, NEW c \in Finding, iteration \in 1..Budget, Write(c)
    PROVE  /\ findings' \in [Keys -> Assessment \cup {None}]
           /\ concluded' \in SUBSET Fields
<1>1. <<c.field, c.category>> \in Keys
  BY DEF Finding, Keys
<1>2. \A e \in Assessment \cup {None} : Stored(c, e) \in Assessment
  <2> SUFFICES ASSUME NEW e \in Assessment \cup {None}
               PROVE  Stored(c, e) \in Assessment
    OBVIOUS
  <2>1. (IF e = None THEN <<"finding", iteration>> ELSE e.id) \in FindingId
    BY DEF FindingId, Assessment
  <2> QED
    BY <2>1 DEF Stored, Finding, Assessment
<1>3. findings \in [Keys -> Assessment \cup {None}] /\ concluded \in SUBSET Fields
  BY DEF TypeOK
<1>4. c.field \in Fields
  BY DEF Finding
<1>5. Stored(c, findings[<<c.field, c.category>>]) \in Assessment
  BY <1>1, <1>2, <1>3
<1> QED
  BY <1>1, <1>3, <1>4, <1>5 DEF Write

\* The action dispatched as a write_finding is one.
LEMMA DispatchedFinding ==
    ASSUME TypeOK, Dispatching("write_finding")
    PROVE  action \in FindingInput
<1>1. action \in AgentAction /\ action.tool = "write_finding"
  BY DEF TypeOK, Dispatching
<1> QED
  BY <1>1 DEF AgentAction, StatsInput

\* The finding gate gives results.
LEMMA FindingVerdictsType ==
    ASSUME NEW c
    PROVE  FindingVerdicts(c) \subseteq Result
<1>1. FindingRules(c) \in Result
  BY FindingRulesType
<1>2. GateResults(FindingChain(config.finding), FindingRules(c)) \subseteq Result
  BY <1>1, GateResultsType
<1> QED
  BY <1>2 DEF FindingVerdicts

\* The run gate gives results.
LEMMA RunVerdictsType == RunVerdicts \subseteq Result
<1>1. RunRuled \in Result
  BY RunRulesType DEF RunRuled
<1>2. GateResults(RunChainOf, RunRuled) \subseteq Result
  BY <1>1, GateResultsType
<1> QED
  BY <1>2 DEF RunVerdicts

\* What a commit leaves as the last observation is well-typed.
LEMMA AnnounceType ==
    ASSUME NEW before \in Observation \cup {None}, iteration \in 1..Budget, Announce(before)
    PROVE  observation' \in Observation
BY ObserveType, LoopAssumption DEF Announce

\* The budget is a positive natural number.
LEMMA BudgetType == Budget \in Nat /\ Budget > 0
<1>1. Budget \in Nat \ {0}
  BY LoopAssumption
<1> QED
  BY <1>1

\* A run starts well-typed.
LEMMA InitTypeOK == Init => TypeOK
<1> SUFFICES ASSUME Init PROVE TypeOK
  OBVIOUS
<1>1. pc = "propose" /\ iteration = 0 /\ iteration \in 0..Budget
  BY BudgetType DEF Init
<1>2. findings \in [Keys -> Assessment \cup {None}]
  BY DEF Init
<1> QED
  BY <1>1, <1>2 DEF Init, TypeOK, Sampled

\* Every step of the loop keeps every variable in its type.
LEMMA NextTypeOK == TypeOK /\ [Next]_vars => TypeOK'
<1> SUFFICES ASSUME TypeOK, [Next]_vars PROVE TypeOK'
  OBVIOUS
<1>0. Budget \in Nat /\ iteration \in Nat /\ (pc # "propose" => iteration \in 1..Budget)
  BY BudgetType DEF TypeOK
<1>1. ASSUME NEW a \in Proposals, Propose(a) PROVE TypeOK'
  <2>1. a \in AgentAction /\ a # None
    BY LoopAssumption, NoneAssumption
  <2>2. iteration' \in 1..Budget
    BY <1>0, <1>1 DEF Propose, BudgetLeft
  <2>3. history' \in Seq([action : AgentAction, continued : BOOLEAN])
    BY <1>1, <2>1 DEF Propose, TypeOK
  <2> QED
    BY <1>0, <1>1, <2>1, <2>2, <2>3 DEF Propose, TypeOK, Sampled, readVars, findingVars
<1>2. CASE PlannerRaises
  <2>1. iteration' \in 1..Budget
    BY <1>0, <1>2 DEF PlannerRaises, BudgetLeft
  <2> QED
    BY <1>0, <1>2, <2>1 DEF PlannerRaises, TypeOK, Sampled, readVars, findingVars
<1>3. CASE SkipActionGate
  BY <1>0, <1>3 DEF SkipActionGate, TypeOK, Sampled, readVars, findingVars
<1>4. CASE GateAction
  <2>1. ActionVerdict \in Result
    BY ActionRulesType DEF ActionVerdict
  <2>2. records' \in Seq(EvaluationRecord)
    BY <1>0, <1>4, <2>1, LogType DEF GateAction, TypeOK
  <2>3. critique' \in CritiqueType \cup {None}
    BY <1>0, <1>4 DEF GateAction, TypeOK, Critique, CritiqueType
  <2> QED
    BY <1>0, <1>4, <2>2, <2>3 DEF GateAction, TypeOK, Sampled, readVars, findingVars
<1>5. CASE SchemaSample
  <2>1. schema' \in SUBSET Fields /\ docsSampled' \in Nat
    BY <1>5, LoopAssumption DEF SchemaSample, TypeOK
  <2>2. observation' \in Observation
    BY <1>0, <1>5, ObserveType DEF SchemaSample, Dispatching
  <2> QED
    BY <1>0, <1>5, <2>1, <2>2 DEF SchemaSample, TypeOK, Sampled, readVars, findingVars
<1>6. CASE RunQuery
  <2>1. PICK filter \in Filters : /\ queriesRun' = Append(queriesRun, filter)
                                  /\ investigated' = investigated \cup FilterFields[filter]
    <3>1. action.wellFormed => action.filter \in Filters
      BY <1>6, LoopAssumption DEF RunQuery, Dispatching, TypeOK, AgentAction, StatsInput,
         FindingInput
    <3> QED
      BY <1>6, <3>1, LoopAssumption DEF RunQuery
  <2>2. queriesRun' \in Seq(Filters) /\ investigated' \in SUBSET Fields
    <3>1. FilterFields[filter] \in SUBSET Fields
      BY LoopAssumption
    <3>2. queriesRun \in Seq(Filters) /\ investigated \in SUBSET Fields
      BY DEF TypeOK
    <3> QED
      BY <2>1, <3>1, <3>2
  <2>3. observation' \in Observation
    BY <1>0, <1>6, ObserveType, LoopAssumption DEF RunQuery, Dispatching
  <2> QED
    BY <1>0, <1>6, <2>2, <2>3 DEF RunQuery, TypeOK, Sampled, readVars, findingVars
<1>7. CASE GetStats
  <2>1. action.field \in Fields
    BY <1>7, LoopAssumption DEF GetStats, Dispatching, TypeOK, AgentAction, StatsInput, FindingInput
  <2>2. observation' \in Observation
    BY <1>0, <1>7, ObserveType, LoopAssumption DEF GetStats, Dispatching
  <2> QED
    BY <1>0, <1>7, <2>1, <2>2 DEF GetStats, TypeOK, Sampled, readVars, findingVars
<1>8. CASE ToolRaises
  <2>1. observation' \in Observation
    BY <1>0, <1>8, ObserveType, LoopAssumption DEF ToolRaises
  <2>2. critique' \in CritiqueType
    BY <1>0, <1>8 DEF ToolRaises, Explain, Critique, CritiqueType
  <2> QED
    BY <1>0, <1>8, <2>1, <2>2 DEF ToolRaises, TypeOK, Sampled, readVars, findingVars
<1>9. CASE RejectFinding
  <2>1. Candidate(action) \in Finding
    BY <1>0, <1>9, DispatchedFinding, CandidateType DEF RejectFinding, Dispatching
  <2>2. Candidate(action).id \in FindingId
    BY <2>1 DEF Finding
  <2>3. records' \in Seq(EvaluationRecord)
    BY <1>0, <1>9, <2>2, LogType, FindingVerdictsType DEF RejectFinding, Dispatching, TypeOK
  <2>4. /\ dismissed' \in Seq(Finding)
        /\ critique' \in CritiqueType \cup {None}
    <3> DEFINE rejected == Candidate(action)
    <3>1. rejected \in Finding /\ dismissed \in Seq(Finding)
      BY <2>1 DEF TypeOK
    <3>2. CASE UNCHANGED <<dismissed, critique>>
      BY <3>2 DEF TypeOK
    <3>3. CASE Dismiss(rejected)
      <4>1. dismissed' = Append(dismissed, rejected) /\ critique' = Critique("finding")
        BY <3>3 DEF Dismiss
      <4>2. Critique("finding") \in CritiqueType
        BY <1>0, <1>9 DEF Critique, CritiqueType, RejectFinding, Dispatching
      <4> HIDE DEF rejected
      <4> QED
        BY <3>1, <4>1, <4>2
    <3> QED
      BY <1>9, <3>2, <3>3 DEF RejectFinding
  <2>5. observation' \in Observation
    BY <1>0, <1>9, ObserveType DEF RejectFinding, Dispatching
  <2> QED
    BY <1>0, <1>9, <2>3, <2>4, <2>5 DEF RejectFinding, TypeOK, Sampled, readVars
<1>10. CASE CommitFinding
  <2>1. Candidate(action) \in Finding
    BY <1>0, <1>10, DispatchedFinding, CandidateType DEF CommitFinding, Dispatching
  <2>2. Candidate(action).id \in FindingId
    BY <2>1 DEF Finding
  <2>3. records' \in Seq(EvaluationRecord)
    BY <1>0, <1>10, <2>2, LogType, FindingVerdictsType DEF CommitFinding, Dispatching, TypeOK
  <2>4. findings' \in [Keys -> Assessment \cup {None}] /\ concluded' \in SUBSET Fields
    BY <1>0, <1>10, <2>1, WriteType DEF CommitFinding, Dispatching
  <2>5. observation' \in Observation
    BY <1>0, <1>10, AnnounceType DEF CommitFinding, Dispatching, TypeOK
  <2> QED
    BY <1>0, <1>10, <2>3, <2>4, <2>5 DEF CommitFinding, TypeOK, Sampled, readVars
<1>11. CASE DemoteFinding
  <2> DEFINE c == Candidate(action)
             d == [c EXCEPT !.severity = Demote(@)]
  <2>1. c \in Finding
    BY <1>0, <1>11, DispatchedFinding, CandidateType DEF DemoteFinding, Dispatching
  <2>2. c.id \in FindingId
    BY <2>1 DEF Finding
  <2>3. d \in Finding
    <3>1. Demote(c.severity) \in Severities
      BY DEF Demote, Severities
    <3> QED
      BY <2>1, <3>1 DEF Finding
  <2>4. records' \in Seq(EvaluationRecord)
    BY <1>0, <1>11, <2>2, LogType, FindingVerdictsType DEF DemoteFinding, Dispatching, TypeOK
  <2>5. findings' \in [Keys -> Assessment \cup {None}] /\ concluded' \in SUBSET Fields
    BY <1>0, <1>11, <2>3, WriteType DEF DemoteFinding, Dispatching
  <2>6. observation' \in Observation
    <3>1. PICK word \in Echoes : Announce(Observe("demotion", word))
      BY <1>11 DEF DemoteFinding
    <3>2. Observe("demotion", word) \in Observation
      BY <1>0, <1>11, <3>1, ObserveType, LoopAssumption DEF DemoteFinding, Dispatching
    <3> QED
      BY <1>0, <1>11, <3>1, <3>2, AnnounceType DEF DemoteFinding, Dispatching
  <2> QED
    BY <1>0, <1>11, <2>4, <2>5, <2>6 DEF DemoteFinding, TypeOK, Sampled, readVars
<1>12. CASE RejectConclusion
  <2>1. PICK r \in RunVerdicts : GoesOn(r) /\ Log("run", r, None) /\ runEvaluation' = r
    BY <1>12 DEF RejectConclusion
  <2>2. pc = "dispatch" /\ iteration \in 1..Budget
    BY <1>0, <2>1 DEF GoesOn, Dispatching
  <2>3. records' \in Seq(EvaluationRecord) /\ runEvaluation' \in Result
    BY <2>1, <2>2, LogType, RunVerdictsType DEF TypeOK
  <2>4. history' \in Seq([action : AgentAction, continued : BOOLEAN])
    <3> DEFINE entry == [action : AgentAction, continued : BOOLEAN]
    <3>1. history \in Seq(entry)
      BY DEF TypeOK
    <3>2. history' = [history EXCEPT ![Len(history)].continued = TRUE]
      BY <1>12 DEF RejectConclusion
    <3>3. \A e \in entry : [e EXCEPT !.continued = TRUE] \in entry
      OBVIOUS
    <3>4. /\ DOMAIN history' = DOMAIN history
          /\ \A i \in DOMAIN history :
                history'[i] = history[i] \/ history'[i] = [history[i] EXCEPT !.continued = TRUE]
      BY <3>2
    <3>5. \A i \in DOMAIN history : history[i] \in entry
      <4> HIDE DEF entry
      <4> QED
        BY <3>1
    <3>6. \A i \in DOMAIN history : history'[i] \in entry
      <4> SUFFICES ASSUME NEW i \in DOMAIN history PROVE history'[i] \in entry
        OBVIOUS
      <4>1. history[i] \in entry /\ [history[i] EXCEPT !.continued = TRUE] \in entry
        BY <3>3, <3>5
      <4>2. CASE history'[i] = history[i]
        BY <4>1, <4>2
      <4>3. CASE history'[i] = [history[i] EXCEPT !.continued = TRUE]
        <5> HIDE DEF entry
        <5> QED
          BY <4>1, <4>3
      <4> QED
        BY <3>4, <4>2, <4>3
    <3>7. history' = [i \in DOMAIN history |-> history'[i]]
      BY <3>2, <3>4
    <3> HIDE DEF entry
    <3>8. history' \in [1..Len(history) -> entry] /\ Len(history) \in Nat
      BY <3>1, <3>6, <3>7
    <3>9. history' \in Seq(entry)
      BY <3>8
    <3> QED
      BY <3>9 DEF entry
  <2>5. critique' \in CritiqueType
    BY <1>12, <2>2 DEF RejectConclusion, Critique, CritiqueType
  <2> QED
    BY <1>0, <1>12, <2>3, <2>4, <2>5 DEF RejectConclusion, TypeOK, Sampled, readVars, findingVars
<1>13. CASE EndRun
  <2>1. iteration \in 1..Budget
    BY <1>0, <1>13, BudgetType DEF EndRun, Closing, Dispatching
  <2>2. records' \in Seq(EvaluationRecord) /\ runEvaluation' \in Result \cup {None}
    BY <1>13, <2>1, LogType, RunVerdictsType DEF EndRun, TypeOK
  <2> QED
    BY <1>0, <1>13, <2>1, <2>2 DEF EndRun, TypeOK, Sampled, readVars, findingVars
<1>14. CASE RunGateRaises
  <2>1. iteration \in 1..Budget
    BY <1>0, <1>14, BudgetType DEF RunGateRaises, Closing, Dispatching
  <2> QED
    BY <1>0, <1>14, <2>1 DEF RunGateRaises, TypeOK, Sampled, readVars, findingVars
<1>15. CASE ActionGateRaises
  BY <1>0, <1>15 DEF ActionGateRaises, TypeOK, Sampled, readVars, findingVars
<1>16. CASE UNCHANGED vars
  BY <1>16 DEF TypeOK, Sampled, vars, readVars, findingVars
<1> QED
  BY <1>1, <1>2, <1>3, <1>4, <1>5, <1>6, <1>7, <1>8, <1>9, <1>10, <1>11, <1>12, <1>13, <1>14,
     <1>15, <1>16 DEF Next, Step, Dispatch, Terminated

\* Every variable of a run keeps its type, whatever the budget, the proposals, the
\* configuration and the answers of the evaluators.
THEOREM TypeCorrect == Spec => []TypeOK
<1>1. Init => TypeOK
  BY InitTypeOK
<1>2. TypeOK /\ [Next]_vars => TypeOK'
  BY NextTypeOK
<1> QED
  BY <1>1, <1>2, PTL DEF Spec
=============================================================================
