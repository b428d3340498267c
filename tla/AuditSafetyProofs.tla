--------------------------- MODULE AuditSafetyProofs ---------------------------
(***************************************************************************)
(* What the gates of AuditLoop guarantee and what never leaves its          *)
(* collector, and that the loop implements its contract, proved for every   *)
(* value of the constants from its type invariant and, where an invariant   *)
(* is not inductive, one strengthening.                                     *)
(***************************************************************************)
EXTENDS AuditLoopProofs, FiniteSetTheorems

-----------------------------------------------------------------------------
(* What the finding gate lets into the collector. *)

\* With rules first in the chain, a candidate that the gate does not fail meets them.
LEMMA GatedFindingSound ==
    ASSUME TypeOK, RulesGateFindings, NEW c, NEW r \in FindingVerdicts(c), r.verdict # "fail"
    PROVE  /\ ~(c.affected <= 0) /\ c.hasQuery /\ c.description = "full"
           /\ c.severity = "critical" => ~(c.pct < 10)
<1> DEFINE chain == FindingChain(config.finding)
<1>1. 1 \in DOMAIN chain /\ chain[1] = "rules" /\ DOMAIN chain \subseteq Nat \ {0}
  BY ChainDomains
<1>2. r \in GateResults(chain, FindingRules(c))
  BY DEF FindingVerdicts
<1>3. FindingRules(c).verdict # "fail"
  BY <1>1, <1>2, RuledFailIsFinal
<1> QED
  BY <1>3, FindingRulesSound

\* What one committed entry must be.
EntryMeetsRules(e) == e.affected > 0 /\ e.hasQuery /\ e.description = "full"
EntryIsBroad(e) == e.severity = "critical" => e.pct >= 10

\* Write changes one key of the collector, whose entry is the candidate's assessment.
LEMMA WrittenEntry ==
    ASSUME TypeOK, NEW c \in Finding, Write(c), NEW k \in Keys, findings'[k] # None
    PROVE  \/ findings'[k] = findings[k]
           \/ /\ k = <<c.field, c.category>>
              /\ findings'[k].severity = c.severity /\ findings'[k].affected = c.affected
              /\ findings'[k].pct = c.pct /\ findings'[k].hasQuery = c.hasQuery
              /\ findings'[k].description = c.description
<1>1. findings \in [Keys -> Assessment \cup {None}]
  BY DEF TypeOK
<1> QED
  BY <1>1 DEF Write, Stored

\* Only CommitFinding and DemoteFinding touch the collector.
LEMMA CollectorSteps ==
    ASSUME [Next]_vars
    PROVE  UNCHANGED <<findings, concluded>> \/ CommitFinding \/ DemoteFinding
BY DEF Next, Step, Dispatch, Propose, PlannerRaises, SkipActionGate, GateAction, ActionGateRaises,
     SchemaSample, RunQuery, GetStats, ToolRaises, RejectFinding, RejectConclusion, EndRun,
     RunGateRaises, Terminated, findingVars, readVars, vars

\* The configuration never changes.
LEMMA ConfigConstant ==
    ASSUME [Next]_vars
    PROVE  config' = config
BY DEF Next, Step, Dispatch, Propose, PlannerRaises, SkipActionGate, GateAction, ActionGateRaises,
     SchemaSample, RunQuery, GetStats, ToolRaises, RejectFinding, CommitFinding, DemoteFinding,
     RejectConclusion, EndRun, RunGateRaises, Terminated, vars

\* The candidate of a dispatched, constructible write_finding is a well-typed finding.
LEMMA CandidateOfDispatch ==
    ASSUME TypeOK, Dispatching("write_finding"), Constructible(action)
    PROVE  Candidate(action) \in Finding /\ iteration \in 1..Budget
<1>1. iteration \in 1..Budget
  BY BudgetType DEF TypeOK, Dispatching
<1> QED
  BY <1>1, DispatchedFinding, CandidateType

\* Demotion keeps a finding well-typed.
LEMMA DemotedFinding ==
    ASSUME NEW c \in Finding
    PROVE  /\ [c EXCEPT !.severity = Demote(@)] \in Finding
           /\ [c EXCEPT !.severity = Demote(@)].severity # "critical"
<1>1. Demote(c.severity) \in Severities /\ Demote(c.severity) # "critical"
  BY DEF Demote, Severities
<1> QED
  BY <1>1 DEF Finding

\* With rules in the finding gate, committed findings have evidence, a query and a real
\* description unless rejected ones are demoted: the rules come first in the chain and
\* the worst verdict counts, so no evaluator after them can let a finding in.
THEOREM CommittedMeetRulesAlways == Spec => []CommittedMeetRules
<1>1. Init => CommittedMeetRules
  BY DEF Init, CommittedMeetRules, Committed
<1>2. TypeOK /\ CommittedMeetRules /\ [Next]_vars => CommittedMeetRules'
  <2> SUFFICES ASSUME TypeOK, CommittedMeetRules, [Next]_vars,
                      RulesGateFindings, config.rejectedPolicy # "demote_severity",
                      NEW k \in Keys, findings'[k] # None
               PROVE  EntryMeetsRules(findings'[k])
    BY ConfigConstant DEF CommittedMeetRules, RulesGateFindings, Committed, EntryMeetsRules
  <2>1. findings[k] # None => EntryMeetsRules(findings[k])
    BY DEF CommittedMeetRules, Committed, EntryMeetsRules
  <2>2. CASE CommitFinding
    <3> DEFINE c == Candidate(action)
    <3>1. c \in Finding
      BY <2>2, CandidateOfDispatch DEF CommitFinding
    <3>2. PICK r \in FindingVerdicts(c) : r.verdict # "fail"
      <4>1. FindingChain(config.finding) # << >>
        BY ChainDomains
      <4> QED
        BY <2>2, <4>1 DEF CommitFinding
    <3>3. ~(c.affected <= 0) /\ c.hasQuery /\ c.description = "full"
      BY <3>2, GatedFindingSound
    <3>4. c.affected > 0
      BY <3>1, <3>3 DEF Finding
    <3>5. Write(c)
      BY <2>2 DEF CommitFinding
    <3> HIDE DEF c
    <3> QED
      BY <2>1, <3>1, <3>3, <3>4, <3>5, WrittenEntry DEF EntryMeetsRules
  <2>3. CASE DemoteFinding
    BY <2>3 DEF DemoteFinding
  <2>4. CASE UNCHANGED <<findings, concluded>>
    BY <2>1, <2>4
  <2> QED
    BY <2>2, <2>3, <2>4, CollectorSteps
<1> QED
  BY <1>1, <1>2, TypeCorrect, PTL DEF Spec

\* With rules in the finding gate, a committed CRITICAL finding affects at least 1% of
\* the documents under every policy.
THEOREM CriticalIsBroadAlways == Spec => []CriticalIsBroad
<1>1. Init => CriticalIsBroad
  BY DEF Init, CriticalIsBroad, Committed
<1>2. TypeOK /\ CriticalIsBroad /\ [Next]_vars => CriticalIsBroad'
  <2> SUFFICES ASSUME TypeOK, CriticalIsBroad, [Next]_vars, RulesGateFindings,
                      NEW k \in Keys, findings'[k] # None
               PROVE  EntryIsBroad(findings'[k])
    BY ConfigConstant DEF CriticalIsBroad, RulesGateFindings, Committed, EntryIsBroad
  <2>1. findings[k] # None => EntryIsBroad(findings[k])
    BY DEF CriticalIsBroad, Committed, EntryIsBroad
  <2>2. CASE CommitFinding
    <3> DEFINE c == Candidate(action)
    <3>1. c \in Finding
      BY <2>2, CandidateOfDispatch DEF CommitFinding
    <3>2. PICK r \in FindingVerdicts(c) : r.verdict # "fail"
      <4>1. FindingChain(config.finding) # << >>
        BY ChainDomains
      <4> QED
        BY <2>2, <4>1 DEF CommitFinding
    <3>3. c.severity = "critical" => ~(c.pct < 10)
      BY <3>2, GatedFindingSound
    <3>4. c.severity = "critical" => c.pct >= 10
      BY <3>1, <3>3 DEF Finding
    <3>5. Write(c)
      BY <2>2 DEF CommitFinding
    <3> HIDE DEF c
    <3> QED
      BY <2>1, <3>1, <3>4, <3>5, WrittenEntry DEF EntryIsBroad
  <2>3. CASE DemoteFinding
    <3> DEFINE d == [Candidate(action) EXCEPT !.severity = Demote(@)]
    <3>1. d \in Finding /\ d.severity # "critical"
      BY <2>3, CandidateOfDispatch, DemotedFinding DEF DemoteFinding
    <3>2. Write(d)
      BY <2>3 DEF DemoteFinding
    <3> HIDE DEF d
    <3> QED
      BY <2>1, <3>1, <3>2, WrittenEntry DEF EntryIsBroad
  <2>4. CASE UNCHANGED <<findings, concluded>>
    BY <2>1, <2>4
  <2> QED
    BY <2>2, <2>3, <2>4, CollectorSteps
<1> QED
  BY <1>1, <1>2, TypeCorrect, PTL DEF Spec

-----------------------------------------------------------------------------
(* The run gate. *)

\* Only the end of the run, by EndRun, reaches "done", and it stays there.
LEMMA RunOverSteps ==
    ASSUME [Next]_vars, pc' = "done"
    PROVE  EndRun \/ UNCHANGED <<pc, runEvaluation, config, iteration>>
BY DEF Next, Step, Dispatch, Propose, PlannerRaises, SkipActionGate, GateAction, ActionGateRaises,
     SchemaSample, RunQuery, GetStats, ToolRaises, RejectFinding, CommitFinding, DemoteFinding,
     RejectConclusion, EndRun, RunGateRaises, Terminated, vars

\* Under "continue" a report with a failed run gate has used its whole budget.
THEOREM FailedRunUsedItsBudgetAlways == Spec => []FailedRunUsedItsBudget
<1>1. Init => FailedRunUsedItsBudget
  BY DEF Init, FailedRunUsedItsBudget
<1>2. TypeOK /\ FailedRunUsedItsBudget /\ [Next]_vars => FailedRunUsedItsBudget'
  <2> SUFFICES ASSUME TypeOK, FailedRunUsedItsBudget, [Next]_vars, pc' = "done",
                      runEvaluation' # None, runEvaluation'.verdict = "fail",
                      config'.runFailPolicy = "continue"
               PROVE  iteration' = Budget
    BY DEF FailedRunUsedItsBudget
  <2>1. CASE EndRun
    <3>1. PICK r : ~GoesOn(r) /\ runEvaluation' = r
      BY <2>1 DEF EndRun
    <3>2. UNCHANGED <<config, iteration>>
      BY <2>1 DEF EndRun
    <3>3. ~Dispatching("conclude") \/ ~(Budget - iteration > 0)
      BY <3>1, <3>2 DEF GoesOn, RemainingBudget
    <3>4. Budget \in Nat /\ iteration \in 0..Budget
      BY BudgetType DEF TypeOK
    <3>5. Dispatching("conclude") \/ iteration = Budget
      BY <2>1 DEF EndRun, Closing
    <3> QED
      BY <3>2, <3>3, <3>4, <3>5
  <2>2. CASE UNCHANGED <<pc, runEvaluation, config, iteration>>
    BY <2>2 DEF FailedRunUsedItsBudget
  <2> QED
    BY <2>1, <2>2, RunOverSteps
<1> QED
  BY <1>1, <1>2, TypeCorrect, PTL DEF Spec

-----------------------------------------------------------------------------
(* The collector. *)

\* Write keeps every entry under its id and adds one for the candidate's key.
LEMMA WriteGrows ==
    ASSUME TypeOK, NEW c \in Finding, iteration \in 1..Budget, Write(c)
    PROVE  /\ <<c.field, c.category>> \in Keys
           /\ Committed' = Committed \cup {<<c.field, c.category>>}
           /\ \A k \in Committed : findings'[k] # None /\ findings'[k].id = findings[k].id
<1> DEFINE key == <<c.field, c.category>>
<1>1. key \in Keys
  BY DEF Finding, Keys
<1>2. findings \in [Keys -> Assessment \cup {None}]
  BY DEF TypeOK
<1>3. findings' = [findings EXCEPT ![key] = Stored(c, findings[key])]
  BY DEF Write
<1>4. findings' \in [Keys -> Assessment \cup {None}]
  BY WriteType
<1>5. findings'[key] = Stored(c, findings[key])
  BY <1>1, <1>2, <1>3
<1>6. \A k \in Keys : k # key => findings'[k] = findings[k]
  BY <1>2, <1>3
<1>7. Stored(c, findings[key]) # None
  <2>1. Stored(c, findings[key]) \in Assessment
    <3>1. (IF findings[key] = None THEN <<"finding", iteration>> ELSE findings[key].id)
            \in FindingId
      BY <1>1, <1>2 DEF FindingId, Assessment
    <3> QED
      BY <3>1 DEF Stored, Finding, Assessment
  <2> QED
    BY <2>1, NoneAssumption
<1>8. findings[key] # None => Stored(c, findings[key]).id = findings[key].id
  BY DEF Stored
<1> HIDE DEF key
<1>9. Committed' = Committed \cup {key}
  BY <1>1, <1>5, <1>6, <1>7 DEF Committed
<1>10. \A k \in Committed : findings'[k] # None /\ findings'[k].id = findings[k].id
  BY <1>5, <1>6, <1>7, <1>8 DEF Committed
<1> QED
  BY <1>1, <1>9, <1>10 DEF key

\* The collector is only ever changed by writing some well-typed finding.
LEMMA CollectorWrites ==
    ASSUME TypeOK, [Next]_vars
    PROVE  \/ UNCHANGED <<findings, concluded>>
           \/ \E c \in Finding : Write(c) /\ iteration \in 1..Budget
<1>1. CASE CommitFinding
  BY <1>1, CandidateOfDispatch DEF CommitFinding
<1>2. CASE DemoteFinding
  BY <1>2, CandidateOfDispatch, DemotedFinding DEF DemoteFinding
<1> QED
  BY <1>1, <1>2, CollectorSteps

\* fields_concluded are always exactly the fields of the committed findings.
THEOREM ConcludedHaveFindingsAlways == Spec => []ConcludedHaveFindings
<1>1. Init => ConcludedHaveFindings
  BY DEF Init, ConcludedHaveFindings, Committed
<1>2. TypeOK /\ ConcludedHaveFindings /\ [Next]_vars => ConcludedHaveFindings'
  <2> SUFFICES ASSUME TypeOK, ConcludedHaveFindings, [Next]_vars
               PROVE  ConcludedHaveFindings'
    OBVIOUS
  <2>1. CASE UNCHANGED <<findings, concluded>>
    BY <2>1 DEF ConcludedHaveFindings, Committed
  <2>2. ASSUME NEW c \in Finding, Write(c), iteration \in 1..Budget
        PROVE  ConcludedHaveFindings'
    <3>1. Committed' = Committed \cup {<<c.field, c.category>>}
      BY <2>2, WriteGrows
    <3>2. concluded' = concluded \cup {c.field}
      BY <2>2 DEF Write
    <3>3. \A S, key : {k[1] : k \in S \cup {key}} = {k[1] : k \in S} \cup {key[1]}
      OBVIOUS
    <3>4. {k[1] : k \in Committed'} = {k[1] : k \in Committed} \cup {c.field}
      BY <3>1, <3>3
    <3> QED
      BY <3>2, <3>4 DEF ConcludedHaveFindings
  <2> QED
    BY <2>1, <2>2, CollectorWrites
<1> QED
  BY <1>1, <1>2, TypeCorrect, PTL DEF Spec

\* An entry is never dropped and keeps its id over every rewrite.
THEOREM FindingsKeepTheirIdsAlways == Spec => FindingsKeepTheirIds
<1> DEFINE Kept == \A k \in Committed : findings'[k] # None /\ findings'[k].id = findings[k].id
<1>1. TypeOK /\ [Next]_vars => [Kept]_vars
  <2> SUFFICES ASSUME TypeOK, [Next]_vars
               PROVE  Kept
    OBVIOUS
  <2>1. CASE UNCHANGED <<findings, concluded>>
    BY <2>1 DEF Committed
  <2>2. ASSUME NEW c \in Finding, Write(c), iteration \in 1..Budget
        PROVE  Kept
    BY <2>2, WriteGrows
  <2> QED
    BY <2>1, <2>2, CollectorWrites
<1> QED
  BY <1>1, TypeCorrect, PTL DEF Spec, FindingsKeepTheirIds

-----------------------------------------------------------------------------
(* The action gate. *)

\* An action the gate does not fail has the shape its tool requires, repeats no filter
\* and, unless it samples or concludes, comes after a sample.
LEMMA ActionRulesSound ==
    ASSUME NEW a, NEW q, NEW s \in BOOLEAN, NEW n, ActionRules(a, q, s, n).verdict # "fail"
    PROVE  /\ a.tool = "run_query" => /\ a.wellFormed
                                      /\ \A i \in DOMAIN q : q[i] # a.filter
           /\ a.tool \notin {"schema_sample", "conclude"} => s
<1> DEFINE R == NoRepeatQuery(a, q) \cup SampleBeforeQuery(a, s)
                  \cup BudgetWarning(a, n) \cup ActionInputShape(a)
<1>1. Fail \notin R
  BY CombineFails DEF ActionRules, Fail
<1>2. a.tool = "run_query" => a.wellFormed
  BY <1>1 DEF ActionInputShape, When
<1>3. a.tool = "run_query" => \A i \in DOMAIN q : q[i] # a.filter
  BY <1>1, <1>2 DEF NoRepeatQuery, When
<1>4. a.tool \notin {"schema_sample", "conclude"} => s
  BY <1>1 DEF SampleBeforeQuery, When
<1> QED
  BY <1>2, <1>3, <1>4

\* The strengthening: what is dispatched has passed the gate, and nothing it looked at
\* has changed since.
Admitted == RulesGateActions /\ pc = "dispatch" => ActionVerdict.verdict # "fail"

\* Admitted is inductive: only the gate lets an action be dispatched.
LEMMA AdmittedStep == Admitted /\ [Next]_vars => Admitted'
<1> SUFFICES ASSUME Admitted, [Next]_vars, RulesGateActions, pc' = "dispatch"
             PROVE  (ActionVerdict.verdict # "fail")'
  BY ConfigConstant DEF Admitted, RulesGateActions
<1>1. \/ GateAction /\ ActionVerdict.verdict # "fail"
      \/ UNCHANGED <<pc, action, queriesRun, schema, iteration>>
  BY DEF Next, Step, Dispatch, Propose, PlannerRaises, SkipActionGate, GateAction, ActionGateRaises,
     SchemaSample, RunQuery, GetStats, ToolRaises, RejectFinding, CommitFinding,
     DemoteFinding, RejectConclusion, EndRun, RunGateRaises, Terminated, vars, readVars,
     RulesGateActions
<1>2. UNCHANGED <<action, queriesRun, schema, iteration>> =>
        ActionVerdict' = ActionVerdict
  BY DEF ActionVerdict, ActionRules, NoRepeatQuery, SampleBeforeQuery, BudgetWarning,
     ActionInputShape, Sampled, RemainingBudget
<1>3. GateAction => UNCHANGED <<action, queriesRun, schema, iteration>>
  BY DEF GateAction, readVars
<1> QED
  BY <1>1, <1>2, <1>3 DEF Admitted

\* With the action gate on, what is dispatched is what the gate has not failed.
THEOREM AdmittedAlways == Spec => []Admitted
<1>1. Init => Admitted
  BY DEF Init, Admitted
<1> QED
  BY <1>1, AdmittedStep, PTL DEF Spec

\* With the action gate on, no filter is run twice in a run.
THEOREM NoRepeatedFilterAlways == Spec => []NoRepeatedFilter
<1>1. Init => NoRepeatedFilter
  BY DEF Init, NoRepeatedFilter
<1>2. TypeOK /\ Admitted /\ NoRepeatedFilter /\ [Next]_vars => NoRepeatedFilter'
  <2> SUFFICES ASSUME TypeOK, Admitted, NoRepeatedFilter, [Next]_vars, RulesGateActions
               PROVE  \A i, j \in DOMAIN queriesRun' : queriesRun'[i] = queriesRun'[j] => i = j
    BY ConfigConstant DEF NoRepeatedFilter, RulesGateActions
  <2>1. UNCHANGED queriesRun \/ RunQuery
    BY DEF Next, Step, Dispatch, Propose, PlannerRaises, SkipActionGate, GateAction,
       ActionGateRaises, SchemaSample, RunQuery, GetStats, ToolRaises, RejectFinding, CommitFinding,
       DemoteFinding, RejectConclusion, EndRun, RunGateRaises, Terminated, vars, readVars
  <2>2. CASE RunQuery
    <3>1. action.wellFormed /\ \A i \in DOMAIN queriesRun : queriesRun[i] # action.filter
      <4>1. Sampled \in BOOLEAN
        BY DEF Sampled
      <4> QED
        BY <2>2, <4>1, ActionRulesSound DEF Admitted, ActionVerdict, RunQuery, Dispatching
    <3>2. queriesRun' = Append(queriesRun, action.filter)
      BY <2>2, <3>1 DEF RunQuery
    <3>3. queriesRun \in Seq(Filters)
      BY DEF TypeOK
    <3>4. action.filter \in Filters
      BY <2>2, <3>1 DEF RunQuery, Dispatching, TypeOK, AgentAction, StatsInput, FindingInput
    <3>5. \A i, j \in DOMAIN queriesRun : queriesRun[i] = queriesRun[j] => i = j
      BY DEF NoRepeatedFilter
    <3> DEFINE n == Len(queriesRun)
    <3>6. /\ n \in Nat /\ DOMAIN queriesRun = 1..n /\ DOMAIN queriesRun' = 1..(n + 1)
          /\ \A i \in 1..n : queriesRun'[i] = queriesRun[i]
          /\ queriesRun'[n + 1] = action.filter
      BY <3>2, <3>3, <3>4
    <3> HIDE DEF n
    <3> QED
      BY <3>1, <3>5, <3>6
  <2> QED
    BY <2>1, <2>2 DEF NoRepeatedFilter
<1> QED
  BY <1>1, <1>2, TypeCorrect, AdmittedAlways, PTL DEF Spec

\* With the action gate on, nothing is queried, committed or dismissed before a schema
\* has been sampled.
THEOREM SampledFirstAlways == Spec => []SampledFirst
<1>1. Init => SampledFirst
  BY DEF Init, SampledFirst, Committed
<1>2. Admitted /\ SampledFirst /\ [Next]_vars => SampledFirst'
  <2> SUFFICES ASSUME Admitted, SampledFirst, [Next]_vars, RulesGateActions, ~Sampled'
               PROVE  UNCHANGED <<schema, queriesRun, investigated, findings, dismissed>>
    BY ConfigConstant DEF SampledFirst, RulesGateActions, Committed, Sampled
  <2>1. Dispatching("run_query") \/ Dispatching("get_stats") \/ Dispatching("write_finding")
          => Sampled
    <3>1. Sampled \in BOOLEAN
      BY DEF Sampled
    <3> QED
      BY <3>1, ActionRulesSound DEF Admitted, ActionVerdict, Dispatching
  <2>2. ~SchemaSample
    <3> SUFFICES ASSUME SchemaSample PROVE FALSE
      OBVIOUS
    <3>1. PICK s \in SchemaResults : schema' = s.fields
      BY DEF SchemaSample
    <3>2. s.fields \in SUBSET Fields
      BY LoopAssumption
    <3> QED
      BY <3>1, <3>2, NoneAssumption DEF Sampled
  <2>3. UNCHANGED schema
    BY <2>2 DEF Next, Step, Dispatch, Propose, PlannerRaises, SkipActionGate, GateAction,
       ActionGateRaises, RunQuery, GetStats, ToolRaises, RejectFinding, CommitFinding,
       DemoteFinding, RejectConclusion, EndRun, RunGateRaises, Terminated, vars, readVars
  <2>4. ~Sampled
    BY <2>3 DEF Sampled
  <2> QED
    BY <2>1, <2>2, <2>4 DEF Next, Step, Dispatch, Propose, PlannerRaises, SkipActionGate,
       GateAction, ActionGateRaises, RunQuery, GetStats, ToolRaises, RejectFinding, CommitFinding,
       DemoteFinding, RejectConclusion, EndRun, RunGateRaises, Terminated, vars, readVars,
       findingVars
<1> QED
  BY <1>1, <1>2, AdmittedAlways, PTL DEF Spec

-----------------------------------------------------------------------------
(* The loop implements its contract: every step of AuditLoop is a step of   *)
(* AuditContract, or leaves what the contract sees as it is.                *)

\* A proposal begins an iteration of the contract.
LEMMA BeginStep ==
    ASSUME TypeOK, NEW a \in Proposals, Propose(a)
    PROVE  Contract!Begin
BY DEF Propose, BudgetLeft, Contract!Begin, findingVars, Committed

\* An exception that leaves run() loses the run.
LEMMA LoseStep ==
    ASSUME TypeOK, PlannerRaises \/ ActionGateRaises \/ RunGateRaises
    PROVE  Contract!Lose
<1>1. CASE PlannerRaises
  BY <1>1 DEF PlannerRaises, BudgetLeft, Contract!Lose, findingVars, Committed
<1>2. CASE ActionGateRaises
  BY <1>2 DEF ActionGateRaises, Contract!Lose, findingVars, Committed
<1>3. CASE RunGateRaises
  BY <1>3 DEF RunGateRaises, Closing, Dispatching, Contract!Lose, findingVars, Committed
<1> QED
  BY <1>1, <1>2, <1>3

\* The end of the run is the report of the contract.
LEMMA ReportStep ==
    ASSUME TypeOK, EndRun
    PROVE  Contract!Report
BY DEF EndRun, Closing, Dispatching, Contract!Report, findingVars, Committed

\* An iteration that ends without touching the ledger.
LEMMA IdleSpend ==
    ASSUME pc \in {"gate", "dispatch"}, pc' = "propose",
           UNCHANGED <<iteration, findings, dismissed>>
    PROVE  Contract!Spend
BY DEF Contract!Spend, Committed

\* A commit spends the iteration on one key of the ledger.
LEMMA CommitSpend ==
    ASSUME TypeOK, CommitFinding \/ DemoteFinding
    PROVE  Contract!Spend
<1>1. PICK c \in Finding : Write(c) /\ iteration \in 1..Budget
  BY CandidateOfDispatch, DemotedFinding DEF CommitFinding, DemoteFinding
<1>2. <<c.field, c.category>> \in Keys /\ Committed' = Committed \cup {<<c.field, c.category>>}
  BY <1>1, WriteGrows
<1>3. pc = "dispatch" /\ pc' = "propose" /\ UNCHANGED <<iteration, dismissed>>
  BY DEF CommitFinding, DemoteFinding, Dispatching
<1> QED
  BY <1>2, <1>3 DEF Contract!Spend

\* A rejection spends the iteration, on a dismissal or on nothing.
LEMMA RejectSpend ==
    ASSUME TypeOK, RejectFinding
    PROVE  Contract!Spend
<1>1. pc = "dispatch" /\ pc' = "propose" /\ UNCHANGED <<iteration, findings>>
  BY DEF RejectFinding, Dispatching
<1>2. Candidate(action) \in Finding
  BY CandidateOfDispatch DEF RejectFinding
<1>3. UNCHANGED dismissed \/ dismissed' = Append(dismissed, Candidate(action))
  BY DEF RejectFinding, Dismiss
<1>4. UNCHANGED dismissed \/ Len(dismissed)' = Len(dismissed) + 1
  <2>1. dismissed \in Seq(Finding)
    BY DEF TypeOK
  <2> DEFINE c == Candidate(action)
  <2>2. c \in Finding /\ (UNCHANGED dismissed \/ dismissed' = Append(dismissed, c))
    BY <1>2, <1>3
  <2> HIDE DEF c
  <2> QED
    BY <2>1, <2>2
<1> QED
  BY <1>1, <1>4 DEF Contract!Spend, Committed

\* Every step of the loop is one of the contract or invisible to it.
LEMMA ContractStep ==
    ASSUME TypeOK, [Next]_vars
    PROVE  [Contract!CNext]_(Contract!contractVars)
<1>1. ASSUME NEW a \in Proposals, Propose(a) PROVE Contract!CNext
  BY <1>1, BeginStep DEF Contract!CNext
<1>2. CASE PlannerRaises \/ ActionGateRaises \/ RunGateRaises
  BY <1>2, LoseStep DEF Contract!CNext
<1>3. CASE EndRun
  BY <1>3, ReportStep DEF Contract!CNext
<1>4. CASE SkipActionGate
  BY <1>4 DEF SkipActionGate, Contract!contractVars, findingVars, Committed
<1>5. CASE GateAction
  <2>1. CASE pc' = "propose"
    BY <1>5, <2>1, IdleSpend DEF GateAction, findingVars, Contract!CNext
  <2>2. CASE pc' = "dispatch"
    BY <1>5, <2>2 DEF GateAction, Contract!contractVars, findingVars, Committed
  <2> QED
    BY <1>5, <2>1, <2>2 DEF GateAction
<1>6. CASE SchemaSample \/ RunQuery \/ GetStats \/ ToolRaises
  BY <1>6, IdleSpend DEF SchemaSample, RunQuery, GetStats, ToolRaises, Dispatching,
     findingVars, readVars, Contract!CNext
<1>7. CASE RejectFinding
  BY <1>7, RejectSpend DEF Contract!CNext
<1>8. CASE CommitFinding \/ DemoteFinding
  BY <1>8, CommitSpend DEF Contract!CNext
<1>9. CASE RejectConclusion
  BY <1>9, IdleSpend DEF RejectConclusion, GoesOn, Dispatching, findingVars, Contract!CNext
<1>10. CASE UNCHANGED vars
  BY <1>10 DEF vars, findingVars, Contract!contractVars, Committed
<1> QED
  BY <1>1, <1>2, <1>3, <1>4, <1>5, <1>6, <1>7, <1>8, <1>9, <1>10
     DEF Next, Step, Dispatch, Terminated

\* Every behaviour of the loop is one of the contract.
THEOREM LoopImplementsContract == Spec => ImplementsContract
<1>1. Init => Contract!CInit
  BY DEF Init, Contract!CInit, Committed
<1> QED
  BY <1>1, ContractStep, TypeCorrect, PTL DEF Spec, ImplementsContract, Contract!CSpec

-----------------------------------------------------------------------------
(* What the contract is worth: findings are paid for with iterations. *)

Unspent == IF pc \in {"gate", "dispatch"} THEN 1 ELSE 0

\* The strengthening: an iteration under way has not been used yet.
Solvent == /\ IsFiniteSet(Committed)
           /\ Cardinality(Committed) + Len(dismissed) + Unspent <= iteration

\* Solvent is inductive: an effect uses up the iteration that was under way.
LEMMA SolventStep ==
    ASSUME TypeOK, TypeOK', Solvent, [Next]_vars
    PROVE  Solvent'
<1> DEFINE n == Cardinality(Committed)
           d == Len(dismissed)
<1>1. n \in Nat /\ d \in Nat /\ d' \in Nat /\ iteration \in Nat
  BY FS_CardinalityType DEF Solvent, TypeOK
<1>2. \A k : IsFiniteSet(Committed \cup {k}) /\ Cardinality(Committed \cup {k}) <= n + 1
  <2> TAKE k
  <2>1. IsFiniteSet(Committed)
    BY DEF Solvent
  <2>2. IsFiniteSet(Committed \cup {k})
         /\ Cardinality(Committed \cup {k}) = IF k \in Committed THEN n ELSE n + 1
    BY <2>1, FS_AddElement
  <2> QED
    BY <1>1, <2>2
<1>3. n + d + Unspent <= iteration
  BY DEF Solvent
<1>4. CASE Contract!Begin
  <2>1. Unspent = 0 /\ Unspent' = 1 /\ iteration' = iteration + 1
    BY <1>4 DEF Contract!Begin, Unspent
  <2>2. Committed' = Committed /\ Len(dismissed)' = Len(dismissed)
    BY <1>4 DEF Contract!Begin
  <2> QED
    BY <1>1, <1>3, <2>1, <2>2 DEF Solvent
<1>5. CASE Contract!Spend
  <2>1. Unspent = 1 /\ Unspent' = 0 /\ iteration' = iteration
    BY <1>5 DEF Contract!Spend, Unspent
  <2>2. CASE UNCHANGED <<Committed, Len(dismissed)>>
    BY <1>1, <1>3, <2>1, <2>2 DEF Solvent
  <2>3. CASE \E k \in Keys : Committed' = Committed \cup {k} /\ UNCHANGED Len(dismissed)
    <3>1. IsFiniteSet(Committed') /\ Cardinality(Committed') <= n + 1
      BY <1>2, <2>3
    <3>2. Cardinality(Committed') \in Nat
      BY <3>1, FS_CardinalityType
    <3> QED
      BY <1>1, <1>3, <2>1, <2>3, <3>1, <3>2 DEF Solvent
  <2>4. CASE Len(dismissed)' = Len(dismissed) + 1 /\ UNCHANGED Committed
    BY <1>1, <1>3, <2>1, <2>4 DEF Solvent
  <2> QED
    BY <1>5, <2>2, <2>3, <2>4 DEF Contract!Spend
<1>6. CASE Contract!Report
  BY <1>1, <1>3, <1>6 DEF Contract!Report, Solvent, Unspent
<1>7. CASE Contract!Lose
  BY <1>1, <1>3, <1>7 DEF Contract!Lose, Solvent, Unspent
<1>8. CASE UNCHANGED Contract!contractVars
  BY <1>1, <1>3, <1>8 DEF Contract!contractVars, Solvent, Unspent
<1> QED
  BY <1>4, <1>5, <1>6, <1>7, <1>8, ContractStep DEF Contract!CNext

\* A run commits and dismisses no more findings than iterations were spent.
THEOREM EffectsWithinBudgetAlways == Spec => []EffectsWithinBudget
<1>1. Init => Solvent
  <2> SUFFICES ASSUME Init PROVE Solvent
    OBVIOUS
  <2>1. Committed = {} /\ dismissed = << >> /\ Unspent = 0 /\ iteration = 0
    BY DEF Init, Committed, Unspent
  <2> QED
    BY <2>1, FS_EmptySet DEF Solvent
<1>2. TypeOK /\ Solvent => EffectsWithinBudget
  <2> SUFFICES ASSUME TypeOK, Solvent PROVE EffectsWithinBudget
    OBVIOUS
  <2>1. Cardinality(Committed) \in Nat /\ Len(dismissed) \in Nat /\ iteration \in Nat
    BY FS_CardinalityType DEF Solvent, TypeOK
  <2> QED
    <3>1. Unspent = 0 \/ Unspent = 1
      BY DEF Unspent
    <3>2. Cardinality(Committed) + Len(dismissed) <= iteration
      BY <2>1, <3>1 DEF Solvent
    <3>3. Contract!Cardinality(Committed) = Cardinality(Committed)
      BY Zenon DEF Contract!Cardinality, Cardinality
    <3> QED
      BY <3>2, <3>3 DEF EffectsWithinBudget, Contract!EffectsArePaid
<1> QED
  BY <1>1, <1>2, SolventStep, TypeCorrect, PTL DEF Spec
=============================================================================
