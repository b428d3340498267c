------------------------------- MODULE AuditLoop -------------------------------
(***************************************************************************)
(* ArgusAgent.run: the ReAct loop of one audit (agent/loop.py), with the    *)
(* AgentState it mutates and the FindingsCollector it fills.                *)
(*                                                                          *)
(* An iteration is Propose, the action gate, then the dispatch of the       *)
(* proposed tool.  The planner LLM is any choice from Proposals, or an      *)
(* exception; the tools read a database that may answer anything or raise;  *)
(* the LLM evaluators answer anything in LLMResults or raise.               *)
(*                                                                          *)
(* Identifiers: a run writes at most one finding per iteration, so the      *)
(* uuid4 drawn for a candidate (or for a new collector entry) in iteration  *)
(* i is <<"candidate", i>> (or <<"finding", i>>).                           *)
(***************************************************************************)
EXTENDS Evaluation

CONSTANTS
    Fields,         \* field paths
    Categories,     \* finding categories
    Filters,        \* Mongo filters
    EmptyFilter,    \* the filter {}
    FilterFields,   \* the paths _filter_fields finds in each filter
    SchemaResults,  \* what schema_sample may return: its field paths, docs sampled
    Proposals,      \* the actions the planner LLM may propose
    Configs,        \* the evaluator configurations explored
    Budget,         \* config.max_iterations
    Echoes,         \* whether text quoted from data can contain "REJECTED"
    None

Tools == {"schema_sample", "run_query", "get_stats", "write_finding", "conclude"}
Severities == {"low", "medium", "high", "critical"}
Keys == Fields \X Categories

\* The configurations the factory builds and EvaluatorConfig admits.
EvaluatorConfig ==
    {c \in [action : ActionStrategies, finding : FindingStrategies, run : RunStrategies,
            hasJudge : BOOLEAN, rejectedPolicy : {"drop", "log_only", "demote_severity"},
            runFailPolicy : {"continue", "warn_only", "abort"}] :
        c.run = "judge" => c.hasJudge}

\* action_input of a write_finding, after the defaults of _commit_finding.
FindingInput ==
    [tool : {"write_finding"}, wellFormed : BOOLEAN,
     field : Fields \cup {""}, category : Categories \cup {""},
     severity : Severities \cup {"other"}, affected : Int,
     givesPct : BOOLEAN, pct : Int, hasQuery : BOOLEAN, hasHypothesis : BOOLEAN,
     description : {"empty", "short", "full"}]

\* action_input of a get_stats; it is not hashable when a field path comes with an
\* operation that Python cannot hash.
StatsInput ==
    {a \in [tool : {"get_stats"}, wellFormed : BOOLEAN, hashable : BOOLEAN, field : Fields] :
        a.wellFormed => a.hashable}

AgentAction ==
    [tool : {"schema_sample", "conclude"}]
      \cup [tool : {"run_query"}, wellFormed : BOOLEAN, filter : Filters]
      \cup StatsInput \cup FindingInput

ASSUME LoopAssumption ==
    /\ Budget \in Nat \ {0}
    /\ Echoes \subseteq BOOLEAN
    /\ Proposals \subseteq AgentAction
    /\ Configs \subseteq EvaluatorConfig
    /\ EmptyFilter \in Filters
    /\ FilterFields \in [Filters -> SUBSET Fields]
    /\ SchemaResults \subseteq [fields : SUBSET Fields, docs : Nat]
    /\ "" \notin Fields \cup Categories

VARIABLES
    config,         \* the agent's EvaluatorConfig
    pc,             \* "propose", "gate", "dispatch", "done" or "crashed"
    action,         \* the action proposed in this iteration
    iteration,
    history,        \* AgentState.history: one entry per proposal
    schema,         \* None, or the field paths of the last sample
    docsSampled,
    queriesRun,
    investigated,   \* fields_investigated
    concluded,      \* fields_concluded
    findings,       \* the collector: per (field, category) an entry or None
    dismissed,
    records,        \* evaluation_records
    observation,    \* last_observation: what it is of, and whether it says "REJECTED"
    critique,       \* last_critique: which gate it is from, and when
    runEvaluation

readVars == <<schema, docsSampled, queriesRun, investigated>>
findingVars == <<concluded, findings, dismissed>>
vars == <<config, pc, action, iteration, history, readVars, findingVars, records,
          observation, critique, runEvaluation>>

Sampled == schema # None
FieldPaths == IF Sampled THEN schema ELSE {}
RemainingBudget == Budget - iteration
Committed == {k \in Keys : findings[k] # None}

Init ==
    /\ config \in Configs
    /\ pc = "propose"
    /\ action = None
    /\ iteration = 0
    /\ history = << >>
    /\ schema = None /\ docsSampled = 0 /\ queriesRun = << >> /\ investigated = {}
    /\ concluded = {} /\ findings = [k \in Keys |-> None] /\ dismissed = << >>
    /\ records = << >>
    /\ observation = None
    /\ critique = None
    /\ runEvaluation = None

-----------------------------------------------------------------------------
(* Planning and the action gate. *)

\* An EvaluationRecord, and the critique a FAIL leaves for the planner.
Record(gate, result, target) ==
    [gate |-> gate, verdict |-> result.verdict, iteration |-> iteration, target |-> target]
Critique(source) == [from |-> source, iteration |-> iteration]
Observe(what, word) == [of |-> what, iteration |-> iteration, rejected |-> word]

\* Mutant of BudgetLeft: one iteration too many.
BudgetLeftOffByOne == iteration <= Budget

BudgetLeft == iteration < Budget

\* Mutant of Log: only what let something through is recorded.
LogUnlessFail(gate, result, target) ==
    IF result.verdict = "fail" THEN UNCHANGED records
    ELSE records' = Append(records, Record(gate, result, target))

Log(gate, result, target) == records' = Append(records, Record(gate, result, target))

\* planner.propose and the bookkeeping before the gate: the planner has been prompted
\* with last_critique, which is consumed.
Propose(a) ==
    /\ pc = "propose" /\ BudgetLeft
    /\ iteration' = iteration + 1
    /\ action' = a
    /\ history' = Append(history, [action |-> a, continued |-> FALSE])
    /\ critique' = None
    /\ pc' = "gate"
    /\ UNCHANGED <<config, readVars, findingVars, records, observation, runEvaluation>>

\* The planner's LLM call raises; run() catches nothing there, so the audit is lost.
PlannerRaises ==
    /\ pc = "propose" /\ BudgetLeft
    /\ iteration' = iteration + 1
    /\ pc' = "crashed"
    /\ UNCHANGED <<config, action, history, readVars, findingVars, records, observation,
                   critique, runEvaluation>>

SkipActionGate ==
    /\ pc = "gate" /\ ActionChain(config.action) = << >>
    /\ pc' = "dispatch"
    /\ UNCHANGED <<config, action, iteration, history, readVars, findingVars, records,
                   observation, critique, runEvaluation>>

ActionVerdict == ActionRules(action, queriesRun, Sampled, RemainingBudget)

\* _evaluate_action, and the continue on FAIL.
GateAction ==
    /\ pc = "gate" /\ ActionChain(config.action) # << >> /\ ~ActionRulesRaise(action)
    /\ Log("action", ActionVerdict, None)
    /\ IF ActionVerdict.verdict = "fail"
       THEN pc' = "propose" /\ critique' = Critique("action")
       ELSE pc' = "dispatch" /\ UNCHANGED critique
    /\ UNCHANGED <<config, action, iteration, history, readVars, findingVars, observation,
                   runEvaluation>>

\* A rule raises; run() catches nothing there either.
ActionGateRaises ==
    /\ pc = "gate" /\ ActionChain(config.action) # << >> /\ ActionRulesRaise(action)
    /\ pc' = "crashed"
    /\ UNCHANGED <<config, action, iteration, history, readVars, findingVars, records,
                   observation, critique, runEvaluation>>

-----------------------------------------------------------------------------
(* The read tools. *)

Dispatching(tool) == pc = "dispatch" /\ action.tool = tool

SchemaSample ==
    /\ Dispatching("schema_sample")
    /\ \E s \in SchemaResults :
          /\ schema' = s.fields
          /\ docsSampled' = IF s.docs > docsSampled THEN s.docs ELSE docsSampled
    /\ observation' = Observe("schema_sample", FALSE)
    /\ pc' = "propose"
    /\ UNCHANGED <<config, action, iteration, history, queriesRun, investigated, findingVars,
                   records, critique, runEvaluation>>

\* A filter that is no dict is only run when it is falsy, as the empty filter.
RunQuery ==
    /\ Dispatching("run_query")
    /\ LET filter == IF action.wellFormed THEN action.filter ELSE EmptyFilter
       IN /\ queriesRun' = Append(queriesRun, filter)
          /\ investigated' = investigated \cup FilterFields[filter]
    /\ \E word \in Echoes : observation' = Observe("run_query", word)
    /\ pc' = "propose"
    /\ UNCHANGED <<config, action, iteration, history, schema, docsSampled, findingVars,
                   records, critique, runEvaluation>>

GetStats ==
    /\ Dispatching("get_stats") /\ action.wellFormed
    /\ investigated' = investigated \cup {action.field}
    /\ \E word \in Echoes : observation' = Observe("get_stats", word)
    /\ pc' = "propose"
    /\ UNCHANGED <<config, action, iteration, history, schema, docsSampled, queriesRun,
                   findingVars, records, critique, runEvaluation>>

\* Mutant of Explain: the planner is not told of the exception.
ExplainSilently == UNCHANGED critique

\* last_critique after an exception of a tool.
Explain == critique' = Critique("error")

\* Anything but conclude may raise: a bad argument, a Finding that does not
\* validate, the database, or the finding gate's own LLM call.
ToolRaises ==
    /\ pc = "dispatch" /\ action.tool # "conclude"
    /\ \E word \in Echoes : observation' = Observe("error", word)
    /\ Explain
    /\ pc' = "propose"
    /\ UNCHANGED <<config, action, iteration, history, readVars, findingVars, records,
                   runEvaluation>>

-----------------------------------------------------------------------------
(* write_finding. *)

Clamp(n) == IF n < 0 THEN 0 ELSE IF n > 1000 THEN 1000 ELSE n

AffectedPct(a) == Clamp(IF a.givesPct THEN a.pct
                        ELSE IF docsSampled = 0 THEN 0
                        ELSE (a.affected * 1000) \div docsSampled)

\* The Finding built from action_input; an unknown severity becomes medium.
Candidate(a) ==
    [id |-> <<"candidate", iteration>>, field |-> a.field, category |-> a.category,
     severity |-> IF a.severity \in Severities THEN a.severity ELSE "medium",
     affected |-> a.affected, pct |-> AffectedPct(a), hasQuery |-> a.hasQuery,
     hasHypothesis |-> a.hasHypothesis, description |-> a.description]

\* What pydantic requires of a Finding.
Constructible(a) ==
    a.field # "" /\ a.category # "" /\ a.affected >= 0 /\ a.description # "empty"

\* Mutant of Demote: the order is walked the wrong way.
Promote(severity) == CASE severity = "low" -> "medium"
                       [] severity = "medium" -> "high"
                       [] OTHER -> "critical"

Demote(severity) == CASE severity = "critical" -> "high"
                      [] severity = "high" -> "medium"
                      [] OTHER -> "low"

FindingVerdicts(c) == GateResults(FindingChain(config.finding), FindingRules(c))

\* Mutant of Dismiss: the dismissed copy gets an id of its own.
DismissCopy(c) ==
    /\ dismissed' = Append(dismissed, [c EXCEPT !.id = <<"finding", iteration>>])
    /\ critique' = Critique("finding")

\* Mutant of Dismiss: the loop and the collector both add the finding.
DismissTwice(c) == dismissed' = dismissed \o <<c, c>> /\ critique' = Critique("finding")

Dismiss(c) == dismissed' = Append(dismissed, c) /\ critique' = Critique("finding")

\* A FAIL under the drop and log_only policies.
RejectFinding ==
    /\ Dispatching("write_finding") /\ Constructible(action)
    /\ config.rejectedPolicy # "demote_severity"
    /\ LET c == Candidate(action)
       IN \E r \in FindingVerdicts(c) :
            /\ r.verdict = "fail"
            /\ Log("finding", r, c.id)
            /\ IF config.rejectedPolicy = "log_only"
               THEN Dismiss(c)
               ELSE UNCHANGED <<dismissed, critique>>
    /\ observation' = Observe("write_finding", TRUE)
    /\ pc' = "propose"
    /\ UNCHANGED <<config, action, iteration, history, readVars, concluded, findings,
                   runEvaluation>>

\* FindingsCollector.write: the entry keeps the id it was created with.
Stored(c, existing) ==
    [id |-> IF existing = None THEN <<"finding", iteration>> ELSE existing.id,
     severity |-> c.severity, affected |-> c.affected, pct |-> c.pct,
     hasQuery |-> c.hasQuery, hasHypothesis |-> c.hasHypothesis,
     description |-> c.description]

\* Mutant of Write: an update replaces the entry, id and all.
WriteFresh(c) ==
    /\ findings' = [findings EXCEPT ![<<c.field, c.category>>] = Stored(c, None)]
    /\ concluded' = concluded \cup {c.field}

\* Mutant of Write: only an update of an entry concludes its field.
WriteUnconcluded(c) ==
    /\ findings' = [findings EXCEPT ![<<c.field, c.category>>] = Stored(c, @)]
    /\ concluded' = IF findings[<<c.field, c.category>>] = None THEN concluded
                    ELSE concluded \cup {c.field}

Write(c) ==
    /\ findings' = [findings EXCEPT ![<<c.field, c.category>>] = Stored(c, @)]
    /\ concluded' = concluded \cup {c.field}

\* last_observation after a commit: an earlier text holding "REJECTED" is kept.
Announce(before) ==
    IF before # None /\ before.rejected THEN observation' = before
    ELSE \E word \in Echoes : observation' = Observe("write_finding", word)

\* No gate, a PASS or a WARN: the candidate is committed as it is.
CommitFinding ==
    /\ Dispatching("write_finding") /\ Constructible(action)
    /\ LET c == Candidate(action)
       IN /\ \/ /\ FindingChain(config.finding) = << >>
                /\ UNCHANGED records
             \/ \E r \in FindingVerdicts(c) :
                   /\ r.verdict # "fail"
                   /\ Log("finding", r, c.id)
          /\ Write(c)
    /\ Announce(observation)
    /\ pc' = "propose"
    /\ UNCHANGED <<config, action, iteration, history, readVars, dismissed, critique,
                   runEvaluation>>

\* A FAIL under demote_severity: committed one severity lower.
DemoteFinding ==
    /\ Dispatching("write_finding") /\ Constructible(action)
    /\ config.rejectedPolicy = "demote_severity"
    /\ LET c == Candidate(action)
       IN \E r \in FindingVerdicts(c) :
            /\ r.verdict = "fail"
            /\ Log("finding", r, c.id)
            /\ Write([c EXCEPT !.severity = Demote(@)])
    /\ \E word \in Echoes : Announce(Observe("demotion", word))
    /\ pc' = "propose"
    /\ UNCHANGED <<config, action, iteration, history, readVars, dismissed, critique,
                   runEvaluation>>

-----------------------------------------------------------------------------
(* conclude, the end of the budget and the run gate. *)

RunChainOf == RunChain(config.run, config.hasJudge)

RunRuled == RunRules(Cardinality(investigated \cup concluded), Cardinality(FieldPaths),
                     Cardinality(Committed), docsSampled, iteration)

RunVerdicts == GateResults(RunChainOf, RunRuled)

\* Mutant of Closing: only conclude ends a run.
ClosingOnConclude == Dispatching("conclude")

\* Mutant of Closing: the budget counts as spent one iteration early.
ClosingEarly == \/ Dispatching("conclude")
                \/ pc = "propose" /\ iteration >= Budget - 1

\* The run is about to be evaluated: conclude was dispatched, or the budget is spent.
Closing == \/ Dispatching("conclude")
           \/ pc = "propose" /\ iteration = Budget

\* Mutant of GoesOn: gives up one iteration early.
GoesOnOffByOne(r) == Dispatching("conclude") /\ r.verdict = "fail"
                       /\ config.runFailPolicy = "continue" /\ RemainingBudget > 1

\* A rejected conclude goes on only under "continue" and with budget left.
GoesOn(r) == Dispatching("conclude") /\ r.verdict = "fail"
               /\ config.runFailPolicy = "continue" /\ RemainingBudget > 0

RejectConclusion ==
    /\ \E r \in RunVerdicts :
          /\ GoesOn(r)
          /\ Log("run", r, None)
          /\ runEvaluation' = r
    /\ critique' = Critique("run")
    /\ history' = [history EXCEPT ![Len(history)].continued = TRUE]
    /\ pc' = "propose"
    /\ UNCHANGED <<config, action, iteration, readVars, findingVars, observation>>

\* Any other verdict, and every verdict once the budget is spent, ends the run.
EndRun ==
    /\ Closing
    /\ \/ RunChainOf = << >> /\ runEvaluation' = None /\ UNCHANGED records
       \/ \E r \in RunVerdicts :
             /\ ~GoesOn(r)
             /\ Log("run", r, None)
             /\ runEvaluation' = r
    /\ pc' = "done"
    /\ UNCHANGED <<config, action, iteration, history, readVars, findingVars, observation,
                   critique>>

\* An LLM evaluator of the run gate raises: the exception leaves run().
RunGateRaises ==
    /\ Closing
    /\ MayRaise(RunChainOf, RunRuled)
    /\ pc' = "crashed"
    /\ UNCHANGED <<config, action, iteration, history, readVars, findingVars, records,
                   observation, critique, runEvaluation>>

Ended == pc \in {"done", "crashed"}
Terminated == Ended /\ UNCHANGED vars

-----------------------------------------------------------------------------

Dispatch == \/ SchemaSample \/ RunQuery \/ GetStats \/ ToolRaises
            \/ RejectFinding \/ CommitFinding \/ DemoteFinding

Step == \/ \E a \in Proposals : Propose(a)
        \/ PlannerRaises
        \/ SkipActionGate \/ GateAction \/ ActionGateRaises
        \/ Dispatch
        \/ RejectConclusion \/ EndRun \/ RunGateRaises

Next == Step \/ Terminated

Spec == Init /\ [][Next]_vars

\* run() is one thread that never waits on anything but its own calls.
FairSpec == Spec /\ WF_vars(Step)
-----------------------------------------------------------------------------
(* Types. *)

FindingId == {"candidate", "finding"} \X (1..Budget)

\* What candidates and collector entries have in common.
Assessment == [id : FindingId, severity : Severities, affected : Nat, pct : 0..1000,
               hasQuery : BOOLEAN, hasHypothesis : BOOLEAN,
               description : {"short", "full"}]

Finding == [id : FindingId, field : Fields, category : Categories,
            severity : Severities, affected : Nat, pct : 0..1000,
            hasQuery : BOOLEAN, hasHypothesis : BOOLEAN,
            description : {"short", "full"}]

EvaluationRecord == [gate : {"action", "finding", "run"}, verdict : Verdicts,
                     iteration : 1..Budget, target : FindingId \cup {None}]

Observation == [of : {"schema_sample", "run_query", "get_stats", "write_finding", "error",
                      "demotion"},
                iteration : 1..Budget, rejected : BOOLEAN]

CritiqueType == [from : {"action", "finding", "run", "error"}, iteration : 1..Budget]

\* None is told apart from everything it stands in for.
ASSUME NoneAssumption ==
    /\ None \notin AgentAction
    /\ \A S \in SUBSET Fields : S # None
    /\ None \notin Assessment
    /\ None \notin CritiqueType \cup Observation

TypeOK ==
    /\ config \in Configs
    /\ pc \in {"propose", "gate", "dispatch", "done", "crashed"}
    /\ action \in AgentAction \cup {None}
    /\ pc \in {"gate", "dispatch"} => action # None
    /\ iteration \in 0..Budget
    /\ pc # "propose" => iteration > 0
    /\ history \in Seq([action : AgentAction, continued : BOOLEAN])
    /\ Sampled => schema \in SUBSET Fields
    /\ docsSampled \in Nat
    /\ queriesRun \in Seq(Filters)
    /\ investigated \in SUBSET Fields
    /\ concluded \in SUBSET Fields
    /\ findings \in [Keys -> Assessment \cup {None}]
    /\ dismissed \in Seq(Finding)
    /\ records \in Seq(EvaluationRecord)
    /\ observation \in Observation \cup {None}
    /\ critique \in CritiqueType \cup {None}
    /\ runEvaluation \in Result \cup {None}

-----------------------------------------------------------------------------
(* What the collector and the report may hold. *)

RulesGateActions == ActionChain(config.action) # << >>
RulesGateFindings == config.finding \in {"rules", "composite"}

\* With rules in the finding gate, nothing enters the report with no affected
\* document, no evidence query or no real description, however often its key was
\* rewritten and whatever the LLM evaluator said, unless rejected findings are
\* demoted rather than rejected.
CommittedMeetRules ==
    RulesGateFindings /\ config.rejectedPolicy # "demote_severity" =>
        \A k \in Committed : /\ findings[k].affected > 0
                             /\ findings[k].hasQuery
                             /\ findings[k].description = "full"

\* With rules in the finding gate, a committed CRITICAL finding affects at least 1%
\* of the documents under every policy: a demotion takes CRITICAL away.
CriticalIsBroad ==
    RulesGateFindings =>
        \A k \in Committed : findings[k].severity = "critical" => findings[k].pct >= 10

\* Every dismissed finding can be explained: the trail holds the FAIL that
\* _dismiss_meta_for looks up by the finding's id, once, and the collector never
\* holds an entry under that id.
DismissedAreExplained ==
    \A i \in DOMAIN dismissed :
        /\ \E j \in DOMAIN records : /\ records[j].gate = "finding"
                                     /\ records[j].target = dismissed[i].id
                                     /\ records[j].verdict = "fail"
        /\ \A j \in DOMAIN dismissed : dismissed[j].id = dismissed[i].id => i = j
        /\ \A k \in Committed : findings[k].id # dismissed[i].id

\* fields_concluded, which the run gate counts as covered, are exactly the fields of
\* the findings in the collector.
ConcludedHaveFindings == concluded = {k[1] : k \in Committed}

\* An entry of the collector is never dropped and keeps its id over every rewrite.
FindingsKeepTheirIds ==
    [][\A k \in Committed : findings'[k] # None /\ findings'[k].id = findings[k].id]_vars

-----------------------------------------------------------------------------
(* What the gates guarantee about the investigation. *)

\* With the action gate on, a filter is never run twice in a run; one whose query
\* raised may be tried again, since it was never recorded as run.
NoRepeatedFilter ==
    RulesGateActions =>
        \A i, j \in DOMAIN queriesRun : queriesRun[i] = queriesRun[j] => i = j

\* With the action gate on, nothing is queried, committed or dismissed before a
\* schema has been sampled.
SampledFirst ==
    RulesGateActions /\ ~Sampled =>
        queriesRun = << >> /\ investigated = {} /\ Committed = {} /\ dismissed = << >>

\* Under "continue" a report leaves the agent with a failed run gate only when the
\* whole budget has been used to put it right.
FailedRunUsedItsBudget ==
    pc = "done" /\ runEvaluation # None =>
        (runEvaluation.verdict = "fail" /\ config.runFailPolicy = "continue"
            => iteration = Budget)

\* What went wrong with the action of this iteration, by the trail and by the observation
\* the prompt also holds.
Failed(gate) == \E j \in DOMAIN records : /\ records[j].gate = gate
                                          /\ records[j].iteration = iteration
                                          /\ records[j].verdict = "fail"
Raised == /\ observation # None
          /\ observation.of = "error" /\ observation.iteration = iteration

Blames(source) == CASE source = "error" -> Raised
                    [] source = "finding" -> /\ Failed(source)
                                             /\ config.rejectedPolicy = "log_only"
                    [] OTHER -> Failed(source)

\* The planner is prompted with a critique exactly when its previous action was failed
\* by a gate or raised an exception, and the critique is of that, never of an action
\* before it; only a finding rejected under the drop and demote_severity policies is
\* passed over.
CritiqueIsCurrent ==
    pc = "propose" =>
        /\ critique # None => critique.iteration = iteration
        /\ \A source \in {"action", "finding", "run", "error"} :
              Blames(source) <=> critique # None /\ critique.from = source

\* The report's trail is complete and in order: every proposal of the trace has
\* its one action record (when that gate is on), evaluations appear in iteration
\* order, and the proposals marked as continued are exactly those whose conclude the
\* run gate failed, other than the one that ended the run.
TrailMatchesTrace ==
    /\ pc # "crashed" => Len(history) = iteration
    /\ \A i, j \in DOMAIN records : i < j => records[i].iteration <= records[j].iteration
    /\ RulesGateActions /\ pc \notin {"gate", "crashed"} =>
         \A i \in DOMAIN history :
            Cardinality({j \in DOMAIN records : records[j].gate = "action"
                                                 /\ records[j].iteration = i}) = 1
    /\ \A i \in DOMAIN history :
         history[i].continued <=>
            /\ \E j \in DOMAIN records : records[j].gate = "run" /\ records[j].verdict = "fail"
                                          /\ records[j].iteration = i
            /\ ~(pc = "done" /\ i = iteration)

\* Whatever the planner proposes and whatever fails, the run ends.
RunEnds == <>Ended

-----------------------------------------------------------------------------
(* The loop implements the contract of AuditContract. *)

Contract == INSTANCE AuditContract WITH
    phase <- IF pc = "done" THEN "reported" ELSE IF pc = "crashed" THEN "lost" ELSE "running",
    spent <- iteration,
    credit <- pc \in {"gate", "dispatch"},
    ledger <- Committed,
    dismissals <- Len(dismissed)

\* Every behaviour of the loop is one of the contract: an iteration pays for one change
\* of the ledger at most, nothing leaves it, and nothing changes once the run is over.
ImplementsContract == Contract!CSpec

\* However the run went, it committed and dismissed no more findings than iterations
\* were spent.
EffectsWithinBudget == Contract!EffectsArePaid

-----------------------------------------------------------------------------
(* What the documentation says and the code does not do. *)

\* prompts.py and the evidence_required rule: every committed finding has
\* affected_count > 0.
CommittedHaveEvidence ==
    RulesGateFindings => \A k \in Committed : findings[k].affected > 0

\* docs/agent-loop.md: when an evaluator returns FAIL, the loop puts its critique where the
\* planner is prompted with it next.
FailReachesPlanner ==
    pc = "propose" =>
        \A gate \in {"action", "finding", "run"} : Failed(gate) => critique # None

\* docs/agent-loop.md: the result of an executed action is fed back into the next
\* iteration's context.
ResultFedBack ==
    pc = "propose" /\ iteration > 0 /\ (critique = None \/ critique.from # "action") =>
        \/ action.tool = "conclude"
        \/ observation # None /\ observation.iteration = iteration
=============================================================================
