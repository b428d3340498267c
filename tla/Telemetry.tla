-------------------------------- MODULE Telemetry --------------------------------
(***************************************************************************)
(* What an audit says about itself: the token totals of its report, the     *)
(* cost CostTracker adds to it, and the records of StructuredLogObserver.   *)
(* The runs share one list of observers, as do successive or concurrent     *)
(* runs of one ArgusAgent, or of several given the same ones (agent/loop.py, *)
(* agent/planner.py, llm/gemini.py, observability/).                        *)
(*                                                                          *)
(* The loop is reduced to the calls that cost tokens and to the hooks it    *)
(* calls; AuditLoop has its decisions, which here are left open.  Every     *)
(* answer of an LLM costs one token.  A step ends with the hooks it calls.  *)
(***************************************************************************)
EXTENDS Naturals, Sequences, SequencesExt, FiniteSets

CONSTANTS
    Runs,
    Budget,         \* max_iterations, per run
    MaxParseRetries,
    Gates,          \* configurations: whether there is an action gate, and how many LLM
                    \* evaluators the others may ask; {} is no gate, rules ask none, and a
                    \* composite stops at the first FAIL
    Lists,          \* lists of observers: "cost", "log", and "broken", which always raises
    None

Events == {"run_start", "iteration_start", "llm_call", "action", "eval", "tool_call",
           "finding", "run_complete"}

ASSUME TelemetryAssumption ==
    /\ Budget \in [Runs -> Nat \ {0}] /\ MaxParseRetries \in Nat
    /\ \A l \in Lists : IsInjective(l) /\ Range(l) \subseteq {"cost", "log", "broken"}
    /\ \A g \in Gates : /\ g.action \in BOOLEAN
                       /\ g.finding \subseteq {0, 1} /\ g.run \subseteq 0..2
    /\ None \notin Runs \cup Nat

VARIABLES
    observers,      \* the observers given to the agent,
    gates,          \* and its gates
    pc,             \* where each run is
    iteration,
    attempt,        \* GeminiClient.propose_action: the attempts that failed so far,
    cumulative,     \* and their tokens; zero between calls
    usage,          \* AgentState.total_usage
    trace,          \* the lengths of AgentState.history,
    records,        \* of AgentState.evaluation_records,
    commits,        \* and how often the collector was written to
    report,         \* total tokens and cost of the report, or None
    buckets,        \* CostTracker._buckets
    runId,          \* StructuredLogObserver._run_id
    log,            \* its records, counted per run and event
    planned, judged,    \* history: tokens of all answers to the planner and the evaluators
    overlapped      \* history: the runs that were not alone

setup == <<observers, gates>>
loop == <<pc, iteration, attempt, cumulative, usage, trace, records, commits>>
telemetry == <<buckets, runId, log>>
vars == <<setup, loop, report, telemetry, planned, judged, overlapped>>

Init ==
    /\ observers \in Lists
    /\ gates \in Gates
    /\ pc = [r \in Runs |-> "new"]
    /\ iteration = [r \in Runs |-> 0]
    /\ attempt = [r \in Runs |-> 0]
    /\ cumulative = [r \in Runs |-> 0]
    /\ usage = [r \in Runs |-> 0]
    /\ trace = [r \in Runs |-> 0]
    /\ records = [r \in Runs |-> 0]
    /\ commits = [r \in Runs |-> 0]
    /\ report = [r \in Runs |-> None]
    /\ buckets = 0
    /\ runId = None
    /\ log = [r \in Runs |-> [e \in Events |-> 0]]
    /\ planned = [r \in Runs |-> 0]
    /\ judged = [r \in Runs |-> 0]
    /\ overlapped = {}

Active(r) == pc[r] \notin {"new", "done", "failed"}

-----------------------------------------------------------------------------
(* MultiObserver and its children. *)

\* Mutant of Reached: what an observer raises ends the dispatch.
ReachedIfUnbroken(o) ==
    LET Position(x) == SelectInSeq(observers, LAMBDA y : y = x)
    IN Position(o) > 0 /\ (Position("broken") = 0 \/ Position(o) < Position("broken"))

\* A hook reaches every observer of the list, whatever the others raise.
Reached(o) == Contains(observers, o)

\* StructuredLogObserver: a record under the run that started last.
Logged(events, run) ==
    [log EXCEPT ![run] = [e \in Events |->
        log[run][e] + Cardinality({i \in DOMAIN events : events[i] = e})]]

\* The hooks a step calls, in order, when none of them starts or completes a run.
Hooks(events) ==
    /\ log' = IF Reached("log") THEN Logged(events, runId) ELSE log
    /\ UNCHANGED runId

-----------------------------------------------------------------------------
(* The run. *)

Goes(r, from, to) == pc[r] = from /\ pc' = [pc EXCEPT ![r] = to]

\* Mutant of StartBuckets: the tracker keeps counting.
StartBucketsKept == buckets

\* CostTracker.on_run_start.
StartBuckets == 0

Start(r) ==
    /\ Goes(r, "new", "top")
    /\ runId' = IF Reached("log") THEN r ELSE runId
    /\ log' = IF Reached("log") THEN Logged(<<"run_start">>, r) ELSE log
    /\ buckets' = IF Reached("cost") THEN StartBuckets ELSE buckets
    /\ overlapped' = LET others == {q \in Runs : Active(q)}
                     IN IF others = {} THEN overlapped ELSE overlapped \cup others \cup {r}
    /\ UNCHANGED <<setup, iteration, attempt, cumulative, usage, trace, records, commits,
                   report, planned, judged>>

Iterate(r) ==
    /\ Goes(r, "top", "asking") /\ iteration[r] < Budget[r]
    /\ iteration' = [iteration EXCEPT ![r] = @ + 1]
    /\ Hooks(<<"iteration_start">>)
    /\ UNCHANGED <<setup, attempt, cumulative, usage, trace, records, commits, report,
                   buckets, planned, judged, overlapped>>

\* Mutant of Cumulated: only the last attempt counts.
LastAttempt(r) == 1

\* cumulative + _extract_usage(response).
Cumulated(r) == cumulative[r] + 1

\* Mutant of AsksAgain: one attempt too many.
AsksOnceMore(r) == attempt[r] <= MaxParseRetries

AsksAgain(r) == attempt[r] < MaxParseRetries

\* GeminiClient.propose_action has returned or raised.
CallEnds(r) ==
    /\ attempt' = [attempt EXCEPT ![r] = 0]
    /\ cumulative' = [cumulative EXCEPT ![r] = 0]

\* It has an answer that is no AgentAction and asks again ...
AskAgain(r) ==
    /\ AsksAgain(r)
    /\ Goes(r, "asking", "asking")
    /\ attempt' = [attempt EXCEPT ![r] = @ + 1]
    /\ cumulative' = [cumulative EXCEPT ![r] = Cumulated(r)]
    /\ planned' = [planned EXCEPT ![r] = @ + 1]
    /\ UNCHANGED <<setup, iteration, usage, trace, records, commits, report, telemetry,
                   judged, overlapped>>

\* ... or gives up, and the run ends with what it raises.
GiveUp(r) ==
    /\ ~AsksAgain(r)
    /\ Goes(r, "asking", "failed")
    /\ CallEnds(r)
    /\ planned' = [planned EXCEPT ![r] = @ + 1]
    /\ UNCHANGED <<setup, iteration, usage, trace, records, commits, report, telemetry,
                   judged, overlapped>>

\* generate_content raises.
PlannerRaises(r) ==
    /\ Goes(r, "asking", "failed")
    /\ CallEnds(r)
    /\ UNCHANGED <<setup, iteration, usage, trace, records, commits, report, telemetry,
                   planned, judged, overlapped>>

\* Planner.propose has its action; the loop reports the call and the action.
Propose(r) ==
    /\ Goes(r, "asking", "gate")
    /\ CallEnds(r)
    /\ usage' = [usage EXCEPT ![r] = @ + Cumulated(r)]
    /\ planned' = [planned EXCEPT ![r] = @ + 1]
    /\ trace' = [trace EXCEPT ![r] = @ + 1]
    /\ buckets' = IF Reached("cost") THEN buckets + Cumulated(r) ELSE buckets
    /\ Hooks(<<"llm_call", "action">>)
    /\ UNCHANGED <<setup, iteration, records, commits, report, judged, overlapped>>

\* _evaluate_action: rules only, or nothing; on FAIL, the next iteration.
GateAction(r) ==
    /\ \/ /\ ~gates.action
          /\ Goes(r, "gate", "acting")
          /\ UNCHANGED records /\ Hooks(<<>>)
       \/ /\ gates.action
          /\ Goes(r, "gate", "acting") \/ Goes(r, "gate", "top")
          /\ records' = [records EXCEPT ![r] = @ + 1]
          /\ Hooks(<<"eval">>)
    /\ UNCHANGED <<setup, iteration, attempt, cumulative, usage, trace, commits, report,
                   buckets, planned, judged, overlapped>>

\* An evaluator of the action raises, outside every try: the run ends with it.
ActionGateRaises(r) ==
    /\ gates.action
    /\ Goes(r, "gate", "failed")
    /\ UNCHANGED <<setup, iteration, attempt, cumulative, usage, trace, records, commits,
                   report, telemetry, planned, judged, overlapped>>

\* A tool returns or raises; so does an evaluator that raises, before its gate is recorded.
ToolEnds(r) ==
    /\ Goes(r, "acting", "top")
    /\ Hooks(<<"tool_call">>)
    /\ UNCHANGED <<setup, iteration, attempt, cumulative, usage, trace, records, commits,
                   report, buckets, planned, judged, overlapped>>

\* A self or judge evaluator adds the usage of its answer, whatever can be read in it.
Judged(r, n) == usage' = [usage EXCEPT ![r] = @ + n]

\* The gate of a finding or of the run, with n answers of LLM evaluators and one record.
Evaluated(r, n) ==
    /\ Judged(r, n)
    /\ judged' = [judged EXCEPT ![r] = @ + n]
    /\ records' = [records EXCEPT ![r] = @ + 1]

\* The same without a gate.
Unevaluated == UNCHANGED <<usage, judged, records>>

\* on_eval comes with the record, on_finding after the collector was written to.
WriteHooks(committed) ==
    IF committed THEN <<"eval", "finding", "tool_call">> ELSE <<"eval", "tool_call">>

\* _commit_finding: the gate, and the collector if the finding is let in.
WriteFinding(r) ==
    /\ Goes(r, "acting", "top")
    /\ \/ \E committed \in BOOLEAN :
             /\ \E n \in gates.finding : Evaluated(r, n)
             /\ commits' = IF committed THEN [commits EXCEPT ![r] = @ + 1] ELSE commits
             /\ Hooks(WriteHooks(committed))
       \/ /\ gates.finding = {} /\ Unevaluated
          /\ commits' = [commits EXCEPT ![r] = @ + 1]
          /\ Hooks(<<"finding", "tool_call">>)
    /\ UNCHANGED <<setup, iteration, attempt, cumulative, trace, report, buckets, planned,
                   overlapped>>

\* The conclude action.
Conclude(r) ==
    /\ Goes(r, "acting", "concluding")
    /\ Hooks(<<"tool_call">>)
    /\ UNCHANGED <<setup, iteration, attempt, cumulative, usage, trace, records, commits,
                   report, buckets, planned, judged, overlapped>>

Closing(r) == pc[r] = "concluding" \/ (pc[r] = "top" /\ iteration[r] = Budget[r])

\* The run gate passes or is the last word and the report will be built; or the audit goes on.
GateRun(r) ==
    /\ Closing(r)
    /\ \/ /\ \E n \in gates.run : Evaluated(r, n)
          /\ Hooks(<<"eval">>)
          /\ \/ pc' = [pc EXCEPT ![r] = "closing"]
             \/ /\ pc[r] = "concluding" /\ iteration[r] < Budget[r]
                /\ pc' = [pc EXCEPT ![r] = "top"]
       \/ /\ gates.run = {} /\ Unevaluated
          /\ Hooks(<<>>)
          /\ pc' = [pc EXCEPT ![r] = "closing"]
    /\ UNCHANGED <<setup, iteration, attempt, cumulative, trace, commits, report, buckets,
                   planned, overlapped>>

\* The n-th LLM asked about the run raises: nothing is left.
RunGateRaises(r) ==
    /\ Closing(r)
    /\ pc' = [pc EXCEPT ![r] = "failed"]
    /\ \E n \in gates.run \ {0} :
          Judged(r, n - 1) /\ judged' = [judged EXCEPT ![r] = @ + (n - 1)]
    /\ UNCHANGED <<setup, iteration, attempt, cumulative, trace, records, commits, report,
                   telemetry, planned, overlapped>>

\* _build_report and on_run_complete.
Complete(r) ==
    /\ Goes(r, "closing", "done")
    /\ report' = [report EXCEPT ![r] = [tokens |-> usage[r],
                                        cost |-> IF Reached("cost") THEN buckets ELSE None]]
    /\ log' = IF Reached("log") THEN Logged(<<"run_complete">>, runId) ELSE log
    /\ UNCHANGED <<setup, iteration, attempt, cumulative, usage, trace, records, commits,
                   buckets, runId, planned, judged, overlapped>>

Run(r) ==
    \/ Start(r) \/ Iterate(r) \/ Propose(r)
    \/ AskAgain(r) \/ GiveUp(r) \/ PlannerRaises(r)
    \/ GateAction(r) \/ ActionGateRaises(r) \/ ToolEnds(r) \/ WriteFinding(r) \/ Conclude(r)
    \/ GateRun(r) \/ RunGateRaises(r) \/ Complete(r)

Next == \E r \in Runs : Run(r)

Spec == Init /\ [][Next]_vars
-----------------------------------------------------------------------------

TypeOK ==
    /\ observers \in Lists /\ gates \in Gates
    /\ pc \in [Runs -> {"new", "top", "asking", "gate", "acting", "concluding", "closing",
                        "done", "failed"}]
    /\ iteration \in [Runs -> Nat] /\ \A r \in Runs : iteration[r] <= Budget[r]
    /\ attempt \in [Runs -> 0..MaxParseRetries]
    /\ \A counter \in {cumulative, usage, trace, records, commits, planned, judged} :
          counter \in [Runs -> Nat]
    /\ report \in [Runs -> [tokens : Nat, cost : Nat \cup {None}] \cup {None}]
    /\ buckets \in Nat
    /\ runId \in Runs \cup {None}
    /\ log \in [Runs -> [Events -> Nat]]
    /\ overlapped \subseteq Runs

\* A report's token total is that of all LLM calls of its run: of answers that were asked
\* for twice and of evaluators whose answers no one could parse, too.
ReportCountsAllCalls ==
    \A r \in Runs : report[r] # None => report[r].tokens = planned[r] + judged[r]

\* The cost of a run that was alone is that of its planner's calls: nothing of an earlier
\* run is in it, a failed one included, and no retry is missing.
CostIsOfTheRun ==
    \A r \in Runs \ overlapped :
        report[r] # None /\ Contains(observers, "cost") => report[r].cost = planned[r]

\* The log of a run that was alone agrees with its report, whatever other observers do:
\* an action, a verdict and a committed finding each have their record, and no tool call
\* has one without an action.
LogMatchesReport ==
    \A r \in Runs \ overlapped :
        report[r] # None /\ Contains(observers, "log") =>
            /\ log[r].run_start = 1 /\ log[r].run_complete = 1
            /\ log[r].iteration_start = iteration[r]
            /\ log[r].llm_call = trace[r] /\ log[r].action = trace[r]
            /\ log[r].eval = records[r] /\ log[r].finding = commits[r]
            /\ log[r].tool_call <= trace[r]
=============================================================================
