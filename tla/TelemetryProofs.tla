----------------------------- MODULE TelemetryProofs -----------------------------
(***************************************************************************)
(* The invariants of Telemetry, proved for any runs, budgets, gates and     *)
(* lists of observers.                                                      *)
(***************************************************************************)
EXTENDS Telemetry, FiniteSetTheorems, TLAPS

-----------------------------------------------------------------------------
(* What the records of a step add up to. *)

\* The hooks a step may call, each once at most.
HookLists == {<<>>, <<"run_start">>, <<"iteration_start">>, <<"llm_call", "action">>, <<"eval">>,
              <<"tool_call">>, <<"eval", "finding", "tool_call">>, <<"eval", "tool_call">>,
              <<"finding", "tool_call">>, <<"run_complete">>}

\* A hook is in a list once or not at all.
LEMMA HookOnce ==
    ASSUME NEW events \in HookLists, NEW e \in Events
    PROVE  Cardinality({i \in DOMAIN events : events[i] = e})
             = IF e \in Range(events) THEN 1 ELSE 0
<1> DEFINE S == {i \in DOMAIN events : events[i] = e}
<1>1. \A i, j \in DOMAIN events : events[i] = events[j] => i = j
  BY DEF HookLists
<1>2. CASE e \in Range(events)
  <2>1. PICK i \in DOMAIN events : events[i] = e
    BY <1>2 DEF Range
  <2>2. S = {i}
    BY <1>1, <2>1
  <2>3. Cardinality({i}) = 1
    BY FS_Singleton
  <2> QED
    BY <1>2, <2>2, <2>3
<1>3. CASE e \notin Range(events)
  <2>1. S = {}
    BY <1>3 DEF Range
  <2> QED
    BY <1>3, <2>1, FS_EmptySet
<1> QED
  BY <1>2, <1>3

\* One record more of each hook called, under one run and no other.
LEMMA LoggedOnce ==
    ASSUME log \in [Runs -> [Events -> Nat]], NEW events \in HookLists, NEW run
    PROVE  /\ Logged(events, run) \in [Runs -> [Events -> Nat]]
           /\ \A r \in Runs \ {run} : Logged(events, run)[r] = log[r]
           /\ run \in Runs => \A e \in Events :
                Logged(events, run)[run][e]
                  = log[run][e] + IF e \in Range(events) THEN 1 ELSE 0
<1> DEFINE Sum(e) == log[run][e] + Cardinality({i \in DOMAIN events : events[i] = e})
<1>1. \A e \in Events : Sum(e) = log[run][e] + IF e \in Range(events) THEN 1 ELSE 0
  BY HookOnce
<1>2. Logged(events, run) = [log EXCEPT ![run] = [e \in Events |-> Sum(e)]]
  BY DEF Logged
<1> HIDE DEF Sum
<1>3. CASE run \in Runs
  <2>1. [e \in Events |-> Sum(e)] \in [Events -> Nat]
    BY <1>1, <1>3
  <2> QED
    BY <1>1, <1>2, <1>3, <2>1
<1>4. CASE run \notin Runs
  BY <1>2, <1>4
<1> QED
  BY <1>3, <1>4

\* The hooks of a step leave their records, if at all, under the run that started last.
LEMMA HooksLog ==
    ASSUME log \in [Runs -> [Events -> Nat]], NEW events \in HookLists, Hooks(events)
    PROVE  /\ log' \in [Runs -> [Events -> Nat]] /\ UNCHANGED runId
           /\ \A r \in Runs \ {runId} : log'[r] = log[r]
           /\ Reached("log") /\ runId \in Runs => \A e \in Events :
                log'[runId][e] = log[runId][e] + IF e \in Range(events) THEN 1 ELSE 0
BY LoggedOnce DEF Hooks

-----------------------------------------------------------------------------
(* Type correctness. *)

\* TypeOK with its counters spelled out.
Typed ==
    /\ observers \in Lists /\ gates \in Gates
    /\ pc \in [Runs -> {"new", "top", "asking", "gate", "acting", "concluding", "closing",
                        "done", "failed"}]
    /\ iteration \in [Runs -> Nat] /\ \A r \in Runs : iteration[r] <= Budget[r]
    /\ attempt \in [Runs -> 0..MaxParseRetries]
    /\ cumulative \in [Runs -> Nat] /\ usage \in [Runs -> Nat]
    /\ trace \in [Runs -> Nat] /\ records \in [Runs -> Nat] /\ commits \in [Runs -> Nat]
    /\ planned \in [Runs -> Nat] /\ judged \in [Runs -> Nat]
    /\ report \in [Runs -> [tokens : Nat, cost : Nat \cup {None}] \cup {None}]
    /\ buckets \in Nat
    /\ runId \in Runs \cup {None}
    /\ log \in [Runs -> [Events -> Nat]]
    /\ overlapped \subseteq Runs

\* It says the same, of a state and of the next.
LEMMA TypeParts == (TypeOK <=> Typed) /\ (TypeOK' <=> Typed')
BY DEF TypeOK, Typed

\* What an LLM evaluator is asked about a finding or a run is a number of calls.
LEMMA GateNumbers ==
    ASSUME gates \in Gates
    PROVE  /\ gates.action \in BOOLEAN
           /\ \A n \in gates.finding : n \in Nat
           /\ \A n \in gates.run : n \in Nat
           /\ \A n \in gates.run \ {0} : n - 1 \in Nat
BY TelemetryAssumption

\* The types of the limits.
LEMMA LimitTypes == Budget \in [Runs -> Nat \ {0}] /\ MaxParseRetries \in Nat
BY TelemetryAssumption

\* Adding to one counter leaves counters.
LEMMA Bumped ==
    ASSUME NEW f \in [Runs -> Nat], NEW r \in Runs, NEW n \in Nat
    PROVE  [f EXCEPT ![r] = f[r] + n] \in [Runs -> Nat]
OBVIOUS

\* A step of a run is one of its own: the others keep their place and their numbers, what
\* has ended stays as it is, and only Start leaves "new".
LEMMA OwnSteps ==
    ASSUME TypeOK, NEW q \in Runs, Run(q)
    PROVE  /\ UNCHANGED setup
           /\ \A r \in Runs \ {q} :
                 /\ pc'[r] = pc[r] /\ iteration'[r] = iteration[r]
                 /\ cumulative'[r] = cumulative[r] /\ usage'[r] = usage[r]
                 /\ trace'[r] = trace[r] /\ records'[r] = records[r]
                 /\ commits'[r] = commits[r] /\ report'[r] = report[r]
                 /\ planned'[r] = planned[r] /\ judged'[r] = judged[r]
           /\ pc[q] \notin {"done", "failed"} /\ pc'[q] # "new"
           /\ pc[q] = "new" => Start(q)
           /\ ~Start(q) => overlapped' = overlapped
<1> USE TypeParts DEF Typed, Goes
<1>1. CASE Start(q)
  BY <1>1 DEF Start, setup
<1>2. CASE Iterate(q)
  BY <1>2 DEF Iterate, setup
<1>3. CASE Propose(q)
  BY <1>3 DEF Propose, CallEnds, setup
<1>4. CASE AskAgain(q)
  BY <1>4 DEF AskAgain, setup
<1>5. CASE GiveUp(q)
  BY <1>5 DEF GiveUp, CallEnds, setup
<1>6. CASE PlannerRaises(q) \/ ActionGateRaises(q)
  BY <1>6 DEF PlannerRaises, ActionGateRaises, CallEnds, setup
<1>7. CASE GateAction(q)
  BY <1>7 DEF GateAction, setup
<1>8. CASE ToolEnds(q)
  BY <1>8 DEF ToolEnds, setup
<1>9. CASE WriteFinding(q)
  BY <1>9 DEF WriteFinding, Evaluated, Judged, Unevaluated, setup
<1>10. CASE Conclude(q)
  BY <1>10 DEF Conclude, setup
<1>11. CASE GateRun(q)
  BY <1>11 DEF GateRun, Closing, Evaluated, Judged, Unevaluated, setup
<1>12. CASE RunGateRaises(q)
  BY <1>12 DEF RunGateRaises, Closing, Judged, setup
<1>13. CASE Complete(q)
  BY <1>13 DEF Complete, setup
<1> QED
  BY <1>1, <1>2, <1>3, <1>4, <1>5, <1>6, <1>7, <1>8, <1>9, <1>10, <1>11, <1>12, <1>13 DEF Run

\* The state of the loop, the report and the telemetry after a step of a run.
LEMMA RunTypes ==
    ASSUME TypeOK, NEW q \in Runs, Run(q)
    PROVE  TypeOK'
<1> SUFFICES ASSUME Typed PROVE Typed'
  BY TypeParts
<1> USE DEF Typed, Goes
<1>1. CASE Start(q)
  <2>1. <<"run_start">> \in HookLists
    BY DEF HookLists
  <2>2. log' \in [Runs -> [Events -> Nat]]
    BY <1>1, <2>1, LoggedOnce DEF Start
  <2> QED
    BY <1>1, <2>2 DEF Start, setup, StartBuckets, Active
<1>2. CASE Iterate(q)
  <2>1. <<"iteration_start">> \in HookLists
    BY DEF HookLists
  <2>2. log' \in [Runs -> [Events -> Nat]] /\ UNCHANGED runId
    BY <1>2, <2>1, HooksLog DEF Iterate
  <2>3. iteration' \in [Runs -> Nat] /\ \A r \in Runs : iteration'[r] <= Budget[r]
    <3>1. iteration[q] + 1 <= Budget[q]
      <4>1. iteration[q] < Budget[q]
        BY <1>2 DEF Iterate
      <4>2. iteration[q] \in Nat /\ Budget[q] \in Nat
        BY LimitTypes
      <4> QED
        BY <4>1, <4>2
    <3> QED
      BY <1>2, <3>1, Bumped DEF Iterate
  <2> QED
    BY <1>2, <2>2, <2>3 DEF Iterate, setup
<1>3. CASE Propose(q)
  <2>1. <<"llm_call", "action">> \in HookLists
    BY DEF HookLists
  <2>2. log' \in [Runs -> [Events -> Nat]] /\ UNCHANGED runId
    BY <1>3, <2>1, HooksLog DEF Propose
  <2>3. attempt' \in [Runs -> 0..MaxParseRetries] /\ cumulative' \in [Runs -> Nat]
    BY <1>3, TelemetryAssumption DEF Propose, CallEnds
  <2>4. usage' \in [Runs -> Nat] /\ buckets' \in Nat
    BY <1>3 DEF Propose, Cumulated
  <2> QED
    BY <1>3, <2>2, <2>3, <2>4 DEF Propose, setup
<1>4. CASE AskAgain(q)
  BY <1>4, TelemetryAssumption DEF AskAgain, AsksAgain, Cumulated, setup, telemetry
<1>5. CASE GiveUp(q)
  BY <1>5, TelemetryAssumption DEF GiveUp, CallEnds, setup, telemetry
<1>6. CASE PlannerRaises(q) \/ ActionGateRaises(q)
  <2>1. CASE PlannerRaises(q)
    BY <2>1, TelemetryAssumption DEF PlannerRaises, CallEnds, setup, telemetry
  <2>2. CASE ActionGateRaises(q)
    BY <2>2 DEF ActionGateRaises, setup, telemetry
  <2> QED
    BY <1>6, <2>1, <2>2
<1>7. CASE GateAction(q)
  <2>1. <<>> \in HookLists /\ <<"eval">> \in HookLists
    BY DEF HookLists
  <2>2. log' \in [Runs -> [Events -> Nat]] /\ UNCHANGED runId
    BY <1>7, <2>1, HooksLog DEF GateAction
  <2>3. pc' \in [Runs -> {"new", "top", "asking", "gate", "acting", "concluding", "closing",
                         "done", "failed"}]
    BY <1>7 DEF GateAction
  <2>4. records' \in [Runs -> Nat]
    <3>1. records' = records \/ records' = [records EXCEPT ![q] = records[q] + 1]
      BY <1>7 DEF GateAction
    <3> QED
      BY <3>1, Bumped
  <2> QED
    BY <1>7, <2>2, <2>3, <2>4 DEF GateAction, setup
<1>8. CASE ToolEnds(q)
  <2>1. <<"tool_call">> \in HookLists
    BY DEF HookLists
  <2>2. log' \in [Runs -> [Events -> Nat]] /\ UNCHANGED runId
    BY <1>8, <2>1, HooksLog DEF ToolEnds
  <2> QED
    BY <1>8, <2>2 DEF ToolEnds, setup
<1>9. CASE WriteFinding(q)
  <2>1. /\ \A committed \in BOOLEAN : WriteHooks(committed) \in HookLists
        /\ <<"finding", "tool_call">> \in HookLists
    BY DEF HookLists, WriteHooks
  <2>2. log' \in [Runs -> [Events -> Nat]] /\ UNCHANGED runId
    BY <1>9, <2>1, HooksLog DEF WriteFinding
  <2>3. usage' \in [Runs -> Nat] /\ judged' \in [Runs -> Nat] /\ records' \in [Runs -> Nat]
    <3>1. CASE UNCHANGED <<usage, judged, records>>
      BY <3>1
    <3>2. CASE \E n \in gates.finding : Evaluated(q, n)
      BY <3>2, GateNumbers, Bumped DEF Evaluated, Judged
    <3> QED
      BY <1>9, <3>1, <3>2 DEF WriteFinding, Unevaluated
  <2>4. commits' \in [Runs -> Nat]
    <3>1. commits' = commits \/ commits' = [commits EXCEPT ![q] = commits[q] + 1]
      BY <1>9 DEF WriteFinding
    <3> QED
      BY <3>1, Bumped
  <2> QED
    BY <1>9, <2>2, <2>3, <2>4 DEF WriteFinding, setup
<1>10. CASE Conclude(q)
  <2>1. <<"tool_call">> \in HookLists
    BY DEF HookLists
  <2>2. log' \in [Runs -> [Events -> Nat]] /\ UNCHANGED runId
    BY <1>10, <2>1, HooksLog DEF Conclude
  <2> QED
    BY <1>10, <2>2 DEF Conclude, setup
<1>11. CASE GateRun(q)
  <2>1. <<>> \in HookLists /\ <<"eval">> \in HookLists
    BY DEF HookLists
  <2>2. log' \in [Runs -> [Events -> Nat]] /\ UNCHANGED runId
    BY <1>11, <2>1, HooksLog DEF GateRun
  <2>3. usage' \in [Runs -> Nat] /\ judged' \in [Runs -> Nat] /\ records' \in [Runs -> Nat]
    <3>1. CASE UNCHANGED <<usage, judged, records>>
      BY <3>1
    <3>2. CASE \E n \in gates.run : Evaluated(q, n)
      BY <3>2, GateNumbers, Bumped DEF Evaluated, Judged
    <3> QED
      BY <1>11, <3>1, <3>2 DEF GateRun, Unevaluated
  <2>4. pc' \in [Runs -> {"new", "top", "asking", "gate", "acting", "concluding", "closing",
                         "done", "failed"}]
    BY <1>11 DEF GateRun
  <2> QED
    BY <1>11, <2>2, <2>3, <2>4 DEF GateRun, setup
<1>12. CASE RunGateRaises(q)
  <2>1. usage' \in [Runs -> Nat] /\ judged' \in [Runs -> Nat]
    BY <1>12, GateNumbers DEF RunGateRaises, Judged
  <2> QED
    BY <1>12, <2>1 DEF RunGateRaises, setup, telemetry
<1>13. CASE Complete(q)
  <2>1. <<"run_complete">> \in HookLists
    BY DEF HookLists
  <2>2. log' \in [Runs -> [Events -> Nat]]
    BY <1>13, <2>1, LoggedOnce DEF Complete
  <2> QED
    BY <1>13, <2>2 DEF Complete, setup
<1> QED
  BY <1>1, <1>2, <1>3, <1>4, <1>5, <1>6, <1>7, <1>8, <1>9, <1>10, <1>11, <1>12, <1>13 DEF Run

\* Counters, buckets, reports and logs have their types, whatever runs share the observers.
THEOREM TypeCorrect == Spec => []TypeOK
<1>1. Init => TypeOK
  BY TelemetryAssumption, TypeParts DEF Init, Typed
<1>2. TypeOK /\ [Next]_vars => TypeOK'
  <2>1. TypeOK /\ UNCHANGED vars => TypeOK'
    BY DEF TypeOK, vars, setup, loop, telemetry
  <2> QED
    BY <2>1, RunTypes DEF Next
<1> QED
  BY <1>1, <1>2, PTL DEF Spec

-----------------------------------------------------------------------------
(* The strengthening. *)

\* Outside a call to the planner no tokens are pending, the totals of a run that has not
\* failed are those of its answers, and a report is that of a run that is done.
TokensCounted ==
    \A r \in Runs :
        /\ pc[r] # "asking" => cumulative[r] = 0
        /\ pc[r] # "failed" => usage[r] + cumulative[r] = planned[r] + judged[r]
        /\ report[r] # None => pc[r] = "done" /\ report[r].tokens = usage[r]

\* Of two runs that are under way at a time, both have overlapped.
OverlapsKnown ==
    \A p, q \in Runs : Active(p) /\ Active(q) /\ p # q => p \in overlapped

\* What a run that has not started has not done.
NothingYet ==
    \A r \in Runs : pc[r] = "new" =>
        /\ planned[r] = 0 /\ iteration[r] = 0 /\ trace[r] = 0
        /\ records[r] = 0 /\ commits[r] = 0
        /\ \A e \in Events : log[r][e] = 0
        /\ runId # r

\* While a run is alone, the tracker counts its calls and nothing else.
BucketsOwn ==
    Reached("cost") => \A r \in Runs \ overlapped :
        /\ Active(r) => buckets + cumulative[r] = planned[r]
        /\ report[r] # None => report[r].cost = planned[r]

\* While a run is alone, or done, the records are its own; once another has started, that
\* one's come after.
LogOwn ==
    Reached("log") => \A r \in Runs \ overlapped :
        /\ Active(r) => runId = r
        /\ pc[r] = "done" /\ (\E q \in Runs : Active(q)) => runId # r

\* The records of a run that is alone, under way or done.
RecordsMatch ==
    Reached("log") => \A r \in Runs \ overlapped :
        Active(r) \/ pc[r] = "done" =>
            /\ log[r]["run_start"] = 1
            /\ log[r]["iteration_start"] = iteration[r]
            /\ log[r]["llm_call"] = trace[r] /\ log[r]["action"] = trace[r]
            /\ log[r]["eval"] = records[r] /\ log[r]["finding"] = commits[r]
            /\ log[r]["run_complete"] = IF pc[r] = "done" THEN 1 ELSE 0
            /\ log[r]["tool_call"] <= trace[r]
            /\ pc[r] \in {"gate", "acting"} => log[r]["tool_call"] < trace[r]

-----------------------------------------------------------------------------
(* The tokens of a report. *)

\* What a step of a run makes of its own tokens.
LEMMA TokenSteps ==
    ASSUME TypeOK, TokensCounted, NEW q \in Runs, Run(q)
    PROVE  /\ pc'[q] # "asking" => cumulative'[q] = 0
           /\ pc'[q] # "failed" => usage'[q] + cumulative'[q] = planned'[q] + judged'[q]
           /\ report'[q] # None => pc'[q] = "done" /\ report'[q].tokens = usage'[q]
<1>1. /\ pc[q] # "asking" => cumulative[q] = 0
      /\ pc[q] # "failed" => usage[q] + cumulative[q] = planned[q] + judged[q]
      /\ report[q] # None => pc[q] = "done"
  BY DEF TokensCounted
<1>2. usage[q] \in Nat /\ cumulative[q] \in Nat /\ planned[q] \in Nat /\ judged[q] \in Nat
  BY TypeParts DEF Typed
<1>3. pc[q] \notin {"done", "failed"}
  BY OwnSteps
<1>4. /\ pc \in [Runs -> {"new", "top", "asking", "gate", "acting", "concluding", "closing",
                         "done", "failed"}]
      /\ usage \in [Runs -> Nat] /\ cumulative \in [Runs -> Nat]
      /\ planned \in [Runs -> Nat] /\ judged \in [Runs -> Nat] /\ DOMAIN report = Runs
  BY TypeParts DEF Typed
<1>5. CASE \/ Start(q) \/ Iterate(q) \/ GateAction(q) \/ ToolEnds(q) \/ Conclude(q)
  <2>1. UNCHANGED <<usage, cumulative, planned, judged, report>>
    BY <1>5 DEF Start, Iterate, GateAction, ToolEnds, Conclude
  <2>2. pc[q] # "asking" /\ pc'[q] # "done"
    BY <1>4, <1>5 DEF Start, Iterate, GateAction, ToolEnds, Conclude, Goes
  <2> QED
    BY <1>1, <1>3, <2>1, <2>2
<1>6. CASE AskAgain(q)
  BY <1>1, <1>2, <1>4, <1>6 DEF AskAgain, Goes, Cumulated
<1>7. CASE GiveUp(q) \/ PlannerRaises(q)
  BY <1>1, <1>4, <1>7 DEF GiveUp, PlannerRaises, CallEnds, Goes
<1>8. CASE Propose(q)
  BY <1>1, <1>2, <1>4, <1>8 DEF Propose, CallEnds, Goes, Cumulated
<1>9. CASE WriteFinding(q) \/ GateRun(q)
  <2>1. /\ UNCHANGED <<cumulative, planned, report>>
        /\ pc[q] \in {"acting", "concluding", "top"}
    BY <1>9 DEF WriteFinding, GateRun, Closing, Goes
  <2>2. \/ UNCHANGED <<usage, judged>>
        \/ \E n \in gates.finding \cup gates.run : Evaluated(q, n)
    BY <1>9 DEF WriteFinding, GateRun, Unevaluated
  <2>3. usage'[q] = planned[q] + judged'[q]
    <3>1. ASSUME NEW n \in gates.finding \cup gates.run, Evaluated(q, n)
          PROVE  usage'[q] = planned[q] + judged'[q]
      <4>1. n \in Nat
        BY TypeParts, GateNumbers DEF Typed
      <4>2. usage'[q] = usage[q] + n /\ judged'[q] = judged[q] + n
        BY <1>4, <3>1 DEF Evaluated, Judged
      <4> QED
        BY <1>1, <1>2, <2>1, <4>1, <4>2
    <3> QED
      BY <1>1, <1>2, <2>1, <2>2, <3>1
  <2>4. usage'[q] \in Nat
    BY RunTypes, TypeParts DEF Typed
  <2> QED
    BY <1>1, <1>2, <2>1, <2>3, <2>4
<1>10. CASE RunGateRaises(q) \/ ActionGateRaises(q)
  BY <1>1, <1>4, <1>10 DEF RunGateRaises, ActionGateRaises, Closing, Goes
<1>11. CASE Complete(q)
  <2>1. report'[q].tokens = usage[q]
    BY <1>4, <1>11 DEF Complete
  <2> QED
    BY <1>1, <1>4, <1>11, <2>1 DEF Complete, Goes
<1> QED
  BY <1>5, <1>6, <1>7, <1>8, <1>9, <1>10, <1>11 DEF Run

\* Tokens are counted for every run.
LEMMA TokensCountedAlways == Spec => []TokensCounted
<1>1. Init => TokensCounted
  BY DEF Init, TokensCounted
<1>2. TypeOK /\ TokensCounted /\ [Next]_vars => TokensCounted'
  <2> SUFFICES ASSUME TypeOK, TokensCounted, [Next]_vars PROVE TokensCounted'
    OBVIOUS
  <2>1. CASE UNCHANGED vars
    BY <2>1 DEF TokensCounted, vars, loop
  <2>2. ASSUME NEW q \in Runs, Run(q) PROVE TokensCounted'
    BY <2>2, TokenSteps, OwnSteps DEF TokensCounted
  <2> QED
    BY <2>1, <2>2 DEF Next
<1> QED
  BY <1>1, <1>2, TypeCorrect, PTL DEF Spec

\* A report's tokens are those of all answers of its run, of the planner and the evaluators.
THEOREM ReportCountsAllCallsAlways == Spec => []ReportCountsAllCalls
<1>1. TypeOK /\ TokensCounted => ReportCountsAllCalls
  <2> SUFFICES ASSUME TypeOK, TokensCounted, NEW r \in Runs, report[r] # None
               PROVE  report[r].tokens = planned[r] + judged[r]
    BY DEF ReportCountsAllCalls
  <2>1. usage[r] \in Nat
    BY TypeParts DEF Typed
  <2> QED
    BY <2>1 DEF TokensCounted
<1> QED
  BY <1>1, TypeCorrect, TokensCountedAlways, PTL

-----------------------------------------------------------------------------
(* Runs that are alone. *)

\* Overlaps are known and never forgotten; a run that has not started has done nothing.
LEMMA OverlapSteps ==
    ASSUME TypeOK, OverlapsKnown, NEW q \in Runs, Run(q)
    PROVE  /\ OverlapsKnown' /\ overlapped \subseteq overlapped'
           /\ \A r \in Runs \ {q} : Active(r) /\ Active(r)' => r \in overlapped'
<1>1. \A r \in Runs \ {q} : pc'[r] = pc[r]
  BY OwnSteps
<1>2. CASE Start(q)
  <2>1. pc[q] = "new" /\ ~Active(q)
    BY <1>2 DEF Start, Goes, Active
  <2>2. \A r \in Runs : Active(r) => r \in overlapped' /\ q \in overlapped'
    BY <1>2 DEF Start
  <2>3. overlapped \subseteq overlapped'
    BY <1>2 DEF Start
  <2> QED
    BY <1>1, <2>1, <2>2, <2>3 DEF OverlapsKnown, Active
<1>3. CASE ~Start(q)
  <2>1. overlapped' = overlapped /\ Active(q)
    BY <1>3, OwnSteps DEF Active
  <2> QED
    BY <1>1, <2>1 DEF OverlapsKnown, Active
<1> QED
  BY <1>2, <1>3

\* Only the run that started last, and the one that starts, gets records.
LEMMA RecordSteps ==
    ASSUME TypeOK, NEW q \in Runs, Run(q)
    PROVE  /\ Start(q) => /\ \A r \in Runs \ {q} : log'[r] = log[r]
                          /\ runId' = IF Reached("log") THEN q ELSE runId
           /\ ~Start(q) => /\ \A r \in Runs : runId # r => log'[r] = log[r]
                           /\ runId' = runId
<1>1. log \in [Runs -> [Events -> Nat]]
  BY TypeParts DEF Typed
<1>2. CASE Start(q)
  <2>1. <<"run_start">> \in HookLists
    BY DEF HookLists
  <2> QED
    BY <1>1, <1>2, <2>1, LoggedOnce DEF Start
<1>3. CASE Complete(q)
  <2>1. <<"run_complete">> \in HookLists
    BY DEF HookLists
  <2>2. runId' = runId /\ (log' = log \/ log' = Logged(<<"run_complete">>, runId))
    BY <1>3 DEF Complete
  <2>3. ~Start(q)
    BY <1>3 DEF Complete, Start, Goes
  <2> QED
    BY <1>1, <2>1, <2>2, <2>3, LoggedOnce
<1>4. CASE \E events \in HookLists : Hooks(events)
  <2>1. ~Start(q) \/ (Start(q) /\ UNCHANGED runId)
    BY <1>4, HooksLog, <1>1
  <2> QED
    BY <1>1, <1>2, <1>4, HooksLog
<1>5. CASE UNCHANGED telemetry
  BY <1>2, <1>5 DEF telemetry
<1>6. CASE \/ Iterate(q) \/ Propose(q) \/ GateAction(q) \/ ToolEnds(q) \/ Conclude(q)
  BY <1>4, <1>6 DEF Iterate, Propose, GateAction, ToolEnds, Conclude, HookLists
<1>7. CASE WriteFinding(q) \/ GateRun(q)
  BY <1>4, <1>7 DEF WriteFinding, GateRun, HookLists, WriteHooks
<1>8. CASE AskAgain(q) \/ GiveUp(q) \/ PlannerRaises(q) \/ ActionGateRaises(q) \/ RunGateRaises(q)
  BY <1>5, <1>8 DEF AskAgain, GiveUp, PlannerRaises, ActionGateRaises, RunGateRaises
<1> QED
  BY <1>2, <1>3, <1>6, <1>7, <1>8 DEF Run

\* A run that has not started has done nothing, and nothing is logged under it.
LEMMA NothingYetSteps ==
    ASSUME TypeOK, NothingYet, NEW q \in Runs, Run(q)
    PROVE  NothingYet'
<1> SUFFICES ASSUME NEW r \in Runs, pc'[r] = "new"
             PROVE  /\ planned'[r] = 0 /\ iteration'[r] = 0 /\ trace'[r] = 0
                    /\ records'[r] = 0 /\ commits'[r] = 0
                    /\ \A e \in Events : log'[r][e] = 0
                    /\ runId' # r
  BY DEF NothingYet
<1>1. r # q
  BY OwnSteps
<1>2. /\ pc[r] = "new"
      /\ planned'[r] = planned[r] /\ iteration'[r] = iteration[r] /\ trace'[r] = trace[r]
      /\ records'[r] = records[r] /\ commits'[r] = commits[r]
  BY <1>1, OwnSteps
<1>3. log'[r] = log[r] /\ runId' # r
  BY <1>1, <1>2, RecordSteps DEF NothingYet
<1> QED
  BY <1>2, <1>3 DEF NothingYet

\* The tracker's buckets are those of the run that is alone.
LEMMA BucketsOwnSteps ==
    ASSUME TypeOK, TokensCounted, OverlapsKnown, NothingYet, BucketsOwn, NEW q \in Runs, Run(q)
    PROVE  BucketsOwn'
<1> SUFFICES ASSUME Reached("cost")', NEW r \in Runs \ overlapped'
             PROVE  /\ Active(r)' => buckets' + cumulative'[r] = planned'[r]
                    /\ report'[r] # None => report'[r].cost = planned'[r]
  BY DEF BucketsOwn
<1>1. Reached("cost") /\ r \notin overlapped
  BY OwnSteps, OverlapSteps DEF Reached, setup
<1>2. CASE r # q
  <2>1. /\ pc'[r] = pc[r] /\ report'[r] = report[r] /\ planned'[r] = planned[r]
    BY <1>2, OwnSteps
  <2>2. ~Active(r)'
    BY <1>2, <2>1, OverlapSteps DEF Active
  <2> QED
    BY <1>1, <2>1, <2>2 DEF BucketsOwn
<1>3. CASE r = q
  <2>1. /\ buckets \in Nat /\ cumulative[q] \in Nat /\ planned[q] \in Nat
        /\ cumulative \in [Runs -> Nat] /\ planned \in [Runs -> Nat] /\ DOMAIN report = Runs
        /\ pc \in [Runs -> {"new", "top", "asking", "gate", "acting", "concluding",
                            "closing", "done", "failed"}]
    BY TypeParts DEF Typed
  <2>2. /\ Active(q) => buckets + cumulative[q] = planned[q]
        /\ pc[q] # "asking" => cumulative[q] = 0
        /\ pc[q] = "new" => planned[q] = 0
        /\ report[q] # None => pc[q] = "done"
        /\ pc[q] # "done"
    BY <1>1, <1>3, OwnSteps DEF BucketsOwn, TokensCounted, NothingYet
  <2>3. CASE Start(q)
    <3>1. /\ buckets' = 0 /\ UNCHANGED <<cumulative, planned, report>>
      BY <1>1, <2>3 DEF Start, StartBuckets
    <3>2. pc[q] = "new"
      BY <2>3 DEF Start, Goes
    <3> QED
      BY <1>3, <2>2, <3>1, <3>2
  <2>4. CASE AskAgain(q)
    <3>1. UNCHANGED <<buckets, report>> /\ Active(q)
      BY <2>4 DEF AskAgain, Goes, Active, telemetry
    <3>2. cumulative'[q] = cumulative[q] + 1 /\ planned'[q] = planned[q] + 1
      BY <2>1, <2>4 DEF AskAgain, Cumulated
    <3> QED
      BY <1>3, <2>1, <2>2, <3>1, <3>2
  <2>5. CASE Propose(q)
    <3>1. /\ buckets' = buckets + (cumulative[q] + 1) /\ UNCHANGED report /\ Active(q)
      BY <1>1, <2>5 DEF Propose, Goes, Active, Cumulated, Hooks
    <3>2. cumulative'[q] = 0 /\ planned'[q] = planned[q] + 1
      BY <2>1, <2>5 DEF Propose, CallEnds
    <3> QED
      BY <1>3, <2>1, <2>2, <3>1, <3>2
  <2>6. CASE \/ Iterate(q) \/ GateAction(q) \/ ToolEnds(q) \/ Conclude(q)
             \/ WriteFinding(q) \/ GateRun(q)
    <3>1. UNCHANGED <<buckets, cumulative, planned, report>>
      BY <2>6 DEF Iterate, GateAction, ToolEnds, Conclude, WriteFinding, GateRun, Unevaluated,
                  Evaluated, Hooks
    <3>2. Active(q)
      BY <2>6 DEF Iterate, GateAction, ToolEnds, Conclude, WriteFinding, GateRun, Goes, Closing,
                  Active
    <3> QED
      BY <1>3, <2>2, <3>1, <3>2
  <2>7. CASE GiveUp(q) \/ PlannerRaises(q) \/ ActionGateRaises(q) \/ RunGateRaises(q)
    <3>1. UNCHANGED report /\ ~Active(q)'
      BY <2>1, <2>7 DEF GiveUp, PlannerRaises, ActionGateRaises, RunGateRaises, Goes, Active
    <3> QED
      BY <1>3, <2>2, <3>1
  <2>8. CASE Complete(q)
    <3>1. /\ ~Active(q)' /\ Active(q) /\ pc[q] = "closing" /\ UNCHANGED planned
      BY <2>1, <2>8 DEF Complete, Goes, Active
    <3>2. report'[q].cost = buckets
      BY <1>1, <2>1, <2>8 DEF Complete
    <3> QED
      BY <1>3, <2>1, <2>2, <3>1, <3>2
  <2> QED
    BY <2>3, <2>4, <2>5, <2>6, <2>7, <2>8 DEF Run
<1> QED
  BY <1>2, <1>3

\* The log's run is the run that is alone, and of one that is done no later than it.
LEMMA LogOwnSteps ==
    ASSUME TypeOK, OverlapsKnown, LogOwn, NEW q \in Runs, Run(q)
    PROVE  LogOwn'
<1> SUFFICES ASSUME Reached("log")', NEW r \in Runs \ overlapped'
             PROVE  /\ Active(r)' => runId' = r
                    /\ pc'[r] = "done" /\ (\E p \in Runs : Active(p)') => runId' # r
  BY DEF LogOwn
<1>1. Reached("log") /\ r \notin overlapped
  BY OwnSteps, OverlapSteps DEF Reached, setup
<1>2. CASE r # q
  <2>1. pc'[r] = pc[r] /\ ~Active(r)'
    BY <1>2, OwnSteps, OverlapSteps DEF Active
  <2>2. CASE Start(q)
    BY <1>1, <1>2, <2>1, <2>2, RecordSteps
  <2>3. CASE ~Start(q)
    <3>1. Active(q) /\ runId' = runId
      BY <2>3, OwnSteps, RecordSteps DEF Active
    <3> QED
      BY <1>1, <2>1, <3>1 DEF LogOwn
  <2> QED
    BY <2>2, <2>3
<1>3. CASE r = q
  <2>1. CASE Start(q)
    <3>1. pc'[q] = "top" /\ runId' = q
      BY <1>1, <2>1, RecordSteps, TypeParts DEF Typed, Start, Goes
    <3> QED
      BY <1>3, <3>1
  <2>2. CASE ~Start(q)
    <3>1. Active(q) /\ runId' = runId /\ runId = q
      BY <1>1, <1>3, <2>2, OwnSteps, RecordSteps DEF Active, LogOwn
    <3>2. ASSUME NEW p \in Runs, Active(p)', pc'[q] = "done"
          PROVE  FALSE
      <4>1. p # q
        BY <3>2 DEF Active
      <4>2. Active(p)
        BY <3>2, <4>1, OwnSteps DEF Active
      <4> QED
        BY <1>1, <1>3, <3>1, <4>1, <4>2 DEF OverlapsKnown
    <3> QED
      BY <1>3, <3>1, <3>2
  <2> QED
    BY <2>1, <2>2
<1> QED
  BY <1>2, <1>3

\* The hooks of the lists.
LEMMA HookSets ==
    /\ Range(<<>>) = {} /\ Range(<<"run_start">>) = {"run_start"}
    /\ Range(<<"iteration_start">>) = {"iteration_start"}
    /\ Range(<<"llm_call", "action">>) = {"llm_call", "action"}
    /\ Range(<<"eval">>) = {"eval"} /\ Range(<<"tool_call">>) = {"tool_call"}
    /\ Range(<<"eval", "finding", "tool_call">>) = {"eval", "finding", "tool_call"}
    /\ Range(<<"eval", "tool_call">>) = {"eval", "tool_call"}
    /\ Range(<<"finding", "tool_call">>) = {"finding", "tool_call"}
    /\ Range(<<"run_complete">>) = {"run_complete"}
BY DEF Range

\* A step adds one record of each of the called events under a run, and no other.
OneMore(r, called) ==
    \A e \in Events : log'[r][e] = log[r][e] + IF e \in called THEN 1 ELSE 0

\* What a run that is alone logs is what it does.
LEMMA RecordsMatchSteps ==
    ASSUME TypeOK, OverlapsKnown, NothingYet, LogOwn, RecordsMatch, NEW q \in Runs, Run(q)
    PROVE  RecordsMatch'
<1> SUFFICES ASSUME Reached("log")', NEW r \in Runs \ overlapped', Active(r)' \/ pc'[r] = "done"
             PROVE  /\ log'[r]["run_start"] = 1
                    /\ log'[r]["iteration_start"] = iteration'[r]
                    /\ log'[r]["llm_call"] = trace'[r] /\ log'[r]["action"] = trace'[r]
                    /\ log'[r]["eval"] = records'[r] /\ log'[r]["finding"] = commits'[r]
                    /\ log'[r]["run_complete"] = IF pc'[r] = "done" THEN 1 ELSE 0
                    /\ log'[r]["tool_call"] <= trace'[r]
                    /\ pc'[r] \in {"gate", "acting"} => log'[r]["tool_call"] < trace'[r]
  BY DEF RecordsMatch
<1>1. Reached("log") /\ r \notin overlapped
  BY OwnSteps, OverlapSteps DEF Reached, setup
<1>2. CASE r # q
  <2>1. /\ pc'[r] = pc[r] /\ iteration'[r] = iteration[r] /\ trace'[r] = trace[r]
        /\ records'[r] = records[r] /\ commits'[r] = commits[r]
    BY <1>2, OwnSteps
  <2>2. pc[r] = "done"
    BY <1>2, <2>1, OverlapSteps DEF Active
  <2>3. log'[r] = log[r]
    BY <1>1, <1>2, <2>2, OwnSteps, RecordSteps DEF LogOwn, Active
  <2> QED
    BY <1>1, <2>1, <2>2, <2>3 DEF RecordsMatch
<1>3. CASE r = q
  <2>1. /\ \A e \in Events : log[q][e] \in Nat
        /\ trace[q] \in Nat /\ iteration[q] \in Nat /\ records[q] \in Nat /\ commits[q] \in Nat
        /\ trace \in [Runs -> Nat] /\ iteration \in [Runs -> Nat]
        /\ records \in [Runs -> Nat] /\ commits \in [Runs -> Nat]
        /\ log \in [Runs -> [Events -> Nat]]
        /\ pc \in [Runs -> {"new", "top", "asking", "gate", "acting", "concluding",
                            "closing", "done", "failed"}]
    BY TypeParts DEF Typed
  <2>2. Events = {"run_start", "iteration_start", "llm_call", "action", "eval", "tool_call",
                  "finding", "run_complete"}
    BY DEF Events
  <2>3. CASE Start(q)
    <3>1. pc[q] = "new" /\ pc'[q] = "top" /\ UNCHANGED <<iteration, trace, records, commits>>
      BY <2>1, <2>3 DEF Start, Goes
    <3>2. <<"run_start">> \in HookLists
      BY DEF HookLists
    <3>3. log' = Logged(<<"run_start">>, q)
      BY <1>1, <2>3 DEF Start
    <3>4. OneMore(q, {"run_start"})
      BY <2>1, <3>2, <3>3, LoggedOnce, HookSets DEF OneMore
    <3>5. /\ iteration[q] = 0 /\ trace[q] = 0 /\ records[q] = 0 /\ commits[q] = 0
          /\ \A e \in Events : log[q][e] = 0
      BY <3>1 DEF NothingYet
    <3> QED
      BY <1>3, <2>2, <3>1, <3>4, <3>5 DEF OneMore
  <2>4. CASE ~Start(q)
    <3>1. Active(q) /\ runId = q
      BY <1>1, <1>3, <2>4, OwnSteps DEF LogOwn, Active
    <3>2. /\ log[q]["run_start"] = 1
          /\ log[q]["iteration_start"] = iteration[q]
          /\ log[q]["llm_call"] = trace[q] /\ log[q]["action"] = trace[q]
          /\ log[q]["eval"] = records[q] /\ log[q]["finding"] = commits[q]
          /\ log[q]["run_complete"] = 0
          /\ log[q]["tool_call"] <= trace[q]
          /\ pc[q] \in {"gate", "acting"} => log[q]["tool_call"] < trace[q]
      BY <1>1, <1>3, <3>1 DEF RecordsMatch, Active
    <3>3. \A events \in HookLists : Hooks(events) => OneMore(q, Range(events))
      BY <1>1, <2>1, <3>1, HooksLog DEF OneMore
    <3>4. CASE Iterate(q)
      <4>1. OneMore(q, {"iteration_start"})
        BY <3>3, <3>4, HookSets DEF Iterate, HookLists
      <4>2. iteration'[q] = iteration[q] + 1 /\ UNCHANGED <<trace, records, commits>>
        BY <2>1, <3>4 DEF Iterate
      <4>3. pc'[q] = "asking"
        BY <2>1, <3>4 DEF Iterate, Goes
      <4> QED
        BY <1>3, <2>1, <2>2, <3>2, <4>1, <4>2, <4>3 DEF OneMore
    <3>5. CASE Propose(q)
      <4>1. OneMore(q, {"llm_call", "action"})
        BY <3>3, <3>5, HookSets DEF Propose, HookLists
      <4>2. trace'[q] = trace[q] + 1 /\ UNCHANGED <<iteration, records, commits>>
        BY <2>1, <3>5 DEF Propose
      <4>3. pc'[q] = "gate"
        BY <2>1, <3>5 DEF Propose, Goes
      <4> QED
        BY <1>3, <2>1, <2>2, <3>2, <4>1, <4>2, <4>3 DEF OneMore
    <3>6. CASE AskAgain(q)
      <4>1. pc'[q] = "asking" /\ UNCHANGED <<iteration, trace, records, commits, log>>
        BY <2>1, <3>6 DEF AskAgain, Goes, telemetry
      <4> QED
        BY <1>3, <3>2, <4>1
    <3>7. CASE GiveUp(q) \/ PlannerRaises(q) \/ ActionGateRaises(q) \/ RunGateRaises(q)
      <4>1. pc'[q] = "failed"
        BY <2>1, <3>7 DEF GiveUp, PlannerRaises, ActionGateRaises, RunGateRaises, Goes
      <4> QED
        BY <1>3, <4>1 DEF Active
    <3>8. CASE GateAction(q)
      <4>1. UNCHANGED <<iteration, trace, commits>> /\ pc[q] = "gate" /\ pc'[q] # "done"
        BY <2>1, <3>8 DEF GateAction, Goes
      <4>2. \/ OneMore(q, {}) /\ records'[q] = records[q]
            \/ OneMore(q, {"eval"}) /\ records'[q] = records[q] + 1
        BY <2>1, <3>3, <3>8, HookSets DEF GateAction, HookLists
      <4> QED
        BY <1>3, <2>1, <2>2, <3>2, <4>1, <4>2 DEF OneMore
    <3>9. CASE ToolEnds(q) \/ Conclude(q)
      <4>1. OneMore(q, {"tool_call"})
        BY <3>3, <3>9, HookSets DEF ToolEnds, Conclude, HookLists
      <4>2. /\ UNCHANGED <<iteration, trace, records, commits>>
            /\ pc[q] = "acting" /\ pc'[q] \in {"top", "concluding"}
        BY <2>1, <3>9 DEF ToolEnds, Conclude, Goes
      <4> QED
        BY <1>3, <2>1, <2>2, <3>2, <4>1, <4>2 DEF OneMore
    <3>10. CASE WriteFinding(q)
      <4>1. UNCHANGED <<iteration, trace>> /\ pc[q] = "acting" /\ pc'[q] = "top"
        BY <2>1, <3>10 DEF WriteFinding, Goes
      <4>2. \/ /\ OneMore(q, {"eval", "finding", "tool_call"})
               /\ records'[q] = records[q] + 1 /\ commits'[q] = commits[q] + 1
            \/ /\ OneMore(q, {"eval", "tool_call"})
               /\ records'[q] = records[q] + 1 /\ commits'[q] = commits[q]
            \/ /\ OneMore(q, {"finding", "tool_call"})
               /\ records'[q] = records[q] /\ commits'[q] = commits[q] + 1
        BY <2>1, <3>3, <3>10, HookSets
        DEF WriteFinding, WriteHooks, Evaluated, Unevaluated, HookLists
      <4> QED
        BY <1>3, <2>1, <2>2, <3>2, <4>1, <4>2 DEF OneMore
    <3>11. CASE GateRun(q)
      <4>1. /\ UNCHANGED <<iteration, trace, commits>>
            /\ pc'[q] \in {"closing", "top"}
        BY <2>1, <3>11 DEF GateRun
      <4>2. \/ OneMore(q, {}) /\ records'[q] = records[q]
            \/ OneMore(q, {"eval"}) /\ records'[q] = records[q] + 1
        BY <2>1, <3>3, <3>11, HookSets DEF GateRun, Evaluated, Unevaluated, HookLists
      <4> QED
        BY <1>3, <2>1, <2>2, <3>2, <4>1, <4>2 DEF OneMore
    <3>12. CASE Complete(q)
      <4>1. UNCHANGED <<iteration, trace, records, commits>> /\ pc'[q] = "done"
        BY <2>1, <3>12 DEF Complete, Goes
      <4>2. log' = Logged(<<"run_complete">>, q) /\ <<"run_complete">> \in HookLists
        BY <1>1, <3>1, <3>12 DEF Complete, HookLists
      <4>3. OneMore(q, {"run_complete"})
        BY <2>1, <4>2, LoggedOnce, HookSets DEF OneMore
      <4> QED
        BY <1>3, <2>1, <2>2, <3>2, <4>1, <4>3 DEF OneMore
    <3> QED
      BY <2>4, <3>4, <3>5, <3>6, <3>7, <3>8, <3>9, <3>10, <3>11, <3>12 DEF Run
  <2> QED
    BY <2>3, <2>4
<1> QED
  BY <1>2, <1>3

\* What holds of a run that is alone, from its start to its report.
AloneInv == OverlapsKnown /\ NothingYet /\ BucketsOwn /\ LogOwn /\ RecordsMatch

LEMMA AloneInvAlways == Spec => []AloneInv
<1>1. Init => AloneInv
  <2> SUFFICES ASSUME Init PROVE AloneInv
    OBVIOUS
  <2>1. \A r \in Runs : pc[r] = "new" /\ ~Active(r) /\ report[r] = None
    BY DEF Init, Active
  <2>2. NothingYet
    BY TelemetryAssumption DEF Init, NothingYet
  <2> QED
    BY <2>1, <2>2 DEF AloneInv, OverlapsKnown, BucketsOwn, LogOwn, RecordsMatch
<1>2. TypeOK /\ TokensCounted /\ AloneInv /\ [Next]_vars => AloneInv'
  <2> SUFFICES ASSUME TypeOK, TokensCounted, AloneInv, [Next]_vars PROVE AloneInv'
    OBVIOUS
  <2>1. CASE UNCHANGED vars
    BY <2>1 DEF AloneInv, OverlapsKnown, NothingYet, BucketsOwn, LogOwn, RecordsMatch,
       Active, Reached, Contains, vars, setup, loop, telemetry
  <2>2. ASSUME NEW q \in Runs, Run(q) PROVE AloneInv'
    BY <2>2, OverlapSteps, NothingYetSteps, BucketsOwnSteps, LogOwnSteps, RecordsMatchSteps
       DEF AloneInv
  <2> QED
    BY <2>1, <2>2 DEF Next
<1> QED
  BY <1>1, <1>2, TypeCorrect, TokensCountedAlways, PTL DEF Spec

\* The cost of a run that was alone is that of the calls to its planner: nothing of another
\* run is in it, and no retry is missing.
THEOREM CostIsOfTheRunAlways == Spec => []CostIsOfTheRun
<1>1. AloneInv => CostIsOfTheRun
  BY DEF AloneInv, BucketsOwn, CostIsOfTheRun, Reached
<1> QED
  BY <1>1, AloneInvAlways, PTL

\* The log of a run that was alone agrees with its report, event by event.
THEOREM LogMatchesReportAlways == Spec => []LogMatchesReport
<1>1. TokensCounted /\ AloneInv => LogMatchesReport
  <2> SUFFICES ASSUME TokensCounted, AloneInv, NEW r \in Runs \ overlapped,
                      report[r] # None, Reached("log")
               PROVE  /\ log[r].run_start = 1 /\ log[r].run_complete = 1
                      /\ log[r].iteration_start = iteration[r]
                      /\ log[r].llm_call = trace[r] /\ log[r].action = trace[r]
                      /\ log[r].eval = records[r] /\ log[r].finding = commits[r]
                      /\ log[r].tool_call <= trace[r]
    BY DEF LogMatchesReport, Reached
  <2>1. pc[r] = "done"
    BY DEF TokensCounted
  <2> QED
    BY <2>1 DEF AloneInv, RecordsMatch
<1> QED
  BY <1>1, TokensCountedAlways, AloneInvAlways, PTL
=============================================================================
