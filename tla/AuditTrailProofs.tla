---------------------------- MODULE AuditTrailProofs ----------------------------
(***************************************************************************)
(* What the trail of evaluations is good for: every dismissed finding can   *)
(* be explained from it, and what it holds against the last action is what  *)
(* the planner is told next, and it is complete and in order.               *)
(***************************************************************************)
EXTENDS AuditSafetyProofs

\* The trail only grows, by a record of the current iteration; only the action gate
\* records actions.
LEMMA TrailGrows ==
    ASSUME TypeOK, [Next]_vars
    PROVE  \/ UNCHANGED records
           \/ \E e \in EvaluationRecord : /\ e.iteration = iteration /\ iteration' = iteration
                                          /\ records' = Append(records, e)
                                          /\ e.gate = "action" => GateAction
                                          /\ e.gate = "run" => RejectConclusion \/ EndRun
<1> DEFINE Grows == \E e \in EvaluationRecord : /\ e.iteration = iteration
                                                /\ iteration' = iteration
                                                /\ records' = Append(records, e)
                                                /\ e.gate = "action" => GateAction
                                                /\ e.gate = "run" => \/ RejectConclusion
                                                                     \/ EndRun
<1>1. ASSUME NEW gate \in {"action", "finding", "run"}, NEW r \in Result,
             NEW target \in FindingId \cup {None}, Log(gate, r, target),
             iteration \in 1..Budget, iteration' = iteration, gate = "action" => GateAction,
             gate = "run" => RejectConclusion \/ EndRun
      PROVE  Grows
  <2>1. Record(gate, r, target) \in EvaluationRecord
    BY <1>1, RecordType
  <2>2. /\ Record(gate, r, target).iteration = iteration
        /\ Record(gate, r, target).gate = gate
    BY DEF Record
  <2> QED
    BY <1>1, <2>1, <2>2 DEF Log
<1>2. CASE GateAction
  <2>1. ActionVerdict \in Result
    BY ActionRulesType DEF ActionVerdict
  <2>2. iteration \in 1..Budget /\ iteration' = iteration /\ Log("action", ActionVerdict, None)
    BY <1>2, BudgetType DEF GateAction, TypeOK
  <2> QED
    BY <1>1, <1>2, <2>1, <2>2
<1>3. CASE RejectFinding \/ CommitFinding \/ DemoteFinding
  <2>1. Candidate(action) \in Finding /\ iteration \in 1..Budget /\ iteration' = iteration
    BY <1>3, CandidateOfDispatch DEF RejectFinding, CommitFinding, DemoteFinding
  <2>2. Candidate(action).id \in FindingId
    BY <2>1 DEF Finding
  <2>3. \/ UNCHANGED records
        \/ \E r \in FindingVerdicts(Candidate(action)) : Log("finding", r, Candidate(action).id)
    BY <1>3 DEF RejectFinding, CommitFinding, DemoteFinding
  <2>4. FindingVerdicts(Candidate(action)) \subseteq Result
    BY FindingVerdictsType
  <2> QED
    BY <1>1, <2>1, <2>2, <2>3, <2>4
<1>4. CASE RejectConclusion \/ EndRun
  <2>1. iteration \in 1..Budget /\ iteration' = iteration
    BY <1>4, BudgetType DEF RejectConclusion, EndRun, GoesOn, Closing, Dispatching, TypeOK
  <2>2. UNCHANGED records \/ \E r \in RunVerdicts : Log("run", r, None)
    BY <1>4 DEF RejectConclusion, EndRun
  <2> QED
    BY <1>1, <1>4, <2>1, <2>2, RunVerdictsType
<1> QED
  BY <1>2, <1>3, <1>4
     DEF Next, Step, Dispatch, Propose, PlannerRaises, SkipActionGate, ActionGateRaises,
         SchemaSample, RunQuery, GetStats, ToolRaises, RunGateRaises, Terminated, vars

\* A record, once in the trail, stays where it is.
LEMMA RecordsStay ==
    ASSUME TypeOK, [Next]_vars, NEW j \in DOMAIN records
    PROVE  j \in DOMAIN records' /\ records'[j] = records[j]
<1>1. records \in Seq(EvaluationRecord)
  BY DEF TypeOK
<1> QED
  BY <1>1, TrailGrows

-----------------------------------------------------------------------------
(* Dismissed findings. *)

\* The ids whose FAIL the trail holds.
Explained == {id \in FindingId : \E j \in DOMAIN records : /\ records[j].gate = "finding"
                                                          /\ records[j].target = id
                                                          /\ records[j].verdict = "fail"}

\* The strengthening: a dismissed finding is explained, and its id is that of the
\* candidate of an iteration that is over.
Underway == pc \in {"gate", "dispatch"}
Settled == {id \in Explained : /\ id[1] = "candidate" /\ id[2] <= iteration
                               /\ Underway => id[2] < iteration}

\* No two have the same id, and the collector never holds an entry under such an id.
Dismissals ==
    /\ \A i \in DOMAIN dismissed : dismissed[i].id \in Settled
    /\ \A i, j \in DOMAIN dismissed : dismissed[i].id = dismissed[j].id => i = j
    /\ \A k \in Committed : findings[k].id[1] = "finding"

\* An explanation is never lost.
LEMMA ExplainedStays ==
    ASSUME TypeOK, [Next]_vars
    PROVE  Explained \subseteq Explained'
<1> SUFFICES ASSUME NEW id \in Explained PROVE id \in Explained'
  OBVIOUS
<1>1. PICK j \in DOMAIN records : /\ records[j].gate = "finding"
                                  /\ records[j].target = id
                                  /\ records[j].verdict = "fail"
  BY DEF Explained
<1> QED
  BY <1>1, RecordsStay DEF Explained

\* The iteration counter moves by one at most, and whenever a new action is proposed.
LEMMA IterationSteps ==
    ASSUME [Next]_vars
    PROVE  /\ iteration' = iteration \/ iteration' = iteration + 1
           /\ Underway' => \/ iteration' = iteration + 1
                           \/ Underway /\ iteration' = iteration
BY DEF Underway, Next, Step, Dispatch, Propose, PlannerRaises, SkipActionGate, GateAction,
       ActionGateRaises, SchemaSample, RunQuery, GetStats, ToolRaises, RejectFinding,
       CommitFinding, DemoteFinding, RejectConclusion, EndRun, RunGateRaises, Terminated, vars

\* What is settled stays so.
LEMMA SettledStays ==
    ASSUME TypeOK, [Next]_vars
    PROVE  Settled \subseteq Settled'
<1> SUFFICES ASSUME NEW id \in Settled PROVE id \in Settled'
  OBVIOUS
<1>1. id[2] \in Nat /\ iteration \in Nat
  BY BudgetType DEF Settled, Explained, FindingId, TypeOK
<1>2. id \in Explained'
  BY ExplainedStays DEF Settled
<1> QED
  BY <1>1, <1>2, IterationSteps DEF Settled

\* Only a rejection dismisses anything: the candidate of the current iteration.
LEMMA DismissedSteps ==
    ASSUME [Next]_vars
    PROVE  \/ dismissed' = dismissed
           \/ RejectFinding /\ dismissed' = Append(dismissed, Candidate(action))
<1>1. CASE RejectFinding
  <2>1. dismissed' = dismissed \/ Dismiss(Candidate(action))
    BY <1>1 DEF RejectFinding
  <2> QED
    BY <1>1, <2>1 DEF Dismiss
<1>2. CASE ~RejectFinding
  <2>1. dismissed' = dismissed
    BY <1>2
       DEF Next, Step, Dispatch, Propose, PlannerRaises, SkipActionGate, GateAction,
           ActionGateRaises, SchemaSample, RunQuery, GetStats, ToolRaises, CommitFinding,
           DemoteFinding, RejectConclusion, EndRun, RunGateRaises, Terminated, vars, findingVars
  <2> QED
    BY <2>1
<1> QED
  BY <1>1, <1>2

\* A rejected candidate is settled by its own rejection.
LEMMA RejectedSettles ==
    ASSUME TypeOK, RejectFinding
    PROVE  Candidate(action).id \in Settled'
<1> DEFINE c == Candidate(action)
<1>1. c \in Finding /\ iteration \in 1..Budget
  BY CandidateOfDispatch DEF RejectFinding
<1>2. c.id \in FindingId
  BY <1>1 DEF Finding
<1>3. PICK r \in FindingVerdicts(c) : r.verdict = "fail" /\ Log("finding", r, c.id)
  BY DEF RejectFinding
<1>4. c.id = <<"candidate", iteration>>
  BY DEF Candidate
<1>5. iteration' = iteration /\ ~Underway'
  BY DEF RejectFinding, Underway
<1> DEFINE e == Record("finding", r, c.id)
<1>6. /\ e \in EvaluationRecord /\ e.gate = "finding" /\ e.target = c.id
      /\ e.verdict = "fail"
  BY <1>1, <1>2, <1>3, RecordType, FindingVerdictsType DEF Record
<1>7. records' = Append(records, e) /\ records \in Seq(EvaluationRecord)
  BY <1>3 DEF Log, TypeOK
<1> HIDE DEF c, e
<1>8. Len(records) + 1 \in DOMAIN records' /\ records'[Len(records) + 1] = e
  BY <1>6, <1>7
<1>9. c.id \in Explained'
  BY <1>2, <1>6, <1>8 DEF Explained
<1>10. c.id[1] = "candidate" /\ c.id[2] = iteration /\ iteration \in Nat
  BY <1>1, <1>4, BudgetType
<1> QED
  BY <1>5, <1>9, <1>10 DEF Settled, c

\* Only entries that a commit creates get an id, and they get one of their own kind.
LEMMA EntryIds ==
    ASSUME TypeOK, [Next]_vars, \A k \in Committed : findings[k].id[1] = "finding"
    PROVE  \A k \in Committed' : findings'[k].id[1] = "finding"
<1>1. CASE UNCHANGED <<findings, concluded>>
  BY <1>1 DEF Committed
<1>2. ASSUME NEW c \in Finding, Write(c)
      PROVE  \A k \in Committed' : findings'[k].id[1] = "finding"
  <2> DEFINE key == <<c.field, c.category>>
  <2>1. /\ findings \in [Keys -> Assessment \cup {None}] /\ key \in Keys
    BY DEF TypeOK, Finding, Keys
  <2>2. findings' = [findings EXCEPT ![key] = Stored(c, findings[key])]
    BY <1>2 DEF Write
  <2>3. Stored(c, findings[key]).id[1] = "finding"
    <3>1. CASE findings[key] = None
      <4>1. Stored(c, findings[key]).id = <<"finding", iteration>>
        BY <3>1 DEF Stored
      <4> QED
        BY <4>1
    <3>2. CASE findings[key] # None
      <4>1. Stored(c, findings[key]).id = findings[key].id
        BY <3>2 DEF Stored
      <4>2. key \in Committed
        BY <2>1, <3>2 DEF Committed
      <4> QED
        BY <4>1, <4>2
    <3> QED
      BY <3>1, <3>2
  <2> HIDE DEF key
  <2> QED
    BY <2>1, <2>2, <2>3 DEF Committed
<1> QED
  BY <1>1, <1>2, CollectorWrites

\* Dismissals is inductive: a candidate's id is new, as its iteration is not over.
LEMMA DismissalsStep ==
    ASSUME TypeOK, TypeOK', Dismissals, [Next]_vars
    PROVE  Dismissals'
<1>1. dismissed \in Seq(Finding)
  BY DEF TypeOK
<1>2. \A i \in DOMAIN dismissed : dismissed[i].id \in Settled
  BY DEF Dismissals
<1>3. Settled \subseteq Settled'
  BY SettledStays
<1>4. \A k \in Committed' : findings'[k].id[1] = "finding"
  BY EntryIds DEF Dismissals
<1>5. CASE UNCHANGED dismissed
  <2>1. \A i \in DOMAIN dismissed' : dismissed'[i].id \in Settled'
    BY <1>2, <1>3, <1>5
  <2> QED
    BY <1>4, <1>5, <2>1 DEF Dismissals
<1>6. CASE RejectFinding /\ dismissed' = Append(dismissed, Candidate(action))
  <2> DEFINE c == Candidate(action)
  <2>1. c \in Finding /\ c.id \in Settled'
    BY <1>6, CandidateOfDispatch, RejectedSettles DEF RejectFinding
  <2>2. \A i \in DOMAIN dismissed : dismissed[i].id # c.id
    <3>1. c.id = <<"candidate", iteration>> /\ Underway
      BY <1>6 DEF Candidate, RejectFinding, Dispatching, Underway
    <3>2. \A i \in DOMAIN dismissed : dismissed[i].id[2] < iteration
      BY <1>2, <3>1 DEF Settled
    <3>3. iteration \in Nat
      BY BudgetType DEF TypeOK
    <3> HIDE DEF c
    <3> QED
      BY <3>1, <3>2, <3>3
  <2>3. dismissed' = Append(dismissed, c)
    BY <1>6
  <2> HIDE DEF c
  <2>4. /\ DOMAIN dismissed' = 1..(Len(dismissed) + 1)
        /\ DOMAIN dismissed = 1..Len(dismissed) /\ Len(dismissed) \in Nat
        /\ dismissed'[Len(dismissed) + 1] = c
        /\ \A i \in DOMAIN dismissed : dismissed'[i] = dismissed[i]
    BY <1>1, <2>1, <2>3
  <2>5. \A i \in DOMAIN dismissed' : i = Len(dismissed) + 1 \/ i \in DOMAIN dismissed
    BY <2>4
  <2>6. \A i \in DOMAIN dismissed' : dismissed'[i].id \in Settled'
    BY <1>2, <1>3, <2>1, <2>4, <2>5
  <2>7. \A i, j \in DOMAIN dismissed' : dismissed'[i].id = dismissed'[j].id => i = j
    BY <2>2, <2>4, <2>5 DEF Dismissals
  <2> QED
    BY <1>4, <2>6, <2>7 DEF Dismissals
<1> QED
  BY <1>5, <1>6, DismissedSteps

\* Every dismissed finding can be explained from the trail, once and under an id of its
\* own.
THEOREM DismissedAreExplainedAlways == Spec => []DismissedAreExplained
<1>1. Init => Dismissals
  BY DEF Init, Dismissals, Committed
<1>2. Dismissals => DismissedAreExplained
  <2> SUFFICES ASSUME Dismissals PROVE DismissedAreExplained
    OBVIOUS
  <2>1. \A i \in DOMAIN dismissed, k \in Committed : findings[k].id # dismissed[i].id
    BY DEF Dismissals, Settled
  <2>2. \A i \in DOMAIN dismissed : dismissed[i].id \in Explained
    BY DEF Dismissals, Settled
  <2> QED
    BY <2>1, <2>2 DEF Dismissals, Explained, DismissedAreExplained
<1> QED
  BY <1>1, <1>2, DismissalsStep, TypeCorrect, PTL DEF Spec

-----------------------------------------------------------------------------
(* Critiques. *)

Sources == {"action", "finding", "run", "error"}

\* The strengthening: no record and no observation is of an iteration to come, nor of the
\* current one before its gate was asked or its tool run; an action under way has nothing
\* to be blamed for and no critique before it; and an action that is over has its own.
Heard == /\ \A j \in DOMAIN records : /\ records[j].iteration <= iteration
                                      /\ pc = "gate" => records[j].iteration < iteration
         /\ observation # None => /\ observation.iteration <= iteration
                                  /\ Underway => observation.iteration < iteration
         /\ Underway => critique = None /\ \A source \in Sources : ~Blames(source)
         /\ CritiqueIsCurrent

\* What each source is blamed by, before and after a step.
LEMMA BlamesCases ==
    /\ Blames("error") <=> Raised
    /\ Blames("action") <=> Failed("action")
    /\ Blames("run") <=> Failed("run")
    /\ Blames("finding") <=> Failed("finding") /\ config.rejectedPolicy = "log_only"
    /\ Blames("error")' <=> Raised'
    /\ Blames("action")' <=> Failed("action")'
    /\ Blames("run")' <=> Failed("run")'
    /\ Blames("finding")' <=> Failed("finding")' /\ config'.rejectedPolicy = "log_only"
BY DEF Blames

\* A result that is logged adds a failure of its gate when it is a FAIL, and no other.
LEMMA LoggedFailure ==
    ASSUME TypeOK, NEW gate \in {"action", "finding", "run"}, NEW r \in Result,
           NEW target \in FindingId \cup {None}, Log(gate, r, target),
           iteration \in 1..Budget, iteration' = iteration, NEW g
    PROVE  Failed(g)' <=> Failed(g) \/ (g = gate /\ r.verdict = "fail")
<1> DEFINE e == Record(gate, r, target)
<1>1. /\ e \in EvaluationRecord /\ e.gate = gate /\ e.verdict = r.verdict
      /\ e.iteration = iteration
  BY RecordType DEF Record
<1>2. records' = Append(records, e) /\ records \in Seq(EvaluationRecord)
  BY DEF Log, TypeOK
<1> HIDE DEF e
<1>3. /\ DOMAIN records' = DOMAIN records \cup {Len(records) + 1}
      /\ records'[Len(records) + 1] = e
      /\ \A j \in DOMAIN records : records'[j] = records[j]
  BY <1>1, <1>2
<1> QED
  BY <1>1, <1>3 DEF Failed

\* A verdict of the finding gate is logged as such.
LEMMA FindingLogged ==
    ASSUME TypeOK, Dispatching("write_finding"), Constructible(action), iteration' = iteration,
           NEW r \in FindingVerdicts(Candidate(action)),
           Log("finding", r, Candidate(action).id), NEW g
    PROVE  Failed(g)' <=> Failed(g) \/ (g = "finding" /\ r.verdict = "fail")
<1>1. Candidate(action) \in Finding /\ iteration \in 1..Budget
  BY CandidateOfDispatch
<1>2. Candidate(action).id \in FindingId /\ r \in Result
  BY <1>1, FindingVerdictsType DEF Finding
<1> QED
  BY <1>1, <1>2, LoggedFailure

\* Only the dispatch of a tool makes an observation, of the iteration that ends with it;
\* and only an exception makes one of an error.
LEMMA ObservationSteps ==
    ASSUME TypeOK, [Next]_vars
    PROVE  \/ observation' = observation
           \/ /\ observation' \in Observation /\ observation'.iteration = iteration
              /\ pc = "dispatch" /\ pc' = "propose" /\ iteration' = iteration
              /\ observation'.of = "error" => ToolRaises
<1> DEFINE Observed == /\ observation' \in Observation /\ observation'.iteration = iteration
                       /\ pc = "dispatch" /\ pc' = "propose" /\ iteration' = iteration
                       /\ observation'.of = "error" => ToolRaises
<1>1. ASSUME NEW what \in {"schema_sample", "run_query", "get_stats", "write_finding", "error",
                           "demotion"},
             NEW word \in BOOLEAN, observation' = Observe(what, word), pc = "dispatch",
             pc' = "propose", iteration' = iteration, what = "error" => ToolRaises
      PROVE  Observed
  <2>1. iteration \in 1..Budget
    BY <1>1, BudgetType DEF TypeOK
  <2>2. /\ Observe(what, word) \in Observation /\ Observe(what, word).iteration = iteration
        /\ Observe(what, word).of = what
    BY <2>1, ObserveType DEF Observe
  <2> QED
    BY <1>1, <2>2
<1> SUFFICES observation' = observation \/ Observed
  OBVIOUS
<1> HIDE DEF Observed
<1>2. CASE SchemaSample
  BY <1>1, <1>2 DEF SchemaSample, Dispatching
<1>3. CASE RunQuery \/ GetStats
  BY <1>1, <1>3, LoopAssumption DEF RunQuery, GetStats, Dispatching
<1>4. CASE ToolRaises
  BY <1>1, <1>4, LoopAssumption DEF ToolRaises
<1>5. CASE RejectFinding
  BY <1>1, <1>5 DEF RejectFinding, Dispatching
<1>6. CASE CommitFinding
  BY <1>1, <1>6, LoopAssumption DEF CommitFinding, Announce, Dispatching
<1>7. CASE DemoteFinding
  <2>1. PICK word \in Echoes : Announce(Observe("demotion", word))
    BY <1>7 DEF DemoteFinding
  <2>2. \/ observation' = Observe("demotion", word)
        \/ \E w \in Echoes : observation' = Observe("write_finding", w)
    BY <2>1 DEF Announce
  <2> QED
    BY <1>1, <1>7, <2>2, LoopAssumption DEF DemoteFinding, Dispatching
<1> QED
  BY <1>2, <1>3, <1>4, <1>5, <1>6, <1>7
     DEF Next, Step, Dispatch, Propose, PlannerRaises, SkipActionGate, GateAction,
         ActionGateRaises, RejectConclusion, EndRun, RunGateRaises, Terminated, vars

\* A critique says something, about the current iteration.
LEMMA CritiqueOfNow ==
    ASSUME NEW source \in Sources, iteration \in 1..Budget
    PROVE  /\ Critique(source) # None /\ Critique(source).iteration = iteration
           /\ Critique(source).from = source
<1>1. Critique(source) \in CritiqueType
  BY DEF Critique, CritiqueType, Sources
<1> QED
  BY <1>1, NoneAssumption DEF Critique

\* A critique of the one source that is to be blamed is current.
LEMMA BlameTold ==
    ASSUME NEW source \in Sources, iteration \in 1..Budget, iteration' = iteration,
           critique' = Critique(source), Blames(source)',
           \A q \in Sources \ {source} : ~Blames(q)'
    PROVE  CritiqueIsCurrent'
BY CritiqueOfNow DEF CritiqueIsCurrent, Sources

\* Where nothing is to be blamed no critique is current.
LEMMA NothingToBlame ==
    ASSUME critique' = None, \A q \in Sources : ~Blames(q)'
    PROVE  CritiqueIsCurrent'
BY DEF CritiqueIsCurrent, Sources

\* No record is of an iteration to come, and a new action has none.
LEMMA RecordsOfThePast ==
    ASSUME TypeOK, Heard, [Next]_vars
    PROVE  \A j \in DOMAIN records' : /\ records'[j].iteration <= iteration'
                                      /\ pc' = "gate" => records'[j].iteration < iteration'
<1>1. records \in Seq(EvaluationRecord) /\ iteration \in Nat
  BY BudgetType DEF TypeOK
<1>2. \A j \in DOMAIN records : records[j].iteration \in Nat
  <2>1. \A j \in DOMAIN records : records[j] \in EvaluationRecord
    BY <1>1
  <2> QED
    BY <2>1, BudgetType DEF EvaluationRecord
<1>3. CASE records' = records
  <2>1. \/ iteration' = iteration /\ (pc' = "gate" => pc = "gate")
        \/ iteration' = iteration + 1
    BY <1>3 DEF Next, Step, Dispatch, Propose, PlannerRaises, SkipActionGate, GateAction,
       ActionGateRaises, SchemaSample, RunQuery, GetStats, ToolRaises, RejectFinding,
       CommitFinding, DemoteFinding, RejectConclusion, EndRun, RunGateRaises, Terminated, vars
  <2> QED
    BY <1>1, <1>2, <1>3, <2>1 DEF Heard
<1>4. ASSUME NEW e \in EvaluationRecord, e.iteration = iteration, iteration' = iteration,
             records' = Append(records, e)
      PROVE  \A j \in DOMAIN records' : /\ records'[j].iteration <= iteration'
                                        /\ pc' = "gate" => records'[j].iteration < iteration'
  <2>1. records' # records
    BY <1>1, <1>4
  <2>2. pc' # "gate"
    BY <2>1 DEF Next, Step, Dispatch, Propose, PlannerRaises, SkipActionGate, GateAction,
       ActionGateRaises, SchemaSample, RunQuery, GetStats, ToolRaises, RejectFinding,
       CommitFinding, DemoteFinding, RejectConclusion, EndRun, RunGateRaises, Terminated, vars
  <2>3. \A j \in DOMAIN records' : \/ j \in DOMAIN records /\ records'[j] = records[j]
                                   \/ records'[j] = e
    BY <1>1, <1>4
  <2> QED
    BY <1>1, <1>4, <2>2, <2>3 DEF Heard
<1> QED
  BY <1>3, <1>4, TrailGrows

\* No observation is of an iteration to come, and a new action has none.
LEMMA ObservationsOfThePast ==
    ASSUME TypeOK, Heard, [Next]_vars
    PROVE  observation' # None => /\ observation'.iteration <= iteration'
                                  /\ Underway' => observation'.iteration < iteration'
<1>1. /\ iteration \in Nat
      /\ observation # None => observation.iteration \in Nat
  BY BudgetType DEF TypeOK, Observation
<1>2. CASE observation' = observation
  BY <1>1, <1>2, IterationSteps DEF Heard
<1>3. CASE observation'.iteration = iteration /\ pc' = "propose" /\ iteration' = iteration
  BY <1>1, <1>3 DEF Underway
<1> QED
  BY <1>2, <1>3, ObservationSteps

\* Heard is inductive.
LEMMA HeardStep ==
    ASSUME TypeOK, Heard, [Next]_vars
    PROVE  Heard'
<1> DEFINE Now == /\ Underway' => critique' = None /\ \A source \in Sources : ~Blames(source)'
                  /\ CritiqueIsCurrent'
<1> SUFFICES Now
  BY RecordsOfThePast, ObservationsOfThePast DEF Heard
<1>1. Underway => iteration \in 1..Budget
  BY BudgetType DEF TypeOK, Underway
<1>2. Underway => /\ critique = None
                  /\ ~Failed("action") /\ ~Failed("run") /\ ~Raised
                  /\ ~(Failed("finding") /\ config.rejectedPolicy = "log_only")
  BY BlamesCases DEF Heard, Sources
<1>3. config' = config
  BY ConfigConstant
<1>4. ASSUME ~ToolRaises, Underway, iteration' = iteration
      PROVE  ~Raised'
  <2>1. CASE observation' = observation
    BY <1>2, <1>4, <2>1 DEF Raised
  <2>2. CASE observation'.of = "error" => ToolRaises
    BY <1>4, <2>2 DEF Raised
  <2> QED
    BY <2>1, <2>2, ObservationSteps
<1>5. CASE \E a \in Proposals : Propose(a)
  <2>1. pc' = "gate" /\ critique' = None /\ Underway'
    BY <1>5 DEF Propose, Underway
  <2>2. records' = records /\ records \in Seq(EvaluationRecord) /\ iteration' \in Nat
    BY <1>5, BudgetType DEF Propose, TypeOK
  <2>3. \A j \in DOMAIN records' : records'[j].iteration \in Nat
    <3>1. \A j \in DOMAIN records : records[j] \in EvaluationRecord
      BY <2>2
    <3> QED
      BY <2>2, <3>1, BudgetType DEF EvaluationRecord
  <2>4. \A g : ~Failed(g)'
    BY <2>1, <2>2, <2>3, RecordsOfThePast DEF Failed
  <2>5. ~Raised'
    BY <2>1, <2>2, ObservationsOfThePast DEF Raised
  <2>6. \A source \in Sources : ~Blames(source)'
    BY <2>4, <2>5, BlamesCases DEF Sources
  <2> QED
    BY <2>1, <2>6, NothingToBlame
<1>6. CASE PlannerRaises \/ ActionGateRaises \/ EndRun \/ RunGateRaises
  BY <1>6 DEF PlannerRaises, ActionGateRaises, EndRun, RunGateRaises, Underway,
     CritiqueIsCurrent
<1>7. CASE SkipActionGate \/ SchemaSample \/ RunQuery \/ GetStats
  <2>1. UNCHANGED <<iteration, records, critique>> /\ Underway /\ ~ToolRaises
    BY <1>7 DEF SkipActionGate, SchemaSample, RunQuery, GetStats, Dispatching, Underway,
       ToolRaises, Observe
  <2>2. \A g : Failed(g)' <=> Failed(g)
    BY <2>1 DEF Failed
  <2>3. \A source \in Sources : ~Blames(source)'
    BY <1>2, <1>3, <1>4, <2>1, <2>2, BlamesCases DEF Sources
  <2> QED
    BY <1>2, <2>1, <2>3, NothingToBlame
<1>8. CASE GateAction
  <2>1. /\ Log("action", ActionVerdict, None) /\ iteration' = iteration /\ Underway
        /\ ~ToolRaises /\ ActionVerdict \in Result
    BY <1>8, ActionRulesType DEF GateAction, Underway, ToolRaises, ActionVerdict
  <2>2. \A g : Failed(g)' <=> Failed(g) \/ (g = "action" /\ ActionVerdict.verdict = "fail")
    BY <1>1, <2>1, LoggedFailure
  <2>3. CASE ActionVerdict.verdict = "fail"
    <3>1. critique' = Critique("action") /\ ~Underway'
      BY <1>8, <2>3 DEF GateAction, Underway
    <3>2. Blames("action")' /\ \A q \in Sources \ {"action"} : ~Blames(q)'
      BY <1>2, <1>3, <1>4, <2>1, <2>2, <2>3, BlamesCases DEF Sources
    <3> QED
      BY <1>1, <2>1, <3>1, <3>2, BlameTold DEF Sources
  <2>4. CASE ActionVerdict.verdict # "fail"
    <3>1. critique' = None
      BY <1>2, <1>8, <2>1, <2>4 DEF GateAction
    <3>2. \A q \in Sources : ~Blames(q)'
      BY <1>2, <1>3, <1>4, <2>1, <2>2, <2>4, BlamesCases DEF Sources
    <3> QED
      BY <3>1, <3>2, NothingToBlame
  <2> QED
    BY <2>3, <2>4
<1>9. CASE ToolRaises
  <2>1. /\ UNCHANGED <<iteration, records>> /\ Underway /\ ~Underway'
        /\ critique' = Critique("error")
    BY <1>9 DEF ToolRaises, Explain, Underway
  <2>2. \A g : Failed(g)' <=> Failed(g)
    BY <2>1 DEF Failed
  <2>3. Raised'
    <3>1. PICK word \in Echoes : observation' = Observe("error", word)
      BY <1>9 DEF ToolRaises
    <3>2. Observe("error", word) \in Observation
      BY <1>1, <2>1, <3>1, ObserveType, LoopAssumption
    <3> QED
      BY <2>1, <3>1, <3>2, NoneAssumption DEF Raised, Observe
  <2>4. Blames("error")' /\ \A q \in Sources \ {"error"} : ~Blames(q)'
    BY <1>2, <1>3, <2>1, <2>2, <2>3, BlamesCases DEF Sources
  <2> QED
    BY <1>1, <2>1, <2>4, BlameTold DEF Sources
<1>10. CASE RejectFinding \/ CommitFinding \/ DemoteFinding
  <2>1. /\ Dispatching("write_finding") /\ Constructible(action) /\ iteration' = iteration
        /\ Underway /\ ~Underway'
    BY <1>10 DEF RejectFinding, CommitFinding, DemoteFinding, Dispatching, Underway
  <2>2. ~Failed("action")' /\ ~Failed("run")'
    <3>1. \/ UNCHANGED records
          \/ \E r \in FindingVerdicts(Candidate(action)) :
                Log("finding", r, Candidate(action).id)
      BY <1>10 DEF RejectFinding, CommitFinding, DemoteFinding
    <3>2. CASE UNCHANGED records
      BY <1>2, <2>1, <3>2 DEF Failed
    <3> QED
      BY <1>2, <2>1, <3>1, <3>2, FindingLogged
  <2>3. ~Raised'
    <3>1. \/ observation' = observation
          \/ \E what \in {"write_finding", "demotion"}, word \in BOOLEAN :
                observation' = Observe(what, word)
      <4>1. CASE RejectFinding
        BY <4>1 DEF RejectFinding
      <4>2. CASE CommitFinding
        BY <4>2, LoopAssumption DEF CommitFinding, Announce
      <4>3. CASE DemoteFinding
        BY <4>3, LoopAssumption DEF DemoteFinding, Announce
      <4> QED
        BY <1>10, <4>1, <4>2, <4>3
    <3> QED
      BY <1>2, <2>1, <3>1 DEF Raised, Observe
  <2>4. CASE RejectFinding /\ config.rejectedPolicy = "log_only"
    <3>1. critique' = Critique("finding")
      BY <2>4 DEF RejectFinding, Dismiss
    <3>2. Failed("finding")'
      BY <2>1, <2>4, FindingLogged DEF RejectFinding
    <3>3. Blames("finding")' /\ \A q \in Sources \ {"finding"} : ~Blames(q)'
      BY <1>3, <2>2, <2>3, <2>4, <3>2, BlamesCases DEF Sources
    <3> QED
      BY <1>1, <2>1, <3>1, <3>3, BlameTold DEF Sources
  <2>5. CASE ~(RejectFinding /\ config.rejectedPolicy = "log_only")
    <3>1. critique' = None
      BY <1>2, <1>10, <2>1, <2>5 DEF RejectFinding, CommitFinding, DemoteFinding
    <3>2. ~(Failed("finding")' /\ config.rejectedPolicy = "log_only")
      <4>1. CASE CommitFinding /\ UNCHANGED records
        BY <1>2, <2>1, <4>1 DEF Failed
      <4>2. CASE CommitFinding /\ ~UNCHANGED records
        BY <1>2, <2>1, <4>2, FindingLogged DEF CommitFinding
      <4> QED
        BY <1>10, <2>5, <4>1, <4>2 DEF RejectFinding, DemoteFinding
    <3>3. \A q \in Sources : ~Blames(q)'
      BY <1>3, <2>2, <2>3, <3>2, BlamesCases DEF Sources
    <3> QED
      BY <2>1, <3>1, <3>3, NothingToBlame
  <2> QED
    BY <2>4, <2>5
<1>11. CASE RejectConclusion
  <2>1. PICK r \in RunVerdicts : r.verdict = "fail" /\ Log("run", r, None)
    BY <1>11 DEF RejectConclusion, GoesOn
  <2>2. /\ iteration' = iteration /\ Underway /\ ~Underway' /\ critique' = Critique("run")
        /\ observation' = observation
    BY <1>11 DEF RejectConclusion, GoesOn, Dispatching, Underway
  <2>3. \A g : Failed(g)' <=> Failed(g) \/ g = "run"
    BY <1>1, <2>1, <2>2, RunVerdictsType, LoggedFailure
  <2>4. ~Raised'
    BY <1>2, <2>2 DEF Raised
  <2>5. Blames("run")' /\ \A q \in Sources \ {"run"} : ~Blames(q)'
    BY <1>2, <1>3, <2>2, <2>3, <2>4, BlamesCases DEF Sources
  <2> QED
    BY <1>1, <2>2, <2>5, BlameTold DEF Sources
<1>12. CASE UNCHANGED vars
  BY <1>12 DEF vars, Heard, Underway, Blames, Failed, Raised, CritiqueIsCurrent
<1> QED
  BY <1>5, <1>6, <1>7, <1>8, <1>9, <1>10, <1>11, <1>12 DEF Next, Step, Dispatch, Terminated

\* A run starts with nothing heard.
LEMMA HeardInit == Init => Heard
BY BlamesCases DEF Init, Heard, Underway, CritiqueIsCurrent, Failed, Raised

\* The planner is prompted with a critique exactly when its previous action was failed by a
\* gate or raised an exception, and the critique is of that, but for the findings the
\* policy passes over.
THEOREM CritiqueIsCurrentAlways == Spec => []CritiqueIsCurrent
<1>1. Heard => CritiqueIsCurrent
  BY DEF Heard
<1> QED
  BY <1>1, HeardInit, HeardStep, TypeCorrect, PTL DEF Spec

-----------------------------------------------------------------------------
(* The trail beside the trace. *)

ActionRecords(i) == {j \in DOMAIN records : records[j].gate = "action"
                                             /\ records[j].iteration = i}
Refused(i) == \E j \in DOMAIN records : records[j].gate = "run" /\ records[j].verdict = "fail"
                                         /\ records[j].iteration = i

\* The strengthening: only the action that is at the gate, or was refused by no more than
\* an exception of it, lacks its record; and what is continued has budget left.
Traced ==
    /\ pc # "crashed" => Len(history) = iteration
    /\ \A i, j \in DOMAIN records : i < j => records[i].iteration <= records[j].iteration
    /\ RulesGateActions =>
         \A i \in DOMAIN history : \/ pc \in {"gate", "crashed"} /\ i = iteration
                                   \/ \E j : ActionRecords(i) = {j}
    /\ \A i \in DOMAIN history :
         /\ history[i].continued <=> Refused(i) /\ ~(pc = "done" /\ i = iteration)
         /\ history[i].continued => i # Budget

\* A run that is over does nothing any more.
LEMMA EndedStays ==
    ASSUME [Next]_vars, Ended
    PROVE  UNCHANGED vars
BY DEF Next, Step, Dispatch, Propose, PlannerRaises, SkipActionGate, GateAction, ActionGateRaises,
       SchemaSample, RunQuery, GetStats, ToolRaises, RejectFinding, CommitFinding, DemoteFinding,
       RejectConclusion, EndRun, RunGateRaises, Terminated, Dispatching, Closing, GoesOn,
       Ended

\* The rejection of a conclusion marks the last proposal, and no other.
LEMMA RejectionContinues ==
    ASSUME TypeOK, RejectConclusion
    PROVE  /\ iteration' = iteration
           /\ DOMAIN history' = DOMAIN history /\ Len(history') = Len(history)
           /\ \A i \in DOMAIN history : /\ i # Len(history) => history'[i] = history[i]
                                        /\ i = Len(history) => history'[i].continued
<1> DEFINE entry == [action : AgentAction, continued : BOOLEAN]
<1>1. \A e \in entry : [e EXCEPT !.continued = TRUE].continued
  OBVIOUS
<1>2. history \in Seq(entry)
  BY DEF TypeOK
<1>3. /\ history' = [history EXCEPT ![Len(history)].continued = TRUE]
      /\ iteration' = iteration
  BY DEF RejectConclusion
<1> HIDE DEF entry
<1>4. /\ DOMAIN history' = DOMAIN history /\ Len(history') = Len(history)
      /\ \A i \in DOMAIN history : i # Len(history) => history'[i] = history[i]
  BY <1>2, <1>3
<1>5. ASSUME NEW i \in DOMAIN history, i = Len(history)
      PROVE  history'[i].continued
  <2>1. history'[i] = [history[i] EXCEPT !.continued = TRUE]
    BY <1>2, <1>3, <1>5
  <2>2. history[i] \in entry
    BY <1>2
  <2> QED
    BY <1>1, <2>1, <2>2
<1> QED
  BY <1>3, <1>4, <1>5

\* The trace only grows, by a proposal that has not been continued, and only the last
\* proposal of it is ever marked as continued.
LEMMA HistorySteps ==
    ASSUME TypeOK, [Next]_vars
    PROVE  \/ history' = history /\ (pc' # "crashed" => iteration' = iteration)
           \/ /\ Len(history') = Len(history) + 1 /\ iteration' = iteration + 1
              /\ pc' = "gate" /\ pc = "propose" /\ records' = records
              /\ DOMAIN history' = DOMAIN history \cup {Len(history) + 1}
              /\ ~history'[Len(history) + 1].continued
              /\ \A i \in DOMAIN history : history'[i] = history[i]
           \/ /\ RejectConclusion /\ iteration' = iteration
              /\ DOMAIN history' = DOMAIN history /\ Len(history') = Len(history)
              /\ \A i \in DOMAIN history : /\ i # Len(history) => history'[i] = history[i]
                                           /\ i = Len(history) => history'[i].continued
<1>1. history \in Seq([action : AgentAction, continued : BOOLEAN])
  BY DEF TypeOK
<1>2. ASSUME NEW a \in Proposals, Propose(a)
      PROVE  /\ Len(history') = Len(history) + 1 /\ iteration' = iteration + 1
             /\ pc' = "gate" /\ pc = "propose" /\ records' = records
             /\ DOMAIN history' = DOMAIN history \cup {Len(history) + 1}
             /\ ~history'[Len(history) + 1].continued
             /\ \A i \in DOMAIN history : history'[i] = history[i]
  <2> DEFINE h == [action |-> a, continued |-> FALSE]
  <2>1. h \in [action : AgentAction, continued : BOOLEAN] /\ ~h.continued
    BY LoopAssumption
  <2>2. history' = Append(history, h)
    BY <1>2 DEF Propose
  <2> HIDE DEF h
  <2>3. /\ Len(history') = Len(history) + 1
        /\ history'[Len(history) + 1] = h
        /\ DOMAIN history' = DOMAIN history \cup {Len(history) + 1}
        /\ \A i \in DOMAIN history : history'[i] = history[i]
    BY <1>1, <2>1, <2>2
  <2> QED
    BY <1>2, <2>1, <2>3 DEF Propose
<1>3. CASE RejectConclusion
  BY <1>3, RejectionContinues
<1>4. CASE ~RejectConclusion /\ ~\E a \in Proposals : Propose(a)
  BY <1>4 DEF Next, Step, Dispatch, PlannerRaises, SkipActionGate, GateAction, ActionGateRaises,
     SchemaSample, RunQuery, GetStats, ToolRaises, RejectFinding, CommitFinding, DemoteFinding,
     EndRun, RunGateRaises, Terminated, vars
<1> QED
  BY <1>2, <1>3, <1>4

\* Only the action gate changes which actions have a record.
LEMMA ActionRecordsStay ==
    ASSUME TypeOK, [Next]_vars, ~GateAction
    PROVE  \A i : ActionRecords(i)' = ActionRecords(i)
<1>1. CASE records' = records
  BY <1>1 DEF ActionRecords
<1>2. ASSUME NEW e \in EvaluationRecord, records' = Append(records, e), e.gate # "action"
      PROVE  \A i : ActionRecords(i)' = ActionRecords(i)
  <2>1. records \in Seq(EvaluationRecord)
    BY DEF TypeOK
  <2>2. /\ DOMAIN records' = DOMAIN records \cup {Len(records) + 1}
        /\ records'[Len(records) + 1] = e
        /\ \A j \in DOMAIN records : records'[j] = records[j]
    BY <1>2, <2>1
  <2> QED
    BY <1>2, <2>2 DEF ActionRecords
<1> QED
  BY <1>1, <1>2, TrailGrows

\* Only the run gate refuses a conclusion, that of the current iteration, and for good.
LEMMA RefusedSteps ==
    ASSUME TypeOK, [Next]_vars, NEW i, i # iteration \/ ~(RejectConclusion \/ EndRun)
    PROVE  Refused(i)' <=> Refused(i)
<1>1. CASE records' = records
  BY <1>1 DEF Refused
<1>2. ASSUME NEW e \in EvaluationRecord, records' = Append(records, e),
             e.gate # "run" \/ i # e.iteration
      PROVE  Refused(i)' <=> Refused(i)
  <2>1. records \in Seq(EvaluationRecord)
    BY DEF TypeOK
  <2>2. /\ DOMAIN records' = DOMAIN records \cup {Len(records) + 1}
        /\ records'[Len(records) + 1] = e
        /\ \A j \in DOMAIN records : records'[j] = records[j]
    BY <1>2, <2>1
  <2> QED
    BY <1>2, <2>2 DEF Refused
<1> QED
  BY <1>1, <1>2, TrailGrows

\* The rejection of a conclusion is recorded in its iteration.
LEMMA RejectionRefuses ==
    ASSUME TypeOK, RejectConclusion
    PROVE  Refused(iteration)'
<1>1. PICK r \in RunVerdicts : r.verdict = "fail" /\ Log("run", r, None)
  BY DEF RejectConclusion, GoesOn
<1>2. iteration \in 1..Budget /\ iteration' = iteration
  BY BudgetType DEF RejectConclusion, GoesOn, Dispatching, TypeOK
<1> DEFINE e == Record("run", r, None)
<1>3. /\ e \in EvaluationRecord /\ e.gate = "run" /\ e.verdict = "fail"
      /\ e.iteration = iteration
  <2>1. r \in Result
    BY RunVerdictsType
  <2> QED
    BY <1>1, <1>2, <2>1, RecordType DEF Record
<1>4. records' = Append(records, e) /\ records \in Seq(EvaluationRecord)
  BY <1>1 DEF Log, TypeOK
<1> HIDE DEF e
<1>5. Len(records) + 1 \in DOMAIN records' /\ records'[Len(records) + 1] = e
  BY <1>3, <1>4
<1> QED
  BY <1>2, <1>3, <1>5 DEF Refused

\* The action at the gate gets its one record.
LEMMA GateRecords ==
    ASSUME TypeOK, Heard, GateAction
    PROVE  /\ \A i : i = iteration => ActionRecords(i)' = {Len(records) + 1}
           /\ \A i : i # iteration => ActionRecords(i)' = ActionRecords(i)
<1>1. iteration \in 1..Budget /\ pc = "gate"
  BY BudgetType DEF TypeOK, GateAction
<1> DEFINE e == Record("action", ActionVerdict, None)
<1>2. e \in EvaluationRecord /\ e.gate = "action" /\ e.iteration = iteration
  <2>1. ActionVerdict \in Result
    BY ActionRulesType DEF ActionVerdict
  <2> QED
    BY <1>1, <2>1, RecordType DEF Record
<1>3. records' = Append(records, e) /\ records \in Seq(EvaluationRecord)
  BY DEF GateAction, Log, TypeOK
<1> HIDE DEF e
<1>4. /\ DOMAIN records' = DOMAIN records \cup {Len(records) + 1}
      /\ records'[Len(records) + 1] = e
      /\ \A j \in DOMAIN records : records'[j] = records[j]
  BY <1>2, <1>3
<1>5. \A j \in DOMAIN records : records[j].iteration # iteration
  <2>1. \A j \in DOMAIN records : records[j] \in EvaluationRecord
    BY <1>3
  <2>2. \A j \in DOMAIN records : records[j].iteration \in Nat
    BY <2>1, BudgetType DEF EvaluationRecord
  <2> QED
    BY <1>1, <2>2 DEF Heard
<1>6. iteration' = iteration
  BY DEF GateAction
<1> QED
  BY <1>2, <1>4, <1>5, <1>6 DEF ActionRecords

\* Evaluations stay in the order of the iterations.
LEMMA OrderStays ==
    ASSUME TypeOK, Heard, Traced, [Next]_vars
    PROVE  \A i, j \in DOMAIN records' : i < j => records'[i].iteration <= records'[j].iteration
<1>1. records \in Seq(EvaluationRecord)
  BY DEF TypeOK
<1>2. CASE records' = records
  BY <1>2 DEF Traced
<1>3. ASSUME NEW e \in EvaluationRecord, e.iteration = iteration, records' = Append(records, e)
      PROVE  \A i, j \in DOMAIN records' :
                i < j => records'[i].iteration <= records'[j].iteration
  <2>1. /\ DOMAIN records' = 1..(Len(records) + 1) /\ Len(records) \in Nat
        /\ DOMAIN records = 1..Len(records)
        /\ records'[Len(records) + 1] = e
        /\ \A j \in DOMAIN records : records'[j] = records[j]
    BY <1>1, <1>3
  <2> SUFFICES ASSUME NEW i \in DOMAIN records', NEW j \in DOMAIN records', i < j
               PROVE  records'[i].iteration <= records'[j].iteration
    OBVIOUS
  <2>2. i \in DOMAIN records
    BY <2>1
  <2>3. CASE j \in DOMAIN records
    BY <2>1, <2>2, <2>3 DEF Traced
  <2>4. CASE j = Len(records) + 1
    BY <1>3, <2>1, <2>2, <2>4 DEF Heard
  <2> QED
    BY <2>1, <2>3, <2>4
<1> QED
  BY <1>2, <1>3, TrailGrows

\* What a step leaves of the one action record of a proposal: the gate adds it, and nothing
\* takes it away.
LEMMA ActionsTraced ==
    ASSUME TypeOK, Heard, Traced, [Next]_vars, ~Ended, RulesGateActions, NEW i \in DOMAIN history'
    PROVE  (pc' \in {"gate", "crashed"} /\ i = iteration') \/ \E j : ActionRecords(i)' = {j}
<1>1. Len(history) = iteration /\ DOMAIN history = 1..Len(history)
  BY DEF Traced, Ended, TypeOK
<1>2. CASE GateAction
  <2>1. history' = history
    BY <1>2 DEF GateAction
  <2>2. i # iteration => \E j : ActionRecords(i) = {j}
    BY <2>1 DEF Traced
  <2> QED
    BY <1>2, <2>2, GateRecords
<1>3. CASE ~GateAction
  <2>1. ActionRecords(i)' = ActionRecords(i)
    BY <1>3, ActionRecordsStay
  <2>2. CASE i \in DOMAIN history /\ (pc = "gate" => i # iteration)
    BY <2>1, <2>2 DEF Traced, Ended
  <2>3. CASE pc = "gate" /\ i = iteration
    <3>1. ~SkipActionGate
      BY DEF SkipActionGate, RulesGateActions
    <3>2. ActionGateRaises \/ UNCHANGED vars
      BY <1>3, <2>3, <3>1 DEF Next, Step, Dispatch, Propose, PlannerRaises, SchemaSample,
         RunQuery, GetStats, ToolRaises, RejectFinding, CommitFinding, DemoteFinding,
         RejectConclusion, EndRun, RunGateRaises, Terminated, Dispatching, Closing, GoesOn
    <3> QED
      BY <2>3, <3>2 DEF ActionGateRaises, vars
  <2>4. CASE i \notin DOMAIN history
    BY <1>1, <2>4, HistorySteps
  <2> QED
    BY <2>2, <2>3, <2>4
<1> QED
  BY <1>2, <1>3

\* A proposal is marked as continued when its conclude is failed and the run goes on, and
\* the mark stays.
LEMMA ContinuedTraced ==
    ASSUME TypeOK, Heard, Traced, [Next]_vars, ~Ended, NEW i \in DOMAIN history'
    PROVE  /\ history'[i].continued <=> Refused(i)' /\ ~(pc' = "done" /\ i = iteration')
           /\ history'[i].continued => i # Budget
<1>1. /\ DOMAIN history = 1..Len(history) /\ Len(history) = iteration
      /\ iteration \in Nat /\ Budget \in Nat
  BY BudgetType DEF Traced, Ended, TypeOK
<1>2. \A k \in DOMAIN history : /\ history[k].continued <=> Refused(k)
                                /\ history[k].continued => k # Budget
  BY DEF Traced, Ended
<1>3. CASE RejectConclusion
  <2>1. /\ pc' # "done" /\ Refused(iteration)' /\ iteration # Budget
        /\ DOMAIN history' = DOMAIN history
        /\ \A k \in DOMAIN history : /\ k # Len(history) => history'[k] = history[k]
                                     /\ k = Len(history) => history'[k].continued
    <3>1. pc' # "done" /\ Budget - iteration > 0
      BY <1>3 DEF RejectConclusion, GoesOn, RemainingBudget
    <3>2. iteration # Budget
      BY <1>1, <3>1
    <3> QED
      BY <1>3, <3>1, <3>2, RejectionRefuses, RejectionContinues
  <2>2. i # iteration => (Refused(i)' <=> Refused(i))
    BY RefusedSteps
  <2> QED
    <3>1. i \in DOMAIN history
      BY <2>1
    <3>2. CASE i = iteration
      <4>1. \A k : k = iteration' => Refused(k)'
        BY <2>1
      <4>2. iteration' = iteration
        BY <1>3 DEF RejectConclusion
      <4>3. Refused(i)'
        BY <3>2, <4>1, <4>2
      <4>4. history'[i].continued
        BY <1>1, <2>1, <3>1, <3>2
      <4> QED
        BY <2>1, <3>2, <4>3, <4>4
    <3>3. CASE i # iteration
      BY <1>1, <1>2, <2>1, <2>2, <3>1, <3>3
    <3> QED
      BY <3>2, <3>3
<1>4. CASE EndRun
  <2>1. history' = history /\ pc' = "done" /\ iteration' = iteration
    BY <1>4 DEF EndRun
  <2>2. i # iteration => (Refused(i)' <=> Refused(i))
    BY RefusedSteps
  <2>3. i = iteration => ~history[i].continued
    <3>1. CASE Dispatching("conclude")
      <4>1. ~Failed("run")
        BY <3>1, BlamesCases DEF Heard, Underway, Dispatching, Sources
      <4>2. ~Refused(iteration)
        BY <4>1 DEF Failed, Refused
      <4> QED
        BY <1>2, <2>1, <4>2
    <3>2. CASE iteration = Budget
      BY <1>2, <2>1, <3>2
    <3> QED
      BY <1>4, <3>1, <3>2 DEF EndRun, Closing
  <2> QED
    BY <1>2, <2>1, <2>2, <2>3
<1>5. CASE ~RejectConclusion /\ ~EndRun
  <2>1. Refused(i)' <=> Refused(i)
    BY <1>5, RefusedSteps
  <2>2. pc' # "done"
    BY <1>5, RunOverSteps DEF Ended
  <2>3. CASE i \in DOMAIN history /\ history'[i] = history[i]
    BY <1>2, <2>1, <2>2, <2>3
  <2>4. CASE i \notin DOMAIN history
    <3>1. i = iteration + 1 /\ ~history'[i].continued
      BY <1>1, <1>5, <2>4, HistorySteps
    <3>2. ~Refused(i)
      BY <1>1, <3>1 DEF Heard, Refused
    <3> QED
      BY <2>1, <3>1, <3>2
  <2> QED
    BY <1>5, <2>3, <2>4, HistorySteps
<1> QED
  BY <1>3, <1>4, <1>5

\* Traced is inductive, with Heard: the records of other iterations are older.
LEMMA TracedStep ==
    ASSUME TypeOK, Heard, Traced, [Next]_vars
    PROVE  Traced'
<1>1. CASE Ended
  <2>1. UNCHANGED vars
    BY <1>1, EndedStays
  <2>2. UNCHANGED <<config, pc, iteration, history, records>>
    BY <2>1 DEF vars
  <2>3. \A i : ActionRecords(i)' = ActionRecords(i) /\ (Refused(i)' <=> Refused(i))
    BY <2>2 DEF ActionRecords, Refused
  <2>4. RulesGateActions' <=> RulesGateActions
    BY <2>2 DEF RulesGateActions
  <2>5. RulesGateActions' =>
          \A i \in DOMAIN history' : \/ pc' \in {"gate", "crashed"} /\ i = iteration'
                                     \/ \E j : ActionRecords(i)' = {j}
    BY <2>2, <2>3, <2>4 DEF Traced
  <2>6. \A i \in DOMAIN history' :
          /\ history'[i].continued <=> Refused(i)' /\ ~(pc' = "done" /\ i = iteration')
          /\ history'[i].continued => i # Budget
    BY <2>2, <2>3 DEF Traced
  <2> QED
    BY <2>2, <2>5, <2>6, OrderStays DEF Traced
<1>2. CASE ~Ended
  <2>1. Len(history) = iteration /\ iteration \in Nat
    BY <1>2, BudgetType DEF Traced, Ended, TypeOK
  <2>2. pc' # "crashed" => Len(history') = iteration'
    BY <2>1, HistorySteps
  <2>3. RulesGateActions' => RulesGateActions
    BY ConfigConstant DEF RulesGateActions
  <2> QED
    BY <1>2, <2>2, <2>3, ActionsTraced, ContinuedTraced, OrderStays DEF Traced
<1> QED
  BY <1>1, <1>2

\* The report's trail is complete and in order.
THEOREM TrailMatchesTraceAlways == Spec => []TrailMatchesTrace
<1>1. Init => Traced /\ Heard
  BY HeardInit DEF Init, Traced
<1>2. TypeOK /\ Traced => TrailMatchesTrace
  <2> SUFFICES ASSUME TypeOK, Traced PROVE TrailMatchesTrace
    OBVIOUS
  <2>1. ASSUME RulesGateActions, pc \notin {"gate", "crashed"}, NEW i \in DOMAIN history
        PROVE  Cardinality(ActionRecords(i)) = 1
    BY <2>1, FS_Singleton DEF Traced
  <2> QED
    BY <2>1 DEF Traced, TrailMatchesTrace, ActionRecords, Refused
<1> QED
  BY <1>1, <1>2, TracedStep, HeardStep, TypeCorrect, PTL DEF Spec
=============================================================================
