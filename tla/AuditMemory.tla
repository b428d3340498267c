------------------------------ MODULE AuditMemory ------------------------------
(***************************************************************************)
(* Cross-run memory: the audits of one (collection, database) that share a  *)
(* ReportStore.  Each session is one `queryargus run --postgres-url ...`    *)
(* process (cli/main.py run, _load_history, _persist_and_diff): it loads    *)
(* the history, audits, looks for the previous report, diffs against it,    *)
(* saves and emits.  Every database access is a transaction of its own, and *)
(* sessions interleave between them, and between the statements of          *)
(* load_history: in READ COMMITTED each sees what is committed by then.     *)
(* History and previous report are asked for by collection and database     *)
(* only: a session may be of any Cosmos account.                            *)
(* Reviewers label saved findings; what happens inside a label transaction  *)
(* is ReportStore's matter, and here it is one step.                        *)
(*                                                                          *)
(* run_at is read from one clock when the report is built, and no two       *)
(* reports share it.                                                        *)
(***************************************************************************)
EXTENDS AuditHistory

CONSTANTS
    Sessions,
    Contents,       \* what an audit may find: its committed and dismissed findings
    Window,         \* load_history's limit
    MaxFindings,    \* render's max_findings
    MaxLabels       \* bound on label operations

ASSUME MemoryAssumption ==
    /\ IsFiniteSet(Sessions)
    /\ IsFiniteSet(Patterns) /\ Patterns \subseteq DOMAIN FieldOf
    /\ \A c \in Contents : Raised(c) \subseteq Patterns
    /\ Window \in Nat \ {0} /\ MaxFindings \in Nat /\ MaxLabels \in Nat
    /\ None \notin {"tp", "fp"} \cup Labels \cup Sessions

VARIABLES
    clock,
    step,       \* where each session is
    runs,       \* the ids of the last runs, while it loads the history
    history,    \* the HistoricalContext it audits with, or None
    report,     \* the AuditReport it has built, or None
    saved,      \* the sessions whose report is in the store
    label,      \* user_label per saved report and pattern
    labelled    \* number of label operations so far

vars == <<clock, step, runs, history, report, saved, label, labelled>>

\* The rows of argus_reports, with the labels of their findings.
Stored(s) == [id |-> s, runAt |-> report[s].runAt, committed |-> report[s].committed,
              dismissed |-> report[s].dismissed, label |-> label[s]]
Reports == {Stored(s) : s \in saved}

Init ==
    /\ clock = 0
    /\ step = [s \in Sessions |-> "start"]
    /\ runs = [s \in Sessions |-> {}]
    /\ history = [s \in Sessions |-> None]
    /\ report = [s \in Sessions |-> None]
    /\ saved = {}
    /\ label = [s \in Sessions |-> [p \in Patterns |-> None]]
    /\ labelled = 0

Go(s, from, to) == step[s] = from /\ step' = [step EXCEPT ![s] = to]

-----------------------------------------------------------------------------
(* A session. *)

\* _load_history: the first statement of load_history, the last runs.
ReadRuns(s) ==
    /\ Reports # {}
    /\ Go(s, "start", "loading")
    /\ runs' = [runs EXCEPT ![s] = {r.id : r \in Windowed(Reports, Window)}]
    /\ UNCHANGED <<clock, history, report, saved, label, labelled>>

\* There are none: empty_history.
NoRuns(s) ==
    /\ Reports = {}
    /\ Go(s, "start", "auditing")
    /\ history' = [history EXCEPT ![s] = HistoricalContext({}, {})]
    /\ UNCHANGED <<clock, runs, report, saved, label, labelled>>

\* The others: the findings of those runs, of which two statements read what does not
\* change any more, and the verdicts on all reports, those saved since included.
LoadHistory(s) ==
    /\ Go(s, "loading", "auditing")
    /\ history' = [history EXCEPT ![s] =
                      HistoricalContext({r \in Reports : r.id \in runs[s]}, Reports)]
    /\ runs' = [runs EXCEPT ![s] = {}]
    /\ UNCHANGED <<clock, report, saved, label, labelled>>

\* An OperationalError: the audit continues without a history.
LoadFails(s) ==
    /\ step[s] \in {"start", "loading"}
    /\ step' = [step EXCEPT ![s] = "auditing"]
    /\ runs' = [runs EXCEPT ![s] = {}]
    /\ UNCHANGED <<clock, history, report, saved, label, labelled>>

\* ArgusAgent.run returns a report.
AuditEnds(s) ==
    /\ Go(s, "auditing", "built")
    /\ clock' = clock + 1
    /\ \E c \in Contents :
          report' = [report EXCEPT ![s] = [runAt |-> clock, committed |-> c.committed,
                                           dismissed |-> c.dismissed, previous |-> None,
                                           diff |-> NoDiff]]
    /\ UNCHANGED <<runs, history, saved, label, labelled>>

\* get_previous and diff_against.
FindPrevious(s) ==
    /\ Go(s, "built", "compared")
    /\ LET prev == Previous(Reports, report[s].runAt)
       IN report' = IF prev = None THEN report
                    ELSE [report EXCEPT ![s] =
                            [report[s] EXCEPT
                               !.previous = prev.id,
                               !.diff = Diff(report[s].committed, prev.committed)]]
    /\ UNCHANGED <<clock, runs, history, saved, label, labelled>>

\* Mutant of Save: a failure of the store is swallowed.
SaveSwallowed(s) ==
    /\ Go(s, "compared", "saved")
    /\ saved' \in {saved, saved \cup {s}}
    /\ UNCHANGED <<clock, runs, history, report, label, labelled>>

\* store.save.
Save(s) ==
    /\ Go(s, "compared", "saved")
    /\ saved' = saved \cup {s}
    /\ UNCHANGED <<clock, runs, history, report, label, labelled>>

\* _emit_report.
Emit(s) ==
    /\ Go(s, "saved", "emitted")
    /\ UNCHANGED <<clock, runs, history, report, saved, label, labelled>>

\* Nothing is caught but the failure to load: an exception of the store at the start
\* that is no OperationalError, of the audit, of get_previous or of save, or an unknown
\* --output value found at last by _emit_report, ends the process, and what it had not
\* saved is gone.
Fails(s) ==
    /\ step[s] \notin {"emitted", "failed"}
    /\ step' = [step EXCEPT ![s] = "failed"]
    /\ runs' = [runs EXCEPT ![s] = {}]
    /\ history' = [history EXCEPT ![s] = None]
    /\ report' = IF s \in saved THEN report ELSE [report EXCEPT ![s] = None]
    /\ UNCHANGED <<clock, saved, label, labelled>>

-----------------------------------------------------------------------------
(* Reviewers. *)

SetLabel(s, p, l) ==
    /\ s \in saved /\ p \in DOMAIN report[s].committed
    /\ labelled < MaxLabels
    /\ labelled' = labelled + 1
    /\ label' = [label EXCEPT ![s][p] = l]
    /\ UNCHANGED <<clock, step, runs, history, report, saved>>

Session(s) == \/ ReadRuns(s) \/ NoRuns(s) \/ LoadHistory(s) \/ LoadFails(s)
              \/ AuditEnds(s) \/ FindPrevious(s) \/ Save(s) \/ Emit(s) \/ Fails(s)

Next == \/ \E s \in Sessions : Session(s)
        \/ \E s \in Sessions, p \in Patterns, l \in Labels \cup {None} : SetLabel(s, p, l)

Spec == Init /\ [][Next]_vars

-----------------------------------------------------------------------------

\* The diff fields of a report, an AuditReport, and its rows once it is stored.
Diffs == [new : SUBSET Patterns, resolved : SUBSET Patterns,
          regressed : SUBSET {FieldOf[p] : p \in Patterns}]

AuditReport == [runAt : Nat, committed : {c.committed : c \in Contents},
                dismissed : {c.dismissed : c \in Contents},
                previous : Sessions \cup {None}, diff : Diffs]

StoredReport == [id : Sessions, runAt : Nat, committed : {c.committed : c \in Contents},
                 dismissed : {c.dismissed : c \in Contents},
                 label : [Patterns -> Labels \cup {None}]]

ASSUME NoneAssumption == None \notin AuditReport \cup StoredReport

TypeOK ==
    /\ clock \in 0..Cardinality(Sessions)
    /\ step \in [Sessions -> {"start", "loading", "auditing", "built", "compared", "saved",
                              "emitted", "failed"}]
    /\ runs \in [Sessions -> SUBSET Sessions]
    /\ saved \subseteq Sessions
    /\ report \in [Sessions -> AuditReport \cup {None}]
    /\ \A s \in Sessions :
          /\ report[s] # None => report[s].runAt < clock
          /\ step[s] \in {"built", "compared", "saved", "emitted"} => report[s] # None
          /\ step[s] \in {"saved", "emitted"} => s \in saved
    /\ label \in [Sessions -> [Patterns -> Labels \cup {None}]]
    /\ labelled \in 0..MaxLabels

\* The reports of the store that carry a label on p, and what most of them say.
LabelledRuns(p) == {s \in saved : label[s][p] # None}
Majority(p) ==
    LET tp == Cardinality({s \in saved : label[s][p] = "tp"})
        fp == Cardinality({s \in saved : label[s][p] = "fp"})
    IN IF tp > fp THEN "tp" ELSE IF fp > tp THEN "fp" ELSE None

Labelled == {p \in Patterns : LabelledRuns(p) # {}}

\* The runs of W that committed p or had it dismissed.
RaisedIn(W, p) == {s \in W : p \in Raised(report[s])}

\* What stands in the same block of a prompt about the runs W as p does, and may come
\* before it: another verdict that has no run beside it, or what was raised in as many of
\* the runs, or in more, if not in one later than all of those.
Rivals(W, p) ==
    LET often(q) == Cardinality(RaisedIn(W, q))
        asLate(q) == \E s \in RaisedIn(W, q) :
                        \A t \in RaisedIn(W, p) : report[t].runAt <= report[s].runAt
    IN IF often(p) = 0 THEN {q \in Labelled \ {p} : often(q) = 0}
       ELSE {q \in Patterns \ {p} : /\ often(p) >= 2 <=> often(q) >= 2
                                    /\ \/ often(q) > often(p)
                                       \/ often(q) = often(p) /\ asLate(q)}

\* A verdict never goes silent: an audit that loads its history has in its prompt the
\* majority verdict on every labelled pattern, however old the labelled report is and
\* whether or not the pattern came up again, unless max_findings others of its block may
\* come before it; and it has no verdict nobody gave.
VerdictsReachPlanner ==
    [][\A s \in Sessions :
          history'[s] \notin {history[s], None} =>
             LET told == ShownVerdicts(history'[s], MaxFindings)
             IN /\ told \subseteq {<<p, Majority(p)>> : p \in Labelled}
                /\ \A p \in Labelled :
                      \/ <<p, Majority(p)>> \in told
                      \/ Cardinality(Rivals(history'[s].runs, p)) >= MaxFindings]_vars

\* A finding no older report in the store has is among the new findings of its report,
\* whenever that report was compared with any.
NovelFindingsAreNew ==
    \A s \in saved :
        report[s].previous # None =>
            \A p \in DOMAIN report[s].committed :
                (\A q \in saved : report[q].runAt < report[s].runAt
                                    => p \notin DOMAIN report[q].committed)
                => p \in report[s].diff.new

\* What the planner was told and what the report is compared with agree: an audit that
\* loaded runs is compared with the newest of them or with a newer one, however other
\* sessions save and fail meanwhile.
ComparedWithHistory ==
    \A s \in saved :
        history[s] # None =>
            \A r \in history[s].runs :
                /\ report[s].previous # None
                /\ report[report[s].previous].runAt >= report[r].runAt

\* What `queryargus diff` shows and what the newest report says of itself agree, also when
\* sessions saved out of turn: they are compared with one report and differ from it in the
\* same way, or the command has found one that is newer, saved since; and it never takes the
\* newer of the two for the previous one.
DiffAgreesWithReport ==
    Cardinality(saved) >= 2 =>
        LET shown == DiffCommand(Reports)
            own == report[shown.current]
        IN own.previous # None =>
              /\ report[own.previous].runAt <= report[shown.previous].runAt
              /\ report[shown.previous].runAt < own.runAt
              /\ own.previous = shown.previous => own.diff = shown.diff

-----------------------------------------------------------------------------
(* What the documentation says and the code does not do. *)

\* UserVerdictHistory.last_label is the most recent verdict: a label just given is the
\* last one of the history that would be loaded next.
LastLabelIsLatest ==
    [][\A s \in Sessions, p \in Patterns :
          label'[s][p] \notin {label[s][p], None} =>
             HistoricalContext(Windowed(Reports, Window), Reports)'.verdicts[p].last
               = label'[s][p]]_vars
=============================================================================
