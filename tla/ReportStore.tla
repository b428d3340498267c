------------------------------ MODULE ReportStore ------------------------------
(***************************************************************************)
(* ReportStore.save and ReportStore.update_user_label (storage/postgres.py) *)
(* as transactions of concurrent clients on PostgreSQL.                     *)
(*                                                                          *)
(* Every call is one READ COMMITTED transaction (psycopg2's default): each  *)
(* statement reads what is committed when it starts, and a row it writes    *)
(* stays locked until the transaction ends.  A label is stored twice: in    *)
(* the user_label column of the finding's row, and in the finding's entry   *)
(* inside the raw_report document of the report's row (the mirror), which   *)
(* is what get(report_id) returns.                                          *)
(* Uncommitted writes are kept in the call of the client until it commits.  *)
(***************************************************************************)
EXTENDS Naturals, FiniteSets

CONSTANTS
    Clients,    \* processes with a ReportStore
    Reports,    \* report ids
    Findings,   \* ids of committed findings
    ReportOf,   \* the report each finding belongs to
    Labels,     \* "tp", "fp"
    None        \* no label, no owner, no report

ASSUME StoreAssumption ==
    /\ Reports \cap Findings = {}
    /\ ReportOf \in [Findings -> Reports]
    /\ None \notin Labels \cup Clients \cup Findings

Verdict == Labels \cup {None}
Of(r) == {f \in Findings : ReportOf[f] = r}

VARIABLES
    saved,      \* reports with a committed row
    column,     \* argus_findings.user_label of each finding, as committed
    mirror,     \* its user_label inside argus_reports.raw_report, as committed
    findingLock,    \* the client whose open transaction wrote the finding's row
    reportLock,     \* the client whose open transaction wrote the report's row
    call,       \* what each client is doing
    \* History variables:
    overlapped, \* reports on which two label transactions have been open at once
    past        \* the labels the finding's column has had since its report was last saved

vars == <<saved, column, mirror, findingLock, reportLock, call, overlapped, past>>

Idle == [op |-> "idle"]

\* Mutant of LabelCall: the parameters of the UPDATE are swapped.
LabelCallSwapped(f, l, step, doc) ==
    [op |-> "label", finding |-> f, label |-> f, step |-> step, doc |-> doc]

LabelCall(f, l, step, doc) ==
    [op |-> "label", finding |-> f, label |-> l, step |-> step, doc |-> doc]
SaveCall(r, step) == [op |-> "save", report |-> r, step |-> step]

\* No document read yet.
NoDoc == [f \in Findings |-> None]

Init ==
    /\ saved = {}
    /\ column = [f \in Findings |-> None]
    /\ mirror = [f \in Findings |-> None]
    /\ findingLock = [f \in Findings |-> None]
    /\ reportLock = [r \in Reports |-> None]
    /\ call = [c \in Clients |-> Idle]
    /\ overlapped = {}
    /\ past = [f \in Findings |-> {None}]

\* The end of c's transaction: its locks are free.
Unlocked(lock, c) == [x \in DOMAIN lock |-> IF lock[x] = c THEN None ELSE lock[x]]
Release(c) == /\ findingLock' = Unlocked(findingLock, c)
              /\ reportLock' = Unlocked(reportLock, c)

Labelling(c) == call[c].op = "label"
Saving(c) == call[c].op = "save"

-----------------------------------------------------------------------------
(* update_user_label. *)

StartLabel(c, f, l) ==
    /\ call[c] = Idle
    /\ call' = [call EXCEPT ![c] = LabelCall(f, l, "row", NoDoc)]
    /\ UNCHANGED <<saved, column, mirror, findingLock, reportLock, overlapped, past>>

\* UPDATE argus_findings: the row exists, and no open transaction has written it.
LabelRow(c) ==
    /\ Labelling(c) /\ call[c].step = "row"
    /\ LET f == call[c].finding
       IN /\ ReportOf[f] \in saved /\ findingLock[f] = None
          /\ findingLock' = [findingLock EXCEPT ![f] = c]
          /\ overlapped' = IF \E g \in Of(ReportOf[f]) :
                                 findingLock[g] # None /\ Labelling(findingLock[g])
                           THEN overlapped \cup {ReportOf[f]} ELSE overlapped
    /\ call' = [call EXCEPT ![c].step = "read"]
    /\ UNCHANGED <<saved, column, mirror, reportLock, past>>

\* No such row, or the row the statement waited for was deleted by a re-save:
\* rowcount is 0 and the call returns False.
LabelMisses(c) ==
    /\ Labelling(c)
    /\ \/ call[c].step = "row" /\ ReportOf[call[c].finding] \notin saved
       \/ call[c].step = "gone"
    /\ call' = [call EXCEPT ![c] = Idle]
    /\ UNCHANGED <<saved, column, mirror, findingLock, reportLock, overlapped, past>>

\* SELECT raw_report, without a lock, and the entry of the finding replaced in it.
LabelReads(c) ==
    /\ Labelling(c) /\ call[c].step = "read"
    /\ LET f == call[c].finding
           raw == [g \in Findings |-> IF ReportOf[g] = ReportOf[f] THEN mirror[g] ELSE None]
       IN call' = [call EXCEPT ![c].step = "write",
                               ![c].doc = [raw EXCEPT ![f] = call[c].label]]
    /\ UNCHANGED <<saved, column, mirror, findingLock, reportLock, overlapped, past>>

\* UPDATE argus_reports SET raw_report.
LabelWritesRaw(c) ==
    /\ Labelling(c) /\ call[c].step = "write"
    /\ LET r == ReportOf[call[c].finding]
       IN /\ reportLock[r] = None
          /\ reportLock' = [reportLock EXCEPT ![r] = c]
    /\ call' = [call EXCEPT ![c].step = "commit"]
    /\ UNCHANGED <<saved, column, mirror, findingLock, overlapped, past>>

\* Mutant of Mirrored: the document as it was read, without the new label.
UnlabelledDoc(k) == [g \in Findings |-> IF ReportOf[g] = ReportOf[k.finding] /\ g # k.finding
                                        THEN k.doc[g] ELSE mirror[g]]

\* raw_report after the commit of label call k: the document k built, whatever has been
\* committed since k read it.
Mirrored(k) == [g \in Findings |-> IF ReportOf[g] = ReportOf[k.finding] THEN k.doc[g]
                                   ELSE mirror[g]]

LabelCommits(c) ==
    /\ Labelling(c) /\ call[c].step = "commit"
    /\ LET k == call[c]
       IN /\ column' = [column EXCEPT ![k.finding] = k.label]
          /\ mirror' = Mirrored(k)
          /\ past' = [past EXCEPT ![k.finding] = @ \cup {k.label}]
    /\ call' = [call EXCEPT ![c] = Idle]
    /\ Release(c)
    /\ UNCHANGED <<saved, overlapped>>

-----------------------------------------------------------------------------
(* save. *)

StartSave(c, r) ==
    /\ call[c] = Idle
    /\ call' = [call EXCEPT ![c] = SaveCall(r, "upsert")]
    /\ UNCHANGED <<saved, column, mirror, findingLock, reportLock, overlapped, past>>

\* INSERT ... ON CONFLICT (id) DO UPDATE waits for whoever wrote the report's row.
SaveUpserts(c) ==
    /\ Saving(c) /\ call[c].step = "upsert"
    /\ LET r == call[c].report
       IN /\ reportLock[r] = None
          /\ reportLock' = [reportLock EXCEPT ![r] = c]
    /\ call' = [call EXCEPT ![c].step = "children"]
    /\ UNCHANGED <<saved, column, mirror, findingLock, overlapped, past>>

\* DELETE FROM argus_findings reaches the rows in no particular order and waits at one
\* that another transaction has written.
SaveDeletes(c) ==
    /\ Saving(c) /\ call[c].step = "children"
    /\ \E f \in Of(call[c].report) :
          /\ findingLock[f] = None
          /\ findingLock' = [findingLock EXCEPT ![f] = c]
    /\ UNCHANGED <<saved, column, mirror, reportLock, call, overlapped, past>>

\* All old rows are deleted, and the rows of the report in memory are inserted.
SaveInserts(c) ==
    /\ Saving(c) /\ call[c].step = "children"
    /\ \A f \in Of(call[c].report) : findingLock[f] = c
    /\ call' = [call EXCEPT ![c].step = "commit"]
    /\ UNCHANGED <<saved, column, mirror, findingLock, reportLock, overlapped, past>>

\* Mutant of Resaved: a re-save replaces the finding rows and leaves the document.
ResavedRows(r, kept) ==
    /\ mirror' = mirror
    /\ column' = [f \in Findings |-> IF f \in Of(r) THEN None ELSE kept[f]]

\* Rows and document are those of the report in memory, which carries no labels.
Resaved(r, kept) ==
    /\ mirror' = [f \in Findings |-> IF f \in Of(r) THEN None ELSE mirror[f]]
    /\ column' = [f \in Findings |-> IF f \in Of(r) THEN None ELSE kept[f]]

\* A label statement that waits for a row of the report finds it deleted.
SaveCommits(c) ==
    /\ Saving(c) /\ call[c].step = "commit"
    /\ LET r == call[c].report
           waits(d) == Labelling(d) /\ call[d].step = "row" /\ ReportOf[call[d].finding] = r
       IN /\ saved' = saved \cup {r}
          /\ Resaved(r, column)
          /\ overlapped' = overlapped \ {r}
          /\ \E gone \in SUBSET {d \in Clients : r \in saved /\ waits(d)} :
                call' = [d \in Clients |-> IF d = c THEN Idle
                                           ELSE IF d \in gone THEN [call[d] EXCEPT !.step = "gone"]
                                           ELSE call[d]]
          /\ past' = [f \in Findings |-> IF f \in Of(r) THEN {None} ELSE past[f]]
    /\ Release(c)

-----------------------------------------------------------------------------
(* Failures. *)

\* The connection is lost or the process dies before COMMIT: all is rolled back.
Aborts(c) ==
    /\ call[c] # Idle
    /\ call' = [call EXCEPT ![c] = Idle]
    /\ Release(c)
    /\ UNCHANGED <<saved, column, mirror, overlapped, past>>

\* The client whose lock c's statement waits for.
Blockers(c) ==
    CASE Labelling(c) /\ call[c].step = "row" -> {findingLock[call[c].finding]}
      [] Labelling(c) /\ call[c].step = "write" -> {reportLock[ReportOf[call[c].finding]]}
      [] Saving(c) /\ call[c].step = "upsert" -> {reportLock[call[c].report]}
      [] Saving(c) /\ call[c].step = "children" -> {findingLock[f] : f \in Of(call[c].report)}
      [] OTHER -> {}
WaitsFor(c) == Blockers(c) \ {None, c}

\* Mutant of Deadlocked: cycles of two transactions go unnoticed.
DeadlockedInThree(c) == \E d \in WaitsFor(c) : \E e \in WaitsFor(d) : e # c /\ c \in WaitsFor(e)

\* A label and a re-save of its report each hold what the other wants: a cycle of two,
\* and there are no longer ones.
Deadlocked(c) == \E d \in WaitsFor(c) : c \in WaitsFor(d)

\* PostgreSQL breaks the cycle: a transaction that has waited for a while looks for one
\* and fails.
DeadlockDetected(c) == Deadlocked(c) /\ Aborts(c)

Progress(c) ==
    \/ LabelRow(c) \/ LabelMisses(c) \/ LabelReads(c) \/ LabelWritesRaw(c) \/ LabelCommits(c)
    \/ SaveUpserts(c) \/ SaveDeletes(c) \/ SaveInserts(c) \/ SaveCommits(c)

Next ==
    \/ \E c \in Clients, f \in Findings, l \in Verdict : StartLabel(c, f, l)
    \/ \E c \in Clients, r \in Reports : StartSave(c, r)
    \/ \E c \in Clients : Progress(c) \/ Aborts(c) \/ DeadlockDetected(c)

Spec == Init /\ [][Next]_vars

\* A statement that can run runs, in turn with those competing for its rows, and every
\* wait that lasts is checked for a deadlock.
FairSpec == Spec /\ \A c \in Clients : SF_vars(Progress(c)) /\ WF_vars(DeadlockDetected(c))
-----------------------------------------------------------------------------

TypeOK ==
    /\ saved \in SUBSET Reports
    /\ column \in [Findings -> Verdict]
    /\ mirror \in [Findings -> Verdict]
    /\ findingLock \in [Findings -> Clients \cup {None}]
    /\ reportLock \in [Reports -> Clients \cup {None}]
    /\ call \in [Clients ->
                   [op : {"idle"}]
                     \cup [op : {"label"}, finding : Findings, label : Verdict,
                           step : {"row", "gone", "read", "write", "commit"},
                           doc : [Findings -> Verdict]]
                     \cup [op : {"save"}, report : Reports,
                           step : {"upsert", "children", "commit"}]]
    /\ overlapped \in SUBSET Reports
    /\ past \in [Findings -> SUBSET Verdict]

\* As long as no two label transactions on a report overlap, get(report_id) shows
\* exactly the labels of its finding rows, whatever saves and failures come between.
MirrorAgreesUnlessRaced ==
    \A r \in saved \ overlapped : \A f \in Of(r) : mirror[f] = column[f]

\* The mirror may be stale, but it never shows a label the finding has not had since
\* its report was last saved: a document read before a re-save never survives it.
MirrorIsPast == \A f \in Findings : mirror[f] \in past[f]

\* Every call returns, a re-save and a label that deadlock included.
CallsReturn == \A c \in Clients : call[c] # Idle ~> call[c] = Idle

\* The docstring of update_user_label: both copies are written, so the next
\* get(report_id) reflects the verdict.
MirrorAgrees == \A r \in saved : \A f \in Of(r) : mirror[f] = column[f]
=============================================================================
