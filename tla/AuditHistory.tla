------------------------------ MODULE AuditHistory ------------------------------
(***************************************************************************)
(* What the stored reports of one (collection, database) amount to:         *)
(* ReportStore.load_history with the HistoricalContext it builds and        *)
(* renders (storage/postgres.py, models/history.py), and                    *)
(* AuditReport.diff_against (models/report.py), as pure operators.          *)
(*                                                                          *)
(* A stored report is a record: when it was run and saved, its committed    *)
(* findings (an assessment per pattern), the patterns dismissed, and the    *)
(* user_label of each committed finding.  A pattern is a (field, category). *)
(***************************************************************************)
EXTENDS Naturals, FiniteSets

CONSTANTS
    Patterns,
    FieldOf,        \* the field of each pattern
    Labels,         \* "tp", "fp"
    None

Rank == [low |-> 1, medium |-> 2, high |-> 3, critical |-> 4]

\* Severity and affected_pct, in percent.
Assessment == [severity : DOMAIN Rank, pct : 0..100]

\* The patterns an audit committed or had dismissed.
Raised(r) == DOMAIN r.committed \cup r.dismissed

Newer(q, r) == q.runAt > r.runAt

-----------------------------------------------------------------------------
(* load_history. *)

\* The last `limit` runs, ORDER BY run_at DESC LIMIT.
Windowed(R, limit) == {r \in R : Cardinality({q \in R : Newer(q, r)}) < limit}

\* A FindingHistory: how often a pattern was raised, when last, and how often committed.
FindingHistory(W, p) ==
    LET appearances == {r \in W : p \in Raised(r)}
    IN [seen |-> Cardinality(appearances),
        last |-> CHOOSE t \in {r.runAt : r \in appearances} :
                    \A r \in appearances : r.runAt <= t,
        committed |-> Cardinality({r \in W : p \in DOMAIN r.committed})]

\* The labels of a pattern over R, with the run each was given on.
Given(R, p) == {r \in R : p \in DOMAIN r.label /\ r.label[p] # None}

\* Mutant of VerdictRuns: labels are read from the loaded runs only.
WindowedRuns(R, W) == W

\* Labels are read from every prior report, not only from the loaded runs.
VerdictRuns(R, W) == R

\* A UserVerdictHistory; last_label is the label of the newest labelled run.
UserVerdict(R, p) ==
    [tp |-> Cardinality({r \in Given(R, p) : r.label[p] = "tp"}),
     fp |-> Cardinality({r \in Given(R, p) : r.label[p] = "fp"}),
     last |-> (CHOOSE r \in Given(R, p) : \A q \in Given(R, p) : ~Newer(q, r)).label[p]]

\* The HistoricalContext of the loaded runs W and all reports R: a finding history per
\* pattern raised in W, the patterns dismissed in it, and the verdicts of the reviewers.
HistoricalContext(W, R) ==
    LET V == IF W = {} THEN {} ELSE VerdictRuns(R, W)
    IN [runs |-> {r.id : r \in W},
        findings |-> [p \in UNION {Raised(r) : r \in W} |-> FindingHistory(W, p)],
        dismissed |-> UNION {r.dismissed : r \in W},
        verdicts |-> [p \in {q \in Patterns : Given(V, q) # {}} |-> UserVerdict(V, p)]]

-----------------------------------------------------------------------------
(* HistoricalContext.render: what the planner is shown. *)

IsPersistent(h) == h.seen >= 2

NetLabel(v) == IF v.tp > v.fp THEN "tp" ELSE IF v.fp > v.tp THEN "fp" ELSE None

\* The findings are sorted: what was raised more often, then what was later, comes before.
Before(ctx, p, q) ==
    \/ ctx.findings[p].seen > ctx.findings[q].seen
    \/ /\ ctx.findings[p].seen = ctx.findings[q].seen
       /\ ctx.findings[p].last > ctx.findings[q].last

\* The first `max` of the patterns P.
FirstOf(ctx, P, max) ==
    IF Cardinality(P) <= max THEN P
    ELSE CHOOSE F \in SUBSET P : /\ Cardinality(F) = max
                                 /\ \A p \in F, q \in P \ F : ~Before(ctx, q, p)

Persistent(ctx, max) ==
    FirstOf(ctx, {p \in DOMAIN ctx.findings : IsPersistent(ctx.findings[p])}, max)
OneOff(ctx, max) ==
    FirstOf(ctx, {p \in DOMAIN ctx.findings : ~IsPersistent(ctx.findings[p])}, max)

\* The verdicts on patterns that do not come up in the loaded runs.
Orphans(ctx) ==
    {p \in DOMAIN ctx.verdicts : p \notin DOMAIN ctx.findings /\ p \notin ctx.dismissed}

\* Their block is cut at `max` too, in an order the query leaves open.
ShownOrphans(ctx, max) ==
    IF Cardinality(Orphans(ctx)) <= max THEN Orphans(ctx)
    ELSE CHOOSE F \in SUBSET Orphans(ctx) : Cardinality(F) = max

\* The verdicts the prompt carries: beside a finding, or in the block of their own.
ShownVerdicts(ctx, max) ==
    {<<p, NetLabel(ctx.verdicts[p])>> :
        p \in ((Persistent(ctx, max) \cup OneOff(ctx, max)) \cap DOMAIN ctx.verdicts)
                \cup ShownOrphans(ctx, max)}

-----------------------------------------------------------------------------
(* diff_against. *)

\* Mutant of Previous: the oldest run comes first.
OldestOf(R, before) ==
    LET older == {r \in R : r.runAt < before}
    IN IF older = {} THEN None ELSE CHOOSE r \in older : \A q \in older : ~Newer(r, q)

\* ORDER BY run_at DESC: the first row.
Newest(R) == CHOOSE r \in R : \A q \in R : ~Newer(q, r)

\* get_previous: the most recent of R strictly before `before`, or None.
Previous(R, before) ==
    LET older == {r \in R : r.runAt < before}
    IN IF older = {} THEN None ELSE Newest(older)

\* Mutant of NewIn: findings are matched by field alone.
NewFieldIn(cur, prev) ==
    {p \in DOMAIN cur : \A q \in DOMAIN prev : FieldOf[q] # FieldOf[p]}

NewIn(cur, prev) == DOMAIN cur \ DOMAIN prev

\* A finding in both that rose in severity, or grew by more than half.
Regressed(now, before) ==
    \/ Rank[now.severity] > Rank[before.severity]
    \/ before.pct > 0 /\ 2 * now.pct > 3 * before.pct

\* What diff_against adds to a report with the findings cur.
Diff(cur, prev) ==
    [new |-> NewIn(cur, prev),
     resolved |-> NewIn(prev, cur),
     regressed |-> {FieldOf[p] : p \in {q \in DOMAIN cur \cap DOMAIN prev :
                                          Regressed(cur[q], prev[q])}}]

NoDiff == [new |-> {}, resolved |-> {}, regressed |-> {}]

\* Mutant of DiffCommand: the two summaries are swapped.
DiffCommandSwapped(R) ==
    LET previous == Newest(R)
        current == Newest(R \ {previous})
    IN [current |-> current.id, previous |-> previous.id,
        diff |-> Diff(current.committed, previous.committed)]

\* `queryargus diff`: of at least two reports, the newest against the next.
DiffCommand(R) ==
    LET current == Newest(R)
        previous == Newest(R \ {current})
    IN [current |-> current.id, previous |-> previous.id,
        diff |-> Diff(current.committed, previous.committed)]
=============================================================================
