--------------------------- MODULE AuditMemoryProofs ---------------------------
(***************************************************************************)
(* What AuditMemory guarantees for any number of audits and findings, any   *)
(* window and any labels: types, what a report says is new, and which       *)
(* report it is compared with.                                              *)
(***************************************************************************)
EXTENDS AuditMemory, FiniteSetTheorems, WellFoundedInduction, TLAPS

-----------------------------------------------------------------------------
(* The newest of a set of reports. *)

\* Any finite set of reports has a newest one.
LEMMA NewestExists ==
    ASSUME NEW R, IsFiniteSet(R), R # {}, \A r \in R : r.runAt \in Nat
    PROVE  \E r \in R : \A q \in R : ~Newer(q, r)
  <1> DEFINE Above(r) == {q \in R : Newer(q, r)}
             Family == {Above(r) : r \in R}
  <1>1. Family \subseteq FiniteSubsetsOf(R) /\ Family # {}
    <2>1. \A r \in R : Above(r) \subseteq R /\ IsFiniteSet(Above(r))
      BY FS_Subset
    <2> QED BY <2>1 DEF FiniteSubsetsOf
  <1>2. IsWellFoundedOn(StrictSubsetOrdering(R), FiniteSubsetsOf(R))
    BY FS_StrictSubsetOrderingWellFounded
  <1>3. PICK A \in Family : \A B \in Family : <<B, A>> \notin StrictSubsetOrdering(R)
    <2> HIDE DEF Family
    <2> QED BY <1>1, <1>2, WFMin
  <1>4. PICK r \in R : A = Above(r)
    OBVIOUS
  <1>5. ASSUME NEW q \in R, Newer(q, r)
        PROVE  FALSE
    <2>1. Above(q) \subseteq Above(r)
      BY <1>5 DEF Newer
    <2>2. q \in Above(r) /\ q \notin Above(q)
      BY <1>5 DEF Newer
    <2>3. <<Above(q), Above(r)>> \in StrictSubsetOrdering(R)
      BY <2>1, <2>2 DEF StrictSubsetOrdering
    <2> QED BY <1>3, <1>4, <2>3
  <1> QED BY <1>5

\* get_previous finds a report older than the given time, none older is newer, and it
\* finds one if there is any.
LEMMA PreviousIsNewest ==
    ASSUME NEW R, IsFiniteSet(R), \A r \in R : r.runAt \in Nat, NEW before \in Nat,
           \E r \in R : r.runAt < before
    PROVE  /\ Previous(R, before) \in R
           /\ Previous(R, before).runAt < before
           /\ \A q \in R : q.runAt < before => ~Newer(q, Previous(R, before))
  <1> DEFINE older == {r \in R : r.runAt < before}
  <1>1. older # {} /\ IsFiniteSet(older) /\ \A r \in older : r.runAt \in Nat
    BY FS_Subset
  <1>2. \E r \in older : \A q \in older : ~Newer(q, r)
    <2> HIDE DEF older
    <2> QED BY <1>1, NewestExists
  <1>3. Previous(R, before) = CHOOSE r \in older : \A q \in older : ~Newer(q, r)
    BY <1>1 DEF Previous, Newest
  <1>4. /\ Previous(R, before) \in older
        /\ \A q \in older : ~Newer(q, Previous(R, before))
    <2> HIDE DEF older
    <2> QED BY <1>2, <1>3
  <1> QED BY <1>4

-----------------------------------------------------------------------------
(* Types. *)

\* What is compared is of two audits' findings.
LEMMA DiffTyped ==
    ASSUME NEW c \in Contents, NEW d \in Contents
    PROVE  Diff(c.committed, d.committed) \in Diffs
  <1>1. DOMAIN c.committed \subseteq Patterns /\ DOMAIN d.committed \subseteq Patterns
    BY MemoryAssumption DEF Raised
  <1> DEFINE regressed == {FieldOf[p] : p \in {q \in DOMAIN c.committed \cap DOMAIN d.committed :
                                                 Regressed(c.committed[q], d.committed[q])}}
  <1>2. regressed \subseteq {FieldOf[p] : p \in Patterns}
    BY <1>1
  <1>3. /\ NewIn(c.committed, d.committed) \subseteq Patterns
        /\ NewIn(d.committed, c.committed) \subseteq Patterns
    BY <1>1 DEF NewIn
  <1>4. Diff(c.committed, d.committed)
          = [new |-> NewIn(c.committed, d.committed),
             resolved |-> NewIn(d.committed, c.committed), regressed |-> regressed]
    BY DEF Diff
  <1> HIDE DEF regressed
  <1> QED BY <1>2, <1>3, <1>4 DEF Diffs

\* A report was saved after it was built.
SavedAreBuilt ==
    \A s \in saved : report[s] # None /\ step[s] \in {"saved", "emitted", "failed"}

\* The clock has ticked at most once per audit that is over.
ClockIsOfAudits ==
    clock <= Cardinality({s \in Sessions : step[s] \notin {"start", "loading", "auditing"}})

TypeInv == TypeOK /\ SavedAreBuilt /\ ClockIsOfAudits

\* The rows of the store are finitely many, one per saved report.
LEMMA ReportsTyped ==
    ASSUME TypeInv
    PROVE  /\ IsFiniteSet(Reports)
           /\ Reports \subseteq StoredReport
           /\ \A r \in Reports : r.runAt \in Nat
           /\ \A q \in saved : /\ report[q] \in AuditReport
                              /\ Stored(q) \in Reports /\ Stored(q).id = q
                              /\ Stored(q).runAt = report[q].runAt
                              /\ Stored(q).committed = report[q].committed
  <1>1. \A q \in saved : q \in Sessions /\ report[q] \in AuditReport
    BY DEF TypeInv, TypeOK, SavedAreBuilt
  <1>2. \A q \in saved : /\ report[q].runAt \in Nat
                        /\ report[q].committed \in {c.committed : c \in Contents}
                        /\ report[q].dismissed \in {c.dismissed : c \in Contents}
                        /\ label[q] \in [Patterns -> Labels \cup {None}]
    BY <1>1 DEF AuditReport, TypeInv, TypeOK
  <1>3. \A q \in saved : /\ Stored(q).id = q /\ Stored(q).runAt = report[q].runAt
                        /\ Stored(q).committed = report[q].committed
    BY DEF Stored
  <1>4. \A q \in saved : Stored(q) \in StoredReport
    BY <1>1, <1>2 DEF Stored, StoredReport
  <1>5. IsFiniteSet(Reports)
    <2>1. IsFiniteSet(saved)
      BY FS_Subset, MemoryAssumption DEF TypeInv, TypeOK
    <2> DEFINE f == [q \in saved |-> Stored(q)]
    <2>2. f \in Surjection(saved, Reports)
      BY DEF Surjection, Reports
    <2> QED BY <2>1, <2>2, FS_Surjection
  <1>6. \A r \in Reports : \E q \in saved : r = Stored(q)
    BY DEF Reports
  <1>7. \A q \in saved : Stored(q) \in Reports
    BY DEF Reports
  <1> QED BY <1>1, <1>2, <1>3, <1>4, <1>5, <1>6, <1>7

\* The window of a store that is not empty is not empty: it has the newest report.
LEMMA WindowFilled ==
    ASSUME TypeInv, saved # {}
    PROVE  Windowed(Reports, Window) # {}
  <1>1. Reports # {}
    BY DEF Reports
  <1>2. PICK r \in Reports : \A q \in Reports : ~Newer(q, r)
    BY <1>1, ReportsTyped, NewestExists
  <1>3. {q \in Reports : Newer(q, r)} = {}
    BY <1>2
  <1>4. Cardinality({q \in Reports : Newer(q, r)}) < Window
    BY <1>3, FS_EmptySet, MemoryAssumption
  <1> QED BY <1>4 DEF Windowed

\* The report of s once it is compared with that of q.
Compared(s, q) ==
    [report[s] EXCEPT !.previous = q,
                      !.diff = Diff(report[s].committed, report[q].committed)]

\* A comparison leaves the report as it is if the store has no older one, or is with one
\* that no older one is newer than.
LEMMA PreviousFound ==
    ASSUME TypeInv, NEW s \in Sessions, FindPrevious(s)
    PROVE  /\ report[s] \in AuditReport
           /\ \/ /\ \A q \in saved : report[q].runAt >= report[s].runAt
                 /\ report' = report
              \/ \E q \in saved :
                    /\ report[q].runAt < report[s].runAt
                    /\ \A t \in saved : report[t].runAt < report[s].runAt
                                            => report[t].runAt <= report[q].runAt
                    /\ report' = [report EXCEPT ![s] = Compared(s, q)]
  <1> DEFINE prev == Previous(Reports, report[s].runAt)
  <1>1. report[s] \in AuditReport /\ report[s].runAt \in Nat
    BY DEF TypeInv, TypeOK, FindPrevious, Go, AuditReport
  <1>2. CASE \E r \in Reports : r.runAt < report[s].runAt
    <2>1. /\ prev \in Reports /\ prev.runAt < report[s].runAt
          /\ \A q \in Reports : q.runAt < report[s].runAt => ~Newer(q, prev)
      BY <1>1, <1>2, ReportsTyped, PreviousIsNewest
    <2>2. PICK q \in saved : prev = Stored(q)
      BY <2>1 DEF Reports
    <2>3. prev # None
      BY <2>1, ReportsTyped, NoneAssumption
    <2>4. prev.id = q /\ prev.runAt = report[q].runAt /\ prev.committed = report[q].committed
      BY <2>2 DEF Stored
    <2>5. report' = [report EXCEPT ![s] = Compared(s, q)]
      BY <2>3, <2>4 DEF FindPrevious, Compared
    <2>6. ASSUME NEW t \in saved, report[t].runAt < report[s].runAt
          PROVE  report[t].runAt <= report[q].runAt
      <3>1. /\ Stored(t) \in Reports /\ Stored(t).runAt = report[t].runAt
            /\ report[t].runAt \in Nat /\ report[q].runAt \in Nat
        BY ReportsTyped
      <3>2. ~Newer(Stored(t), prev)
        BY <2>1, <2>6, <3>1
      <3> QED BY <2>4, <3>1, <3>2 DEF Newer
    <2>7. report[q].runAt < report[s].runAt
      BY <2>1, <2>4
    <2> QED BY <1>1, <2>5, <2>6, <2>7
  <1>3. CASE ~\E r \in Reports : r.runAt < report[s].runAt
    <2>1. prev = None
      BY <1>3 DEF Previous
    <2>2. report' = report
      BY <2>1 DEF FindPrevious
    <2>3. \A q \in saved : report[q].runAt >= report[s].runAt
      <3>1. \A q \in saved : /\ Stored(q) \in Reports /\ Stored(q).runAt = report[q].runAt
                            /\ Stored(q).runAt \in Nat
        BY ReportsTyped
      <3> QED BY <1>1, <1>3, <3>1
    <2> QED BY <1>1, <2>2, <2>3
  <1> QED BY <1>2, <1>3

\* Comparing gives a report of the right type, with its time, findings and diff.
LEMMA ComparedTyped ==
    ASSUME NEW s, NEW q \in Sessions,
           report[s] \in AuditReport, report[q] \in AuditReport
    PROVE  /\ Compared(s, q) \in AuditReport
           /\ Compared(s, q).runAt = report[s].runAt
           /\ Compared(s, q).committed = report[s].committed
           /\ Compared(s, q).previous = q
           /\ Compared(s, q).diff = Diff(report[s].committed, report[q].committed)
  <1> DEFINE d == Diff(report[s].committed, report[q].committed)
  <1>1. d \in Diffs
    <2>1. PICK c \in Contents : report[s].committed = c.committed
      BY DEF AuditReport
    <2>2. PICK e \in Contents : report[q].committed = e.committed
      BY DEF AuditReport
    <2> QED BY <2>1, <2>2, DiffTyped
  <1> HIDE DEF d
  <1>2. Compared(s, q) = [report[s] EXCEPT !.previous = q, !.diff = d]
    BY DEF Compared, d
  <1>3. Compared(s, q) \in AuditReport /\ Compared(s, q).diff = d
    BY <1>1, <1>2 DEF AuditReport
  <1> QED BY <1>2, <1>3 DEF AuditReport, d

\* No session but s is disturbed by a step of s.
LEMMA SessionSteps ==
    ASSUME TypeInv, NEW s \in Sessions, Session(s)
    PROVE  /\ step' = [step EXCEPT ![s] = step'[s]]
           /\ report' = [report EXCEPT ![s] = report'[s]]
           /\ runs' = [runs EXCEPT ![s] = runs'[s]]
           /\ \A t \in Sessions \ {s} : /\ step'[t] = step[t] /\ report'[t] = report[t]
                                        /\ runs'[t] = runs[t]
           /\ label' = label /\ labelled' = labelled
  <1> USE DEF TypeInv, TypeOK, Go
  <1>1. CASE LoadHistory(s) BY <1>1 DEF LoadHistory
  <1>2. CASE LoadFails(s) BY <1>2 DEF LoadFails
  <1>8. CASE ReadRuns(s) BY <1>8 DEF ReadRuns
  <1>9. CASE NoRuns(s) BY <1>9 DEF NoRuns
  <1>3. CASE AuditEnds(s) BY <1>3 DEF AuditEnds
  <1>4. CASE FindPrevious(s)
    <2>1. \/ report' = report
          \/ \E q \in saved : report' = [report EXCEPT ![s] = Compared(s, q)]
      BY <1>4, PreviousFound
    <2> QED BY <1>4, <2>1 DEF FindPrevious
  <1>5. CASE Save(s) BY <1>5 DEF Save
  <1>6. CASE Emit(s) BY <1>6 DEF Emit
  <1>7. CASE Fails(s) BY <1>7 DEF Fails
  <1> QED BY <1>1, <1>2, <1>3, <1>4, <1>5, <1>6, <1>7, <1>8, <1>9 DEF Session

\* What a step of s makes of its own position and report, and of the store.
LEMMA OwnStep ==
    ASSUME TypeInv, NEW s \in Sessions, Session(s)
    PROVE  /\ step'[s] \in {"loading", "auditing", "built", "compared", "saved", "emitted",
                            "failed"}
           /\ \/ runs'[s] \in {runs[s], {}} /\ step'[s] # "loading"
              \/ runs'[s] \subseteq saved /\ runs'[s] # {}
           /\ report'[s] \in AuditReport \cup {None}
           /\ report'[s] # None => report'[s].runAt < clock'
           /\ step'[s] \in {"built", "compared", "saved", "emitted"} => report'[s] # None
           /\ saved' \in {saved, saved \cup {s}}
           /\ step'[s] \in {"saved", "emitted"} => s \in saved'
           /\ s \in saved' => report'[s] # None /\ step'[s] \in {"saved", "emitted", "failed"}
           /\ \/ clock' = clock
              \/ clock' = clock + 1 /\ step[s] = "auditing" /\ step'[s] = "built"
  <1> USE DEF TypeInv, TypeOK, SavedAreBuilt, Go
  <1>0. step[s] \in {"start", "loading", "auditing", "built", "compared", "saved", "emitted",
                     "failed"}
        /\ clock \in Nat /\ report[s] \in AuditReport \cup {None}
        /\ IsFiniteSet(Sessions)
    BY FS_CardinalityType, MemoryAssumption
  <1>1. CASE LoadHistory(s) BY <1>1 DEF LoadHistory
  <1>2. CASE LoadFails(s) BY <1>2 DEF LoadFails
  <1>8. CASE ReadRuns(s)
    <2>1. runs'[s] = {r.id : r \in Windowed(Reports, Window)}
      BY <1>8 DEF ReadRuns
    <2>2. \A r \in Windowed(Reports, Window) : r.id \in saved
      BY DEF Windowed, Reports, Stored
    <2>3. runs'[s] \subseteq saved
      BY <2>1, <2>2
    <2>4. runs'[s] # {}
      <3>1. saved # {}
        BY <1>8 DEF ReadRuns, Reports
      <3>2. PICK r \in Windowed(Reports, Window) : TRUE
        BY <3>1, WindowFilled
      <3>3. r.id \in runs'[s]
        BY <2>1, <3>2
      <3> QED BY <3>3
    <2>5. /\ step'[s] = "loading" /\ step[s] = "start"
          /\ UNCHANGED <<clock, history, report, saved, label, labelled>>
      BY <1>8 DEF ReadRuns
    <2> QED BY <1>0, <2>3, <2>4, <2>5
  <1>9. CASE NoRuns(s) BY <1>9 DEF NoRuns
  <1>3. CASE AuditEnds(s)
    <2>1. PICK c \in Contents :
             report' = [report EXCEPT ![s] = [runAt |-> clock, committed |-> c.committed,
                                              dismissed |-> c.dismissed, previous |-> None,
                                              diff |-> NoDiff]]
      BY <1>3 DEF AuditEnds
    <2>2. NoDiff \in Diffs
      BY DEF NoDiff, Diffs
    <2>3. report'[s] \in AuditReport /\ report'[s].runAt = clock
      BY <1>0, <2>1, <2>2 DEF AuditReport
    <2>4. report'[s] # None
      BY <2>3, NoneAssumption
    <2> QED BY <1>0, <1>3, <2>3, <2>4 DEF AuditEnds
  <1>4. CASE FindPrevious(s)
    <2>1. report[s] \in AuditReport
          /\ (report' = report \/ \E q \in saved : report' = [report EXCEPT ![s] = Compared(s, q)])
      BY <1>4, PreviousFound
    <2>2. report'[s] \in AuditReport /\ report'[s].runAt = report[s].runAt
      <3>1. CASE report' = report BY <2>1, <3>1
      <3>2. ASSUME NEW q \in saved, report' = [report EXCEPT ![s] = Compared(s, q)]
            PROVE  report'[s] \in AuditReport /\ report'[s].runAt = report[s].runAt
        BY <2>1, <3>2, ComparedTyped, ReportsTyped
      <3> QED BY <2>1, <3>1, <3>2
    <2>3. report'[s] # None /\ report[s] # None
      BY <2>1, <2>2, NoneAssumption
    <2>4. s \notin saved
      BY <1>4 DEF FindPrevious
    <2> QED BY <1>4, <2>2, <2>3, <2>4 DEF FindPrevious
  <1>5. CASE Save(s) BY <1>0, <1>5 DEF Save
  <1>6. CASE Emit(s) BY <1>0, <1>6 DEF Emit
  <1>7. CASE Fails(s)
    <2>1. s \in saved => report'[s] = report[s]
      BY <1>7 DEF Fails
    <2>2. s \notin saved => report'[s] = None
      BY <1>7 DEF Fails
    <2> QED BY <1>0, <1>7, <2>1, <2>2 DEF Fails
  <1> QED BY <1>1, <1>2, <1>3, <1>4, <1>5, <1>6, <1>7, <1>8, <1>9 DEF Session

\* A label touches the labels only.
LEMMA LabelStep ==
    ASSUME TypeInv, NEW s \in Sessions, NEW p \in Patterns, NEW l \in Labels \cup {None},
           SetLabel(s, p, l)
    PROVE  /\ UNCHANGED <<clock, step, runs, history, report, saved>>
           /\ label' \in [Sessions -> [Patterns -> Labels \cup {None}]]
           /\ labelled' \in 0..MaxLabels
  <1>1. label' = [label EXCEPT ![s] = [label[s] EXCEPT ![p] = l]]
    BY DEF SetLabel
  <1>2. [label[s] EXCEPT ![p] = l] \in [Patterns -> Labels \cup {None}]
    BY DEF TypeInv, TypeOK
  <1>3. label' \in [Sessions -> [Patterns -> Labels \cup {None}]]
    BY <1>1, <1>2 DEF TypeInv, TypeOK
  <1>4. labelled' \in 0..MaxLabels
    BY MemoryAssumption DEF SetLabel, TypeInv, TypeOK
  <1> QED BY <1>3, <1>4 DEF SetLabel

\* The clock has not ticked more often than audits have ended: each leaves "auditing" once.
LEMMA ClockStep ==
    ASSUME TypeInv, NEW s \in Sessions, Session(s)
    PROVE  ClockIsOfAudits' /\ clock' \in 0..Cardinality(Sessions)
  <1> DEFINE over == {t \in Sessions : step[t] \notin {"start", "loading", "auditing"}}
  <1>1. IsFiniteSet(Sessions)
    BY MemoryAssumption
  <1>2. IsFiniteSet(over) /\ Cardinality(over) \in Nat /\ clock <= Cardinality(over)
        /\ clock \in Nat
    <2>1. Cardinality(Sessions) \in Nat
      BY <1>1, FS_CardinalityType
    <2> QED BY <1>1, <2>1, FS_Subset, FS_CardinalityType DEF TypeInv, TypeOK, ClockIsOfAudits
  <1>3. IsFiniteSet(over') /\ Cardinality(over') \in Nat
        /\ Cardinality(over') <= Cardinality(Sessions)
    BY <1>1, FS_Subset, FS_CardinalityType
  <1>4. over' \in {over, over \cup {s}}
    <2>1. step'[s] \in {"loading", "auditing", "built", "compared", "saved", "emitted",
                         "failed"}
      BY OwnStep
    <2>2. \A t \in Sessions \ {s} : step'[t] = step[t]
      BY SessionSteps
    <2>3. step'[s] \in {"loading", "auditing"} => step[s] \in {"start", "loading"}
      BY DEF Session, ReadRuns, NoRuns, LoadHistory, LoadFails, AuditEnds, FindPrevious, Save,
             Emit, Fails, Go, TypeInv, TypeOK
    <2>4. CASE step'[s] \in {"loading", "auditing"}
      BY <2>2, <2>3, <2>4
    <2>5. CASE step'[s] \notin {"loading", "auditing"}
      <3>1. over' = over \cup {s}
        BY <2>1, <2>2, <2>5
      <3> QED BY <3>1
    <2> QED BY <2>4, <2>5
  <1>5. s \notin over => Cardinality(over \cup {s}) = Cardinality(over) + 1
    BY <1>2, FS_AddElement
  <1>6. Cardinality(over') >= Cardinality(over)
    <2>1. over \subseteq over'
      BY <1>4
    <2> QED BY <1>3, <2>1, FS_Subset
  <1>7. clock' <= Cardinality(over') /\ clock' \in Nat
    <2>1. CASE clock' = clock
      BY <1>2, <1>3, <1>6, <2>1
    <2>2. CASE clock' = clock + 1 /\ step[s] = "auditing" /\ step'[s] = "built"
      <3>1. s \notin over /\ s \in over'
        BY <2>2
      <3>2. over' = over \cup {s}
        BY <1>4, <3>1
      <3>3. Cardinality(over') = Cardinality(over) + 1
        BY <1>5, <3>1, <3>2
      <3> QED BY <1>2, <2>2, <3>3
    <2> QED BY <2>1, <2>2, OwnStep
  <1>8. Cardinality(Sessions) \in Nat
    BY <1>1, FS_CardinalityType
  <1>9. ClockIsOfAudits'
    BY <1>7 DEF ClockIsOfAudits
  <1> QED BY <1>3, <1>7, <1>8, <1>9

\* The type invariant and its strengthening are inductive.
LEMMA TypeInvStep ==
    ASSUME TypeInv, [Next]_vars
    PROVE  TypeInv'
  <1>1. ASSUME NEW s \in Sessions, Session(s)
        PROVE  TypeInv'
    <2>1. step' \in [Sessions -> {"start", "loading", "auditing", "built", "compared", "saved",
                                  "emitted", "failed"}]
      <3>1. step' = [step EXCEPT ![s] = step'[s]]
        BY <1>1, SessionSteps
      <3>2. step'[s] \in {"loading", "auditing", "built", "compared", "saved", "emitted",
                           "failed"}
        BY <1>1, OwnStep
      <3> QED BY <3>1, <3>2 DEF TypeInv, TypeOK
    <2>2. report' \in [Sessions -> AuditReport \cup {None}]
      <3>1. report' = [report EXCEPT ![s] = report'[s]]
        BY <1>1, SessionSteps
      <3>2. report'[s] \in AuditReport \cup {None}
        BY <1>1, OwnStep
      <3> QED BY <3>1, <3>2 DEF TypeInv, TypeOK
    <2>3. saved' \subseteq Sessions
      BY <1>1, OwnStep DEF TypeInv, TypeOK
    <2>9. runs' \in [Sessions -> SUBSET Sessions]
      <3>1. runs' = [runs EXCEPT ![s] = runs'[s]]
        BY <1>1, SessionSteps
      <3>2. runs'[s] \subseteq Sessions
        BY <1>1, OwnStep DEF TypeInv, TypeOK
      <3> QED BY <3>1, <3>2 DEF TypeInv, TypeOK
    <2>4. ClockIsOfAudits' /\ clock' \in 0..Cardinality(Sessions)
      BY <1>1, ClockStep
    <2>5. label' = label /\ labelled' = labelled
      BY <1>1, SessionSteps
    <2>6. ASSUME NEW t \in Sessions
          PROVE  /\ report'[t] # None => report'[t].runAt < clock'
                 /\ step'[t] \in {"built", "compared", "saved", "emitted"} => report'[t] # None
                 /\ step'[t] \in {"saved", "emitted"} => t \in saved'
                 /\ t \in saved' => report'[t] # None
                                     /\ step'[t] \in {"saved", "emitted", "failed"}
      <3>1. CASE t = s BY <1>1, <3>1, OwnStep
      <3>2. CASE t # s
        <4>1. step'[t] = step[t] /\ report'[t] = report[t]
          BY <1>1, <3>2, SessionSteps
        <4>2. t \in saved' <=> t \in saved
          BY <1>1, <3>2, OwnStep
        <4>3. report[t] # None => report[t].runAt < clock'
          <5>1. report[t] # None => report[t].runAt < clock /\ report[t].runAt \in Nat
            BY DEF TypeInv, TypeOK, AuditReport
          <5>2. clock \in Nat /\ clock' \in {clock, clock + 1}
            <6>1. Cardinality(Sessions) \in Nat
              BY MemoryAssumption, FS_CardinalityType
            <6> QED BY <1>1, <6>1, OwnStep DEF TypeInv, TypeOK
          <5> QED BY <5>1, <5>2
        <4> QED BY <4>1, <4>2, <4>3 DEF TypeInv, TypeOK, SavedAreBuilt
      <3> QED BY <3>1, <3>2
    <2>7. SavedAreBuilt'
      BY <2>3, <2>6 DEF SavedAreBuilt
    <2>8. TypeOK'
      BY <2>1, <2>2, <2>3, <2>4, <2>5, <2>6, <2>9 DEF TypeInv, TypeOK
    <2> QED BY <2>4, <2>7, <2>8 DEF TypeInv
  <1>2. ASSUME NEW s \in Sessions, NEW p \in Patterns, NEW l \in Labels \cup {None},
               SetLabel(s, p, l)
        PROVE  TypeInv'
    <2>1. UNCHANGED <<clock, step, runs, history, report, saved>>
      BY <1>2, LabelStep
    <2>2. /\ label' \in [Sessions -> [Patterns -> Labels \cup {None}]]
          /\ labelled' \in 0..MaxLabels
      BY <1>2, LabelStep
    <2> QED BY <2>1, <2>2 DEF TypeInv, TypeOK, SavedAreBuilt, ClockIsOfAudits
  <1>3. ASSUME UNCHANGED vars
        PROVE  TypeInv'
    BY <1>3 DEF vars, TypeInv, TypeOK, SavedAreBuilt, ClockIsOfAudits
  <1> QED BY <1>1, <1>2, <1>3 DEF Next

\* The invariant holds at first.
LEMMA TypeInvInit ==
    ASSUME Init
    PROVE  TypeInv
  <1>1. Cardinality(Sessions) \in Nat
    BY MemoryAssumption, FS_CardinalityType
  <1>2. Cardinality({s \in Sessions : step[s] \notin {"start", "loading", "auditing"}}) = 0
    <2>1. {s \in Sessions : step[s] \notin {"start", "loading", "auditing"}} = {}
      BY DEF Init
    <2> QED BY <2>1, FS_EmptySet
  <1> QED BY <1>1, <1>2, MemoryAssumption
          DEF Init, TypeInv, TypeOK, SavedAreBuilt, ClockIsOfAudits

\* The variables keep their types: a session past its audit has its report, and one past
\* its save is in the store.
THEOREM TypeCorrect == Spec => []TypeOK
  <1>1. TypeInv => TypeOK
    BY DEF TypeInv
  <1> QED BY TypeInvInit, TypeInvStep, <1>1, PTL DEF Spec

-----------------------------------------------------------------------------
(* Reports, the reports they are compared with, and the histories of their audits. *)

\* The report of s is compared with one of an older run that is in the store to stay.
ComparedOk(s) ==
    report[s] # None /\ report[s].previous # None =>
        LET q == report[s].previous
        IN /\ q \in saved /\ report[q].runAt < report[s].runAt
           /\ report[s].diff = Diff(report[s].committed, report[q].committed)

\* The runs s was shown are in the store to stay, and older than its own report.
ShownAreStored(s) ==
    history[s] # None =>
        \A r \in history[s].runs :
            r \in saved /\ (report[s] # None => report[r].runAt < report[s].runAt)

\* Once the comparison is made, it is with a run as new as those s was shown.
ComparedWithShown(s) ==
    history[s] # None /\ (step[s] = "compared" \/ s \in saved) =>
        \A r \in history[s].runs :
            /\ report[s].previous # None
            /\ report[report[s].previous].runAt >= report[r].runAt

\* The runs a session has read so far are in the store, and there are some.
RunsAreStored ==
    \A s \in Sessions : runs[s] \subseteq saved /\ (step[s] = "loading" => runs[s] # {})

\* An audit that is not over has no report.
UnbuiltAreNone ==
    \A s \in Sessions : step[s] \in {"start", "loading", "auditing"} => report[s] = None

\* No two reports are of one time.
RunsDiffer ==
    \A s, t \in Sessions : s # t /\ report[s] # None /\ report[t] # None
                             => report[s].runAt # report[t].runAt

MemoryInv ==
    /\ TypeInv
    /\ RunsDiffer
    /\ UnbuiltAreNone
    /\ RunsAreStored
    /\ history = [s \in Sessions |-> history[s]]
    /\ \A s \in Sessions : ComparedOk(s) /\ ShownAreStored(s) /\ ComparedWithShown(s)

\* What is in the store stays there as it is: only the session itself writes its report,
\* and not once it has saved it.
LEMMA SavedStay ==
    ASSUME TypeInv, [Next]_vars
    PROVE  \A q \in saved : q \in saved' /\ report'[q] = report[q]
  <1> SUFFICES ASSUME NEW q \in saved
               PROVE  q \in saved' /\ report'[q] = report[q]
    OBVIOUS
  <1>1. q \in Sessions /\ step[q] \in {"saved", "emitted", "failed"}
    BY DEF TypeInv, TypeOK, SavedAreBuilt
  <1>2. ASSUME NEW s \in Sessions, Session(s)
        PROVE  q \in saved' /\ report'[q] = report[q]
    <2>1. q \in saved'
      BY <1>2, OwnStep
    <2>2. CASE q # s
      BY <1>1, <1>2, <2>1, <2>2, SessionSteps
    <2>3. CASE q = s
      <3>1. Save(s) \/ Emit(s) \/ Fails(s)
        BY <1>1, <1>2, <2>3
           DEF Session, ReadRuns, NoRuns, LoadHistory, LoadFails, AuditEnds, FindPrevious, Go
      <3> QED BY <2>1, <2>3, <3>1 DEF Save, Emit, Fails
    <2> QED BY <2>2, <2>3
  <1>3. ASSUME NEW s \in Sessions, NEW p \in Patterns, NEW l \in Labels \cup {None},
               SetLabel(s, p, l)
        PROVE  q \in saved' /\ report'[q] = report[q]
    BY <1>3 DEF SetLabel
  <1>4. ASSUME UNCHANGED vars
        PROVE  q \in saved' /\ report'[q] = report[q]
    BY <1>4 DEF vars
  <1> QED BY <1>2, <1>3, <1>4 DEF Next

\* The invariants of a session that are about itself and the store survive a step that
\* leaves its report and its history alone, and does not make its comparison.
LEMMA Undisturbed ==
    ASSUME MemoryInv, [Next]_vars, NEW s \in Sessions,
           report'[s] = report[s], history'[s] \in {history[s], None},
           step'[s] = "compared" \/ s \in saved' => step[s] = "compared" \/ s \in saved
    PROVE  ComparedOk(s)' /\ ShownAreStored(s)' /\ ComparedWithShown(s)'
  <1>1. TypeInv /\ ComparedOk(s) /\ ShownAreStored(s) /\ ComparedWithShown(s)
    BY DEF MemoryInv
  <1>2. \A q \in saved : q \in saved' /\ report'[q] = report[q]
    BY <1>1, SavedStay
  <1>3. ComparedOk(s)'
    BY <1>1, <1>2 DEF ComparedOk
  <1>4. ShownAreStored(s)'
    BY <1>1, <1>2 DEF ShownAreStored
  <1>5. ComparedWithShown(s)'
    <2> SUFFICES ASSUME history'[s] # None, step'[s] = "compared" \/ s \in saved',
                        NEW r \in history'[s].runs
                 PROVE  /\ report'[s].previous # None
                        /\ report'[report'[s].previous].runAt >= report'[r].runAt
      BY DEF ComparedWithShown
    <2>1. history'[s] = history[s] /\ r \in history[s].runs
      OBVIOUS
    <2>2. /\ report[s].previous # None
          /\ report[report[s].previous].runAt >= report[r].runAt
      BY <1>1, <2>1 DEF ComparedWithShown
    <2>5. r \in saved
      BY <1>1, <2>1 DEF ShownAreStored
    <2>3. report[s] # None
      BY <1>1 DEF TypeInv, TypeOK, SavedAreBuilt
    <2>4. report[s].previous \in saved
      BY <1>1, <2>2, <2>3 DEF ComparedOk
    <2> QED BY <1>2, <2>2, <2>4, <2>5
  <1> QED BY <1>3, <1>4, <1>5

\* Loading shows runs of the store, if any.
LEMMA LoadHistoryKeeps ==
    ASSUME MemoryInv, NEW s \in Sessions, LoadHistory(s) \/ NoRuns(s)
    PROVE  ComparedOk(s)' /\ ShownAreStored(s)' /\ ComparedWithShown(s)'
  <1>1. report'[s] = None /\ step'[s] = "auditing" /\ s \notin saved'
    BY DEF MemoryInv, UnbuiltAreNone, TypeInv, TypeOK, SavedAreBuilt, LoadHistory, NoRuns, Go
  <1>2. history'[s] = HistoricalContext({r \in Reports : r.id \in runs[s]}, Reports)
        \/ history'[s] = HistoricalContext({}, {})
    BY DEF LoadHistory, NoRuns, MemoryInv
  <1>3. history'[s].runs \subseteq {r.id : r \in Reports}
    BY <1>2 DEF HistoricalContext
  <1>4. history'[s].runs \subseteq saved
    BY <1>3 DEF Reports, Stored
  <1>5. saved' = saved /\ report' = report
    BY DEF LoadHistory, NoRuns
  <1> QED BY <1>1, <1>4, <1>5 DEF ComparedOk, ShownAreStored, ComparedWithShown

\* The report an audit builds is newer than all the runs in the store.
LEMMA AuditEndsKeeps ==
    ASSUME MemoryInv, NEW s \in Sessions, AuditEnds(s)
    PROVE  ComparedOk(s)' /\ ShownAreStored(s)' /\ ComparedWithShown(s)'
  <1>1. PICK c \in Contents :
           report' = [report EXCEPT ![s] = [runAt |-> clock, committed |-> c.committed,
                                            dismissed |-> c.dismissed, previous |-> None,
                                            diff |-> NoDiff]]
    BY DEF AuditEnds
  <1>2. report'[s].previous = None /\ report'[s].runAt = clock
    BY <1>1 DEF MemoryInv, TypeInv, TypeOK
  <1>3. /\ step'[s] = "built" /\ s \notin saved' /\ saved' = saved
        /\ history' = history
    BY DEF AuditEnds, Go, MemoryInv, TypeInv, TypeOK, SavedAreBuilt
  <1>4. \A q \in saved : report'[q] = report[q]
    BY <1>1, <1>3
  <1>5. \A q \in saved : report[q].runAt < clock
    BY DEF MemoryInv, TypeInv, TypeOK, SavedAreBuilt
  <1>6. ShownAreStored(s)
    BY DEF MemoryInv
  <1>7. ShownAreStored(s)'
    BY <1>2, <1>3, <1>4, <1>5, <1>6 DEF ShownAreStored
  <1> QED BY <1>2, <1>3, <1>7 DEF ComparedOk, ComparedWithShown

\* A run the audit was shown is older than its report, so the comparison finds it or a
\* newer one.
LEMMA FindPreviousKeeps ==
    ASSUME MemoryInv, NEW s \in Sessions, FindPrevious(s)
    PROVE  ComparedOk(s)' /\ ShownAreStored(s)' /\ ComparedWithShown(s)'
  <1>0. /\ TypeInv /\ ComparedOk(s) /\ ShownAreStored(s)
        /\ step[s] = "built" /\ s \notin saved
        /\ saved' = saved /\ history' = history
    BY DEF MemoryInv, FindPrevious, Go, TypeInv, SavedAreBuilt
  <1>1. report[s] \in AuditReport /\ report[s] # None
    BY <1>0, PreviousFound, NoneAssumption
  <1>2. \A q \in saved : report[q] \in AuditReport /\ report[q].runAt \in Nat /\ q \in Sessions
    BY <1>0, ReportsTyped DEF AuditReport, TypeInv, TypeOK
  <1>3. CASE /\ \A q \in saved : report[q].runAt >= report[s].runAt
             /\ report' = report
    <2>1. report[s].runAt \in Nat
      BY <1>1 DEF AuditReport
    <2>2. history[s] # None => history[s].runs = {}
      <3> SUFFICES ASSUME history[s] # None, NEW r \in history[s].runs
                   PROVE  FALSE
        OBVIOUS
      <3>1. r \in saved /\ report[r].runAt < report[s].runAt
        BY <1>0, <1>1 DEF ShownAreStored
      <3> QED BY <1>2, <1>3, <2>1, <3>1
    <2>3. ComparedOk(s)' /\ ShownAreStored(s)'
      BY <1>0, <1>3 DEF ComparedOk, ShownAreStored
    <2> QED BY <1>0, <2>2, <2>3 DEF ComparedWithShown
  <1>4. ASSUME NEW q \in saved,
               report[q].runAt < report[s].runAt,
               \A t \in saved : report[t].runAt < report[s].runAt
                                   => report[t].runAt <= report[q].runAt,
               report' = [report EXCEPT ![s] = Compared(s, q)]
        PROVE  ComparedOk(s)' /\ ShownAreStored(s)' /\ ComparedWithShown(s)'
    <2>1. /\ report'[s].previous = q /\ report'[s].runAt = report[s].runAt
          /\ report'[s].committed = report[s].committed
          /\ report'[s].diff = Diff(report[s].committed, report[q].committed)
      BY <1>0, <1>1, <1>2, <1>4, ComparedTyped DEF TypeInv, TypeOK
    <2>2. \A t \in saved : report'[t] = report[t]
      BY <1>0, <1>4
    <2>3. ComparedOk(s)'
      BY <1>0, <1>4, <2>1, <2>2 DEF ComparedOk
    <2>4. ShownAreStored(s)'
      BY <1>0, <1>1, <2>1, <2>2 DEF ShownAreStored
    <2>5. ASSUME history[s] # None, NEW r \in history[s].runs
          PROVE  q # None /\ report'[q].runAt >= report'[r].runAt
      <3>1. r \in saved /\ report[r].runAt < report[s].runAt
        BY <1>0, <1>1, <2>5 DEF ShownAreStored
      <3>2. report[r].runAt <= report[q].runAt
        BY <1>4, <3>1
      <3>3. q # None
        BY <1>2, MemoryAssumption
      <3>4. report[r].runAt \in Nat /\ report[q].runAt \in Nat
        BY <1>2, <3>1
      <3> QED BY <2>2, <3>1, <3>2, <3>3, <3>4
    <2>6. ComparedWithShown(s)'
      BY <1>0, <2>1, <2>5 DEF ComparedWithShown
    <2> QED BY <2>3, <2>4, <2>6
  <1> QED BY <1>0, <1>3, <1>4, PreviousFound

\* A failure leaves a saved report as it is, and nothing of one that is not saved.
LEMMA FailsKeeps ==
    ASSUME MemoryInv, NEW s \in Sessions, Fails(s)
    PROVE  ComparedOk(s)' /\ ShownAreStored(s)' /\ ComparedWithShown(s)'
  <1>1. history'[s] = None
    BY DEF Fails, MemoryInv
  <1>2. ShownAreStored(s)' /\ ComparedWithShown(s)'
    BY <1>1 DEF ShownAreStored, ComparedWithShown
  <1>3. ComparedOk(s)'
    <2>1. CASE s \in saved
      <3>1. report' = report /\ saved' = saved /\ ComparedOk(s)
        BY <2>1 DEF Fails, MemoryInv
      <3> QED BY <3>1 DEF ComparedOk
    <2>2. CASE s \notin saved
      <3>1. report'[s] = None
        BY <2>2 DEF Fails, MemoryInv, TypeInv, TypeOK
      <3> QED BY <3>1 DEF ComparedOk
    <2> QED BY <2>1, <2>2
  <1> QED BY <1>2, <1>3

\* An audit without a report stays without one until it ends, and histories stay a function.
LEMMA UnbuiltStep ==
    ASSUME MemoryInv, [Next]_vars
    PROVE  UnbuiltAreNone' /\ RunsAreStored' /\ history' = [s \in Sessions |-> history'[s]]
  <1>1. ASSUME NEW s \in Sessions, Session(s)
        PROVE  UnbuiltAreNone' /\ RunsAreStored' /\ history' = [t \in Sessions |-> history'[t]]
    <2>1. TypeInv /\ UnbuiltAreNone /\ RunsAreStored /\ history = [t \in Sessions |-> history[t]]
      BY DEF MemoryInv
    <2>2. \A t \in Sessions \ {s} : /\ step'[t] = step[t] /\ report'[t] = report[t]
                                    /\ runs'[t] = runs[t]
      BY <1>1, <2>1, SessionSteps
    <2>3. step'[s] \in {"start", "loading", "auditing"} =>
             ReadRuns(s) \/ NoRuns(s) \/ LoadHistory(s) \/ LoadFails(s)
      BY <1>1, <2>1 DEF Session, AuditEnds, FindPrevious, Save, Emit, Fails, Go, TypeInv, TypeOK
    <2>4. ReadRuns(s) \/ NoRuns(s) \/ LoadHistory(s) \/ LoadFails(s) => report'[s] = None
      BY <2>1 DEF ReadRuns, NoRuns, LoadHistory, LoadFails, Go, UnbuiltAreNone
    <2>8. RunsAreStored'
      <3>1. saved \subseteq saved'
        BY <1>1, <2>1, OwnStep
      <3>2. runs'[s] \subseteq saved' /\ (step'[s] = "loading" => runs'[s] # {})
        BY <1>1, <2>1, <3>1, OwnStep DEF RunsAreStored
      <3> QED BY <2>1, <2>2, <3>1, <3>2 DEF RunsAreStored
    <2>5. UnbuiltAreNone'
      BY <2>1, <2>2, <2>3, <2>4 DEF UnbuiltAreNone
    <2>6. \/ history' = history \/ \E h : history' = [history EXCEPT ![s] = h]
      BY <1>1 DEF Session, ReadRuns, NoRuns, LoadHistory, LoadFails, AuditEnds, FindPrevious,
                  Save, Emit, Fails
    <2>7. history' = [t \in Sessions |-> history'[t]]
      BY <2>1, <2>6
    <2> QED BY <2>5, <2>7, <2>8
  <1>2. ASSUME NEW s \in Sessions, NEW p \in Patterns, NEW l \in Labels \cup {None},
               SetLabel(s, p, l)
        PROVE  UnbuiltAreNone' /\ RunsAreStored' /\ history' = [t \in Sessions |-> history'[t]]
    BY <1>2 DEF SetLabel, MemoryInv, UnbuiltAreNone, RunsAreStored
  <1>3. ASSUME UNCHANGED vars
        PROVE  UnbuiltAreNone' /\ RunsAreStored' /\ history' = [t \in Sessions |-> history'[t]]
    BY <1>3 DEF vars, MemoryInv, UnbuiltAreNone, RunsAreStored
  <1> QED BY <1>1, <1>2, <1>3 DEF Next

\* A report is stamped when it is built and keeps its time.
LEMMA RunAtStep ==
    ASSUME TypeInv, NEW s \in Sessions, Session(s)
    PROVE  \/ report'[s] = None
           \/ report'[s].runAt = clock
           \/ report[s] # None /\ report'[s].runAt = report[s].runAt
  <1> USE DEF TypeInv, TypeOK
  <1>1. CASE report'[s] = report[s]
    BY <1>1
  <1>2. CASE AuditEnds(s)
    BY <1>2 DEF AuditEnds
  <1>3. CASE FindPrevious(s)
    <2>1. /\ report[s] \in AuditReport
          /\ report' = report \/ \E q \in saved : report' = [report EXCEPT ![s] = Compared(s, q)]
      BY <1>3, PreviousFound
    <2>2. report[s] # None
      BY <2>1, NoneAssumption
    <2>3. ASSUME NEW q \in saved, report' = [report EXCEPT ![s] = Compared(s, q)]
          PROVE  report'[s].runAt = report[s].runAt
      BY <2>1, <2>3, ComparedTyped, ReportsTyped
    <2> QED BY <2>1, <2>2, <2>3
  <1>4. CASE Fails(s)
    BY <1>4 DEF Fails
  <1>5. ReadRuns(s) \/ NoRuns(s) \/ LoadHistory(s) \/ LoadFails(s) \/ Save(s) \/ Emit(s)
          => report'[s] = report[s]
    BY DEF ReadRuns, NoRuns, LoadHistory, LoadFails, Save, Emit
  <1> QED BY <1>1, <1>2, <1>3, <1>4, <1>5 DEF Session

\* The clock goes on when a report is built, so that no other has its time.
LEMMA RunsDifferStep ==
    ASSUME TypeInv, RunsDiffer, [Next]_vars
    PROVE  RunsDiffer'
  <1>1. CASE \E s \in Sessions : Session(s)
    <2>1. PICK s \in Sessions : Session(s)
      BY <1>1
    <2>2. \A t \in Sessions \ {s} : report'[t] = report[t]
      BY <2>1, SessionSteps
    <2>3. \A t \in Sessions : report[t] # None => report[t].runAt # clock
      <3>1. \A t \in Sessions : report[t] # None => report[t].runAt \in Nat
                                                   /\ report[t].runAt < clock
        BY DEF TypeInv, TypeOK, AuditReport
      <3> QED BY <3>1
    <2>4. ASSUME NEW t \in Sessions \ {s}, report'[s] # None, report'[t] # None
          PROVE  report'[s].runAt # report'[t].runAt
      BY <2>1, <2>2, <2>3, <2>4, RunAtStep DEF RunsDiffer
    <2> QED BY <2>2, <2>4 DEF RunsDiffer
  <1>2. CASE ~\E s \in Sessions : Session(s)
    <2>1. report' = report
      BY <1>2 DEF Next, SetLabel, vars
    <2> QED BY <2>1 DEF RunsDiffer
  <1> QED BY <1>1, <1>2

\* The invariant is inductive.
LEMMA MemoryInvStep ==
    ASSUME MemoryInv, [Next]_vars
    PROVE  MemoryInv'
  <1>0. TypeInv
    BY DEF MemoryInv
  <1>1. /\ TypeInv' /\ UnbuiltAreNone' /\ RunsAreStored'
        /\ history' = [s \in Sessions |-> history'[s]]
    BY <1>0, TypeInvStep, UnbuiltStep
  <1>5. RunsDiffer'
    BY <1>0, RunsDifferStep DEF MemoryInv
  <1> DEFINE Kept(t) == ComparedOk(t)' /\ ShownAreStored(t)' /\ ComparedWithShown(t)'
  <1>2. ASSUME NEW s \in Sessions, Session(s), NEW t \in Sessions
        PROVE  Kept(t)
    <2>1. CASE t # s
      <3>1. step'[t] = step[t] /\ report'[t] = report[t]
        BY <1>0, <1>2, <2>1, SessionSteps
      <3>2. t \in saved' <=> t \in saved
        BY <1>0, <1>2, <2>1, OwnStep
      <3>3. history'[t] = history[t]
        BY <1>2, <2>1 DEF MemoryInv, Session, ReadRuns, NoRuns, LoadHistory, LoadFails,
                          AuditEnds, FindPrevious, Save, Emit, Fails
      <3> QED BY <3>1, <3>2, <3>3, Undisturbed
    <2>2. CASE t = s
      <3>1. CASE LoadHistory(s) \/ NoRuns(s) BY <2>2, <3>1, LoadHistoryKeeps
      <3>2. CASE AuditEnds(s) BY <2>2, <3>2, AuditEndsKeeps
      <3>3. CASE FindPrevious(s) BY <2>2, <3>3, FindPreviousKeeps
      <3>4. CASE Fails(s) BY <2>2, <3>4, FailsKeeps
      <3>5. CASE ReadRuns(s) \/ LoadFails(s) \/ Save(s) \/ Emit(s)
        <4>1. report'[s] = report[s] /\ history'[s] = history[s]
          BY <3>5 DEF ReadRuns, LoadFails, Save, Emit
        <4>2. step'[s] = "compared" \/ s \in saved' => step[s] = "compared" \/ s \in saved
          BY <1>0, <3>5 DEF ReadRuns, LoadFails, Save, Emit, Go, TypeInv, TypeOK
        <4> QED BY <2>2, <4>1, <4>2, Undisturbed
      <3> QED BY <1>2, <3>1, <3>2, <3>3, <3>4, <3>5 DEF Session
    <2> QED BY <2>1, <2>2
  <1>3. ASSUME UNCHANGED <<clock, step, runs, history, report, saved>>, NEW t \in Sessions
        PROVE  Kept(t)
    BY <1>3, Undisturbed
  <1>4. ASSUME NEW t \in Sessions
        PROVE  Kept(t)
    <2>1. CASE \E s \in Sessions : Session(s)
      BY <1>2, <1>4, <2>1
    <2>2. CASE ~\E s \in Sessions : Session(s)
      <3>1. UNCHANGED <<clock, step, runs, history, report, saved>>
        BY <2>2 DEF Next, SetLabel, vars
      <3> QED BY <1>3, <1>4, <3>1
    <2> QED BY <2>1, <2>2
  <1> QED BY <1>1, <1>4, <1>5 DEF MemoryInv

\* The invariant holds at first.
LEMMA MemoryInvInit ==
    ASSUME Init
    PROVE  MemoryInv
  <1>1. TypeInv
    BY TypeInvInit
  <1>2. \A s \in Sessions : report[s] = None /\ history[s] = None
    BY DEF Init
  <1>3. history = [s \in Sessions |-> history[s]]
    BY DEF Init
  <1>4. \A s \in Sessions : runs[s] = {} /\ step[s] = "start"
    BY DEF Init
  <1> QED BY <1>1, <1>2, <1>3, <1>4
          DEF MemoryInv, RunsDiffer, UnbuiltAreNone, RunsAreStored, ComparedOk, ShownAreStored,
              ComparedWithShown

\* A finding no older report in the store has is among the new findings of its report,
\* however many sessions save while it is compared.
THEOREM NovelFindingsAreNewAlways == Spec => []NovelFindingsAreNew
  <1>1. MemoryInv => NovelFindingsAreNew
    <2> SUFFICES ASSUME MemoryInv, NEW s \in saved, report[s].previous # None,
                        NEW p \in DOMAIN report[s].committed,
                        \A q \in saved : report[q].runAt < report[s].runAt
                                            => p \notin DOMAIN report[q].committed
                 PROVE  p \in report[s].diff.new
      BY DEF NovelFindingsAreNew
    <2>1. s \in Sessions /\ report[s] # None /\ ComparedOk(s)
      BY DEF MemoryInv, TypeInv, TypeOK, SavedAreBuilt
    <2> QED BY <2>1 DEF ComparedOk, Diff, NewIn
  <1> QED BY MemoryInvInit, MemoryInvStep, <1>1, PTL DEF Spec

\* An audit that was shown runs is compared with the newest of them or a newer one,
\* whatever other sessions save, and wherever they fail, meanwhile.
THEOREM ComparedWithHistoryAlways == Spec => []ComparedWithHistory
  <1>1. MemoryInv => ComparedWithHistory
    BY DEF MemoryInv, TypeInv, TypeOK, ComparedWithHistory, ComparedWithShown
  <1> QED BY MemoryInvInit, MemoryInvStep, <1>1, PTL DEF Spec

\* What `queryargus diff` shows and what the newest report says of itself agree.
THEOREM DiffAgreesWithReportAlways == Spec => []DiffAgreesWithReport
  <1>1. MemoryInv => DiffAgreesWithReport
    <2> SUFFICES ASSUME MemoryInv, Cardinality(saved) >= 2,
                        report[DiffCommand(Reports).current].previous # None
                 PROVE  LET shown == DiffCommand(Reports)
                            own == report[shown.current]
                        IN /\ report[own.previous].runAt <= report[shown.previous].runAt
                           /\ report[shown.previous].runAt < own.runAt
                           /\ own.previous = shown.previous => own.diff = shown.diff
      BY DEF DiffAgreesWithReport
    <2> DEFINE cur == Newest(Reports)
               prev == Newest(Reports \ {cur})
    <2>1. /\ TypeInv /\ IsFiniteSet(Reports)
          /\ \A r \in Reports : r.runAt \in Nat
          /\ \A r \in Reports : /\ r.id \in saved /\ r.runAt = report[r.id].runAt
                                /\ r.committed = report[r.id].committed /\ r = Stored(r.id)
      <3>1. TypeInv
        BY DEF MemoryInv
      <3> QED BY <3>1, ReportsTyped DEF Reports, Stored
    <2>2. saved # {}
      <3>1. IsFiniteSet(saved)
        BY <2>1, FS_Subset, MemoryAssumption DEF TypeInv, TypeOK
      <3> QED BY <3>1, FS_EmptySet
    <2>3. cur \in Reports
      <3>1. Reports # {}
        BY <2>2 DEF Reports
      <3> QED BY <2>1, <3>1, NewestExists DEF Newest
    <2>4. DiffCommand(Reports) = [current |-> cur.id, previous |-> prev.id,
                                  diff |-> Diff(cur.committed, prev.committed)]
      BY DEF DiffCommand
    <2> DEFINE own == report[cur.id]
    <2>5. own.previous # None
      BY <2>4
    <2>6. own.previous \in saved /\ report[own.previous].runAt < own.runAt
          /\ own.diff = Diff(own.committed, report[own.previous].committed)
      <3>1. cur.id \in saved
        BY <2>1, <2>3
      <3>2. ComparedOk(cur.id) /\ own # None
        BY <2>1, <3>1 DEF MemoryInv, TypeInv, TypeOK, SavedAreBuilt
      <3> QED BY <2>5, <3>2 DEF ComparedOk
    <2>7. Stored(own.previous) \in Reports \ {cur}
          /\ Stored(own.previous).runAt = report[own.previous].runAt
      <3>1. /\ Stored(own.previous) \in Reports
            /\ Stored(own.previous).runAt = report[own.previous].runAt
        BY <2>1, <2>6, ReportsTyped
      <3>2. report[own.previous].runAt \in Nat /\ own.runAt = cur.runAt /\ cur.runAt \in Nat
        BY <2>1, <2>3, <3>1
      <3>3. Stored(own.previous) # cur
        BY <2>6, <3>1, <3>2
      <3> QED BY <3>1, <3>3
    <2>8. prev \in Reports \ {cur} /\ \A q \in Reports \ {cur} : ~Newer(q, prev)
      <3> DEFINE rest == Reports \ {cur}
      <3>1. IsFiniteSet(rest) /\ rest # {} /\ \A r \in rest : r.runAt \in Nat
        BY <2>1, <2>7, FS_Subset
      <3>2. prev = CHOOSE r \in rest : \A q \in rest : ~Newer(q, r)
        BY DEF Newest
      <3> HIDE DEF rest, prev
      <3>3. prev \in rest /\ \A q \in rest : ~Newer(q, prev)
        BY <3>1, <3>2, NewestExists
      <3> QED BY <3>3 DEF rest
    <2>9. report[own.previous].runAt <= report[prev.id].runAt
      <3>1. ~Newer(Stored(own.previous), prev)
        BY <2>7, <2>8
      <3>2. report[prev.id].runAt = prev.runAt /\ prev.runAt \in Nat
            /\ Stored(own.previous).runAt \in Nat
        BY <2>1, <2>7, <2>8
      <3> QED BY <2>7, <3>1, <3>2 DEF Newer
    <2>10. own.previous = prev.id => own.diff = Diff(cur.committed, prev.committed)
      <3>1. cur.committed = own.committed /\ prev.committed = report[prev.id].committed
        BY <2>1, <2>3, <2>8
      <3> QED BY <2>6, <3>1
    <2>11. report[prev.id].runAt < own.runAt
      <3>1. prev \in Reports /\ prev # cur
        BY <2>8
      <3>2. prev.id # cur.id
        BY <2>1, <2>3, <3>1
      <3>3. /\ prev.id \in saved /\ cur.id \in saved
            /\ report[prev.id].runAt = prev.runAt /\ own.runAt = cur.runAt
            /\ prev.runAt \in Nat /\ cur.runAt \in Nat
        BY <2>1, <2>3, <3>1
      <3>4. prev.runAt # cur.runAt
        BY <3>2, <3>3 DEF MemoryInv, RunsDiffer, TypeInv, TypeOK, SavedAreBuilt
      <3>5. ~Newer(prev, cur)
        <4>1. cur = CHOOSE r \in Reports : \A q \in Reports : ~Newer(q, r)
          BY DEF Newest
        <4>2. \A q \in Reports : ~Newer(q, cur)
          <5> HIDE DEF cur, prev
          <5> QED BY <2>1, <2>3, <4>1, NewestExists
        <4> QED BY <3>1, <4>2
      <3> HIDE DEF cur, prev
      <3> QED BY <3>3, <3>4, <3>5 DEF Newer
    <2> HIDE DEF cur, prev
    <2> QED BY <2>4, <2>9, <2>10, <2>11
  <1> QED BY MemoryInvInit, MemoryInvStep, <1>1, PTL DEF Spec

-----------------------------------------------------------------------------
(* The verdicts the planner is shown. *)

\* The rows with the label l on p are one per saved report with it.
LEMMA LabelsCounted ==
    ASSUME TypeInv, NEW p \in Patterns, NEW l, l # None
    PROVE  LET carrying == {s \in saved : label[s][p] = l}
           IN /\ Cardinality({r \in Given(Reports, p) : r.label[p] = l}) = Cardinality(carrying)
              /\ Cardinality(carrying) \in Nat
  <1> DEFINE carrying == {s \in saved : label[s][p] = l}
             rows == {r \in Given(Reports, p) : r.label[p] = l}
             f == [s \in carrying |-> Stored(s)]
  <1>1. IsFiniteSet(carrying)
    BY FS_Subset, MemoryAssumption DEF TypeInv, TypeOK
  <1>2. \A s \in saved : /\ Stored(s) \in Reports /\ Stored(s).id = s
                         /\ Stored(s).label = label[s] /\ p \in DOMAIN label[s]
    <2>1. \A s \in saved : s \in Sessions
      BY DEF TypeInv, TypeOK
    <2> QED BY <2>1 DEF TypeInv, TypeOK, Reports, Stored
  <1>3. \A s \in carrying : Stored(s) \in rows
    BY <1>2 DEF Given
  <1>4. \A r \in rows : \E s \in carrying : r = Stored(s)
    <2> TAKE r \in rows
    <2>1. PICK s \in saved : r = Stored(s)
      BY DEF Given, Reports
    <2> QED BY <1>2, <2>1
  <1>5. f \in Bijection(carrying, rows)
    <2>1. f \in [carrying -> rows]
      BY <1>3
    <2>2. \A s, t \in carrying : f[s] = f[t] => s = t
      BY <1>2
    <2>3. \A r \in rows : \E s \in carrying : f[s] = r
      BY <1>4
    <2> HIDE DEF f, carrying, rows
    <2> QED BY <2>1, <2>2, <2>3 DEF Bijection, IsInjective, Injection, Surjection
  <1>6. Cardinality(rows) = Cardinality(carrying)
    <2> HIDE DEF f, carrying, rows
    <2> QED BY <1>1, <1>5, FS_Bijection DEF ExistsBijection
  <1> QED BY <1>1, <1>6, FS_CardinalityType

\* A pattern has a verdict if a saved report has a label on it, and what the verdict says
\* is what most of the labels say.
LEMMA VerdictIsMajority ==
    ASSUME TypeInv, NEW p \in Patterns
    PROVE  /\ Given(Reports, p) # {} <=> LabelledRuns(p) # {}
           /\ NetLabel(UserVerdict(Reports, p)) = Majority(p)
  <1>1. Given(Reports, p) # {} <=> LabelledRuns(p) # {}
    <2>1. \A s \in saved : /\ Stored(s) \in Reports /\ Stored(s).label = label[s]
                           /\ p \in DOMAIN label[s]
      <3>1. \A s \in saved : s \in Sessions
        BY DEF TypeInv, TypeOK
      <3> QED BY <3>1 DEF TypeInv, TypeOK, Reports, Stored
    <2>2. \A r \in Reports : \E s \in saved : r = Stored(s)
      BY DEF Reports
    <2> QED BY <2>1, <2>2 DEF Given, LabelledRuns
  <1> DEFINE tp == Cardinality({s \in saved : label[s][p] = "tp"})
             fp == Cardinality({s \in saved : label[s][p] = "fp"})
  <1>2. /\ UserVerdict(Reports, p).tp = Cardinality({r \in Given(Reports, p) : r.label[p] = "tp"})
        /\ UserVerdict(Reports, p).fp = Cardinality({r \in Given(Reports, p) : r.label[p] = "fp"})
    BY DEF UserVerdict
  <1>3. UserVerdict(Reports, p).tp = tp
    BY <1>2, LabelsCounted, MemoryAssumption
  <1>4. UserVerdict(Reports, p).fp = fp
    BY <1>2, LabelsCounted, MemoryAssumption
  <1>5. NetLabel(UserVerdict(Reports, p)) = IF tp > fp THEN "tp" ELSE IF fp > tp THEN "fp" ELSE None
    <2> HIDE DEF tp, fp
    <2> QED BY <1>3, <1>4 DEF NetLabel
  <1> QED BY <1>1, <1>5 DEF Majority

-----------------------------------------------------------------------------
(* What is cut off the prompt. *)

\* The findings P of a context can be told apart by how often and when they were raised.
Sortable(ctx, P) ==
    \A p \in P : ctx.findings[p].seen \in Nat /\ ctx.findings[p].last \in Nat

\* Some finding of a finite set comes before none of the others.
LEMMA LastExists ==
    ASSUME NEW ctx, NEW P, IsFiniteSet(P), P # {}, Sortable(ctx, P)
    PROVE  \E m \in P : \A q \in P : ~Before(ctx, m, q)
  <1> DEFINE Below(p) == {q \in P : Before(ctx, p, q)}
             Family == {Below(p) : p \in P}
  <1>1. Family \subseteq FiniteSubsetsOf(P) /\ Family # {}
    <2>1. \A p \in P : Below(p) \subseteq P /\ IsFiniteSet(Below(p))
      BY FS_Subset
    <2> QED BY <2>1 DEF FiniteSubsetsOf
  <1>2. IsWellFoundedOn(StrictSubsetOrdering(P), FiniteSubsetsOf(P))
    BY FS_StrictSubsetOrderingWellFounded
  <1>3. PICK A \in Family : \A B \in Family : <<B, A>> \notin StrictSubsetOrdering(P)
    <2> HIDE DEF Family
    <2> QED BY <1>1, <1>2, WFMin
  <1>4. PICK m \in P : A = Below(m)
    OBVIOUS
  <1>5. ASSUME NEW q \in P, Before(ctx, m, q)
        PROVE  FALSE
    <2>1. Below(q) \subseteq Below(m)
      BY <1>5 DEF Before, Sortable
    <2>2. q \in Below(m) /\ q \notin Below(q)
      BY <1>5 DEF Before, Sortable
    <2>3. <<Below(q), Below(m)>> \in StrictSubsetOrdering(P)
      BY <2>1, <2>2 DEF StrictSubsetOrdering
    <2> QED BY <1>3, <1>4, <2>3
  <1> QED BY <1>5

\* The findings P hold max that nothing outside of them comes before: the smallest set of
\* at least max that nothing outside of it comes before has no more, or its last could go.
LEMMA FirstExist ==
    ASSUME NEW ctx, NEW P, IsFiniteSet(P), Sortable(ctx, P),
           NEW max \in Nat, max < Cardinality(P)
    PROVE  \E F \in SUBSET P : /\ Cardinality(F) = max
                               /\ \A p \in F, q \in P \ F : ~Before(ctx, q, p)
  <1> DEFINE Top(F) == /\ Cardinality(F) >= max
                       /\ \A p \in F, q \in P \ F : ~Before(ctx, q, p)
             Family == {F \in SUBSET P : Top(F)}
  <1>1. Family \subseteq FiniteSubsetsOf(P) /\ P \in Family
    <2>1. Cardinality(P) \in Nat
      BY FS_CardinalityType
    <2>2. \A F \in SUBSET P : IsFiniteSet(F)
      BY FS_Subset
    <2> QED BY <2>1, <2>2 DEF FiniteSubsetsOf
  <1>2. IsWellFoundedOn(StrictSubsetOrdering(P), FiniteSubsetsOf(P))
    BY FS_StrictSubsetOrderingWellFounded
  <1>3. PICK F \in Family : \A G \in Family : <<G, F>> \notin StrictSubsetOrdering(P)
    <2> HIDE DEF Family
    <2> QED BY <1>1, <1>2, WFMin
  <1>4. F \subseteq P /\ Top(F)
    BY <1>3
  <1>5. IsFiniteSet(F) /\ Cardinality(F) \in Nat
    BY <1>4, FS_Subset, FS_CardinalityType
  <1>6. ASSUME Cardinality(F) > max
        PROVE  FALSE
    <2>1. F # {} /\ Sortable(ctx, F)
      BY <1>4, <1>5, <1>6, FS_EmptySet DEF Sortable
    <2>2. PICK m \in F : \A q \in F : ~Before(ctx, m, q)
      BY <1>5, <2>1, LastExists
    <2>3. Cardinality(F \ {m}) = Cardinality(F) - 1
      BY <1>5, FS_RemoveElement
    <2>4. ASSUME NEW p \in F \ {m}, NEW q \in P \ (F \ {m})
          PROVE  ~Before(ctx, q, p)
      BY <1>4, <2>2
    <2>5. F \ {m} \in Family
      BY <1>4, <1>5, <1>6, <2>3, <2>4
    <2>6. <<F \ {m}, F>> \in StrictSubsetOrdering(P)
      BY <1>4 DEF StrictSubsetOrdering
    <2> QED BY <1>3, <2>5, <2>6
  <1>7. Cardinality(F) = max
    BY <1>4, <1>5, <1>6
  <1> QED BY <1>4, <1>7

\* What FirstOf leaves out comes before none of max that it keeps.
LEMMA FirstOfKeeps ==
    ASSUME NEW ctx, NEW P, IsFiniteSet(P), Sortable(ctx, P), NEW max \in Nat
    PROVE  /\ FirstOf(ctx, P, max) \subseteq P
           /\ \A p \in P \ FirstOf(ctx, P, max) :
                 \E F \in SUBSET (P \ {p}) : /\ Cardinality(F) = max
                                             /\ \A q \in F : ~Before(ctx, p, q)
  <1> DEFINE F == FirstOf(ctx, P, max)
  <1>0. Cardinality(P) \in Nat
    BY FS_CardinalityType
  <1>1. CASE Cardinality(P) <= max
    BY <1>1 DEF FirstOf
  <1>2. CASE max < Cardinality(P)
    <2>0. ~(Cardinality(P) <= max)
      BY <1>0, <1>2
    <2>1. F = CHOOSE G \in SUBSET P : /\ Cardinality(G) = max
                                      /\ \A p \in G, q \in P \ G : ~Before(ctx, q, p)
      BY <2>0, Zenon DEF FirstOf
    <2>2. \E G \in SUBSET P : /\ Cardinality(G) = max
                              /\ \A p \in G, q \in P \ G : ~Before(ctx, q, p)
      BY <1>2, FirstExist
    <2> HIDE DEF F
    <2>3. /\ F \in SUBSET P /\ Cardinality(F) = max
          /\ \A p \in F, q \in P \ F : ~Before(ctx, q, p)
      BY <2>1, <2>2
    <2>4. ASSUME NEW p \in P \ F
          PROVE  F \in SUBSET (P \ {p}) /\ \A q \in F : ~Before(ctx, p, q)
      BY <2>3
    <2> QED BY <2>3, <2>4 DEF F
  <1> QED BY <1>0, <1>1, <1>2

\* An orphan that is left out leaves room for max others.
LEMMA OrphansKept ==
    ASSUME NEW ctx, IsFiniteSet(Orphans(ctx)), NEW max \in Nat
    PROVE  /\ ShownOrphans(ctx, max) \subseteq Orphans(ctx)
           /\ \A p \in Orphans(ctx) \ ShownOrphans(ctx, max) :
                 \E F \in SUBSET (Orphans(ctx) \ {p}) : Cardinality(F) = max
  <1> DEFINE P == Orphans(ctx)
             F == ShownOrphans(ctx, max)
  <1>0. Cardinality(P) \in Nat
    BY FS_CardinalityType
  <1>1. CASE Cardinality(P) <= max
    BY <1>1 DEF ShownOrphans
  <1>2. CASE max < Cardinality(P)
    <2>1. F = CHOOSE G \in SUBSET P : Cardinality(G) = max
      BY <1>0, <1>2 DEF ShownOrphans
    <2>2. \E G \in SUBSET P : Cardinality(G) = max
      <3> DEFINE alike == [findings |-> [p \in P |-> [seen |-> 0, last |-> 0]]]
      <3>1. Sortable(alike, P)
        BY DEF Sortable
      <3> HIDE DEF alike, P
      <3> QED BY <1>2, <3>1, FirstExist DEF P
    <2> HIDE DEF F, P
    <2>3. F \in SUBSET P /\ Cardinality(F) = max
      BY <2>1, <2>2
    <2> QED BY <2>3 DEF F, P
  <1> QED BY <1>0, <1>1, <1>2

\* The block of p in a prompt of ctx: the findings of its kind, or the orphans.
Neighbours(ctx, p, q) ==
    IF p \in DOMAIN ctx.findings
    THEN /\ q \in DOMAIN ctx.findings
         /\ IsPersistent(ctx.findings[p]) <=> IsPersistent(ctx.findings[q])
         /\ ~Before(ctx, p, q)
    ELSE q \in Orphans(ctx)

\* A prompt says of each verdict what it is, and leaves one out only for max others that
\* stand in its block and that it does not come before.
LEMMA ShownOrBehind ==
    ASSUME NEW ctx, NEW max \in Nat, IsFiniteSet(Patterns),
           DOMAIN ctx.findings \subseteq Patterns, DOMAIN ctx.verdicts \subseteq Patterns,
           ctx.dismissed \subseteq DOMAIN ctx.findings, Sortable(ctx, DOMAIN ctx.findings)
    PROVE  /\ ShownVerdicts(ctx, max)
                \subseteq {<<p, NetLabel(ctx.verdicts[p])>> : p \in DOMAIN ctx.verdicts}
           /\ \A p \in DOMAIN ctx.verdicts :
                 \/ <<p, NetLabel(ctx.verdicts[p])>> \in ShownVerdicts(ctx, max)
                 \/ \E F \in SUBSET (Patterns \ {p}) :
                       Cardinality(F) = max /\ \A q \in F : Neighbours(ctx, p, q)
  <1> DEFINE often == {p \in DOMAIN ctx.findings : IsPersistent(ctx.findings[p])}
             once == {p \in DOMAIN ctx.findings : ~IsPersistent(ctx.findings[p])}
             shown == ((Persistent(ctx, max) \cup OneOff(ctx, max)) \cap DOMAIN ctx.verdicts)
                        \cup ShownOrphans(ctx, max)
  <1>1. /\ IsFiniteSet(often) /\ Sortable(ctx, often)
        /\ IsFiniteSet(once) /\ Sortable(ctx, once)
    <2>1. often \subseteq Patterns /\ once \subseteq Patterns
      OBVIOUS
    <2> QED BY <2>1, FS_Subset DEF Sortable
  <1>2. Orphans(ctx) = DOMAIN ctx.verdicts \ DOMAIN ctx.findings
    BY DEF Orphans
  <1>3. IsFiniteSet(Orphans(ctx))
    BY <1>2, FS_Subset
  <1>4. ShownVerdicts(ctx, max) = {<<p, NetLabel(ctx.verdicts[p])>> : p \in shown}
    BY DEF ShownVerdicts
  <1>5. ShownOrphans(ctx, max) \subseteq Orphans(ctx)
    BY <1>3, OrphansKept
  <1>6. shown \subseteq DOMAIN ctx.verdicts
    BY <1>2, <1>5
  <1>7. ASSUME NEW p \in DOMAIN ctx.verdicts, p \notin shown
        PROVE  \E F \in SUBSET (Patterns \ {p}) :
                  Cardinality(F) = max /\ \A q \in F : Neighbours(ctx, p, q)
    <2>1. CASE p \notin DOMAIN ctx.findings
      <3>1. p \in Orphans(ctx) \ ShownOrphans(ctx, max)
        BY <1>2, <1>7, <2>1
      <3>2. PICK F \in SUBSET (Orphans(ctx) \ {p}) : Cardinality(F) = max
        BY <1>3, <3>1, OrphansKept
      <3>3. F \in SUBSET (Patterns \ {p}) /\ \A q \in F : Neighbours(ctx, p, q)
        BY <1>2, <2>1, <3>2 DEF Neighbours
      <3> QED BY <3>2, <3>3
    <2>2. CASE p \in often
      <3>1. p \in often \ FirstOf(ctx, often, max)
        <4> HIDE DEF often
        <4>1. Persistent(ctx, max) = FirstOf(ctx, often, max)
          BY DEF Persistent, often
        <4> QED BY <1>7, <2>2, <4>1
      <3>2. PICK F \in SUBSET (often \ {p}) :
               Cardinality(F) = max /\ \A q \in F : ~Before(ctx, p, q)
        <4> HIDE DEF often
        <4> QED BY <1>1, <3>1, FirstOfKeeps
      <3>3. F \in SUBSET (Patterns \ {p}) /\ \A q \in F : Neighbours(ctx, p, q)
        BY <2>2, <3>2 DEF Neighbours
      <3> QED BY <3>2, <3>3
    <2>3. CASE p \in once
      <3>1. p \in once \ FirstOf(ctx, once, max)
        <4> HIDE DEF once
        <4>1. OneOff(ctx, max) = FirstOf(ctx, once, max)
          BY DEF OneOff, once
        <4> QED BY <1>7, <2>3, <4>1
      <3>2. PICK F \in SUBSET (once \ {p}) :
               Cardinality(F) = max /\ \A q \in F : ~Before(ctx, p, q)
        <4> HIDE DEF once
        <4> QED BY <1>1, <3>1, FirstOfKeeps
      <3>3. F \in SUBSET (Patterns \ {p}) /\ \A q \in F : Neighbours(ctx, p, q)
        BY <2>3, <3>2 DEF Neighbours
      <3> QED BY <3>2, <3>3
    <2> QED BY <2>1, <2>2, <2>3
  <1> HIDE DEF shown
  <1> QED BY <1>4, <1>6, <1>7

-----------------------------------------------------------------------------
(* What a session is shown. *)

\* What a prompt is made of when all reports are read after the runs with these ids.
Loaded(ids) == HistoricalContext({r \in Reports : r.id \in ids}, Reports)

\* A finding of the loaded runs was seen in as many as raised it, the last of which is one.
LEMMA FindingsCounted ==
    ASSUME TypeInv, NEW ids \in SUBSET saved
    PROVE  /\ \A p : p \in DOMAIN Loaded(ids).findings <=> RaisedIn(ids, p) # {}
           /\ DOMAIN Loaded(ids).findings \subseteq Patterns
           /\ Loaded(ids).dismissed \subseteq DOMAIN Loaded(ids).findings
           /\ Loaded(ids).runs = ids
           /\ \A p : Cardinality(RaisedIn(ids, p)) \in Nat
           /\ \A p \in DOMAIN Loaded(ids).findings :
                 /\ Loaded(ids).findings[p].seen = Cardinality(RaisedIn(ids, p))
                 /\ Loaded(ids).findings[p].last \in Nat
                 /\ \E s \in RaisedIn(ids, p) : report[s].runAt = Loaded(ids).findings[p].last
                 /\ \A s \in RaisedIn(ids, p) : report[s].runAt <= Loaded(ids).findings[p].last
  <1> DEFINE W == {r \in Reports : r.id \in ids}
             ctx == Loaded(ids)
  <1>1. \A s \in ids : /\ s \in saved /\ Stored(s) \in W /\ Stored(s).id = s
                       /\ Raised(Stored(s)) = Raised(report[s])
                       /\ Stored(s).dismissed = report[s].dismissed
                       /\ Stored(s).runAt = report[s].runAt /\ report[s].runAt \in Nat
    BY ReportsTyped DEF Stored, Raised, AuditReport
  <1>2. \A r \in W : \E s \in ids : r = Stored(s)
    BY DEF Reports, Stored
  <1>3. IsFiniteSet(ids)
    <2>1. saved \subseteq Sessions
      BY DEF TypeInv, TypeOK
    <2> QED BY <2>1, FS_Subset, MemoryAssumption
  <1>4. /\ DOMAIN ctx.findings = UNION {Raised(r) : r \in W}
        /\ ctx.dismissed = UNION {r.dismissed : r \in W}
        /\ ctx.runs = {r.id : r \in W}
        /\ \A p \in DOMAIN ctx.findings : ctx.findings[p] = FindingHistory(W, p)
    BY DEF Loaded, HistoricalContext
  <1> HIDE DEF ctx
  <1>5. ctx.runs = ids
    <2> HIDE DEF W
    <2> QED BY <1>1, <1>2, <1>4
  <1>6. \A p : p \in DOMAIN ctx.findings <=> RaisedIn(ids, p) # {}
    <2> HIDE DEF W
    <2>1. ASSUME NEW p, p \in DOMAIN ctx.findings
          PROVE  RaisedIn(ids, p) # {}
      <3>1. PICK r \in W : p \in Raised(r)
        BY <1>4, <2>1
      <3>2. PICK s \in ids : r = Stored(s)
        BY <1>2
      <3> QED BY <1>1, <3>1, <3>2 DEF RaisedIn
    <2>2. ASSUME NEW p, NEW s \in RaisedIn(ids, p)
          PROVE  p \in DOMAIN ctx.findings
      <3>1. s \in ids /\ p \in Raised(Stored(s)) /\ Stored(s) \in W
        BY <1>1 DEF RaisedIn
      <3> QED BY <1>4, <3>1
    <2> QED BY <2>1, <2>2
  <1>7. DOMAIN ctx.findings \subseteq Patterns
    <2> SUFFICES ASSUME NEW p, NEW s \in RaisedIn(ids, p)
                 PROVE  p \in Patterns
      BY <1>6
    <2>1. s \in ids /\ p \in Raised(report[s])
      BY DEF RaisedIn
    <2>2. report[s] \in AuditReport
      BY <1>1, <2>1, ReportsTyped
    <2>3. PICK c \in Contents, d \in Contents :
              report[s].committed = c.committed /\ report[s].dismissed = d.dismissed
      BY <2>2 DEF AuditReport
    <2>4. DOMAIN c.committed \subseteq Patterns /\ d.dismissed \subseteq Patterns
      BY MemoryAssumption DEF Raised
    <2> QED BY <2>1, <2>3, <2>4 DEF Raised
  <1>8. ctx.dismissed \subseteq DOMAIN ctx.findings
    <2> HIDE DEF W
    <2> QED BY <1>4 DEF Raised
  <1>9. ASSUME NEW p
        PROVE  /\ Cardinality(RaisedIn(ids, p)) \in Nat
               /\ Cardinality({r \in W : p \in Raised(r)}) = Cardinality(RaisedIn(ids, p))
    <2> DEFINE S == RaisedIn(ids, p)
               T == {r \in W : p \in Raised(r)}
               f == [s \in S |-> Stored(s)]
    <2>1. IsFiniteSet(S)
      BY <1>3, FS_Subset DEF RaisedIn
    <2>2. S \subseteq ids /\ \A s \in ids : s \in S <=> p \in Raised(report[s])
      BY DEF RaisedIn
    <2> HIDE DEF S, W
    <2>3. \A s \in S : Stored(s) \in T /\ Stored(s).id = s
      BY <1>1, <2>2
    <2>4. \A r \in T : \E s \in S : r = Stored(s)
      BY <1>1, <1>2, <2>2
    <2>5. f \in Bijection(S, T)
      <3>1. f \in [S -> T]
        BY <2>3
      <3>2. \A s, t \in S : f[s] = f[t] => s = t
        BY <2>3
      <3>3. \A r \in T : \E s \in S : f[s] = r
        BY <2>4
      <3> HIDE DEF f, T
      <3> QED BY <3>1, <3>2, <3>3 DEF Bijection, IsInjective, Injection, Surjection
    <2>6. Cardinality(T) = Cardinality(S)
      <3> HIDE DEF f, T
      <3> QED BY <2>1, <2>5, FS_Bijection DEF ExistsBijection
    <2> QED BY <2>1, <2>6, FS_CardinalityType DEF S
  <1>10. ASSUME NEW p \in DOMAIN ctx.findings
         PROVE  /\ ctx.findings[p].last \in Nat
                /\ \E s \in RaisedIn(ids, p) : report[s].runAt = ctx.findings[p].last
                /\ \A s \in RaisedIn(ids, p) : report[s].runAt <= ctx.findings[p].last
    <2> DEFINE T == {r \in W : p \in Raised(r)}
               times == {r.runAt : r \in T}
    <2>0. FindingHistory(W, p).last = CHOOSE t \in times : \A r \in T : r.runAt <= t
      BY Zenon DEF FindingHistory
    <2>1. ctx.findings[p].last = CHOOSE t \in times : \A r \in T : r.runAt <= t
      <3> HIDE DEF W, T, times
      <3> QED BY <1>4, <2>0
    <2>2. \A s \in RaisedIn(ids, p) : Stored(s) \in T /\ Stored(s).runAt = report[s].runAt
      BY <1>1 DEF RaisedIn
    <2>3. \A r \in T : \E s \in RaisedIn(ids, p) : r = Stored(s)
      <3> TAKE r \in T
      <3>1. PICK s \in ids : r = Stored(s)
        BY <1>2
      <3> QED BY <1>1, <3>1 DEF RaisedIn
    <2>4. IsFiniteSet(T) /\ T # {} /\ \A r \in T : r.runAt \in Nat
      <3>1. T \subseteq Reports /\ IsFiniteSet(Reports) /\ \A r \in Reports : r.runAt \in Nat
        BY ReportsTyped
      <3>2. PICK s \in RaisedIn(ids, p) : TRUE
        BY <1>6
      <3> QED BY <2>2, <3>1, <3>2, FS_Subset
    <2> HIDE DEF T
    <2>5. PICK r \in T : \A q \in T : ~Newer(q, r)
      BY <2>4, NewestExists
    <2>6. r.runAt \in times /\ \A q \in T : q.runAt <= r.runAt
      BY <2>4, <2>5 DEF Newer
    <2>7. /\ ctx.findings[p].last \in times
          /\ \A q \in T : q.runAt <= ctx.findings[p].last
      BY <2>1, <2>6
    <2>8. PICK q \in T : ctx.findings[p].last = q.runAt
      BY <2>7
    <2>9. PICK s \in RaisedIn(ids, p) : q = Stored(s)
      BY <2>3
    <2> QED BY <2>2, <2>4, <2>7, <2>8, <2>9
  <1>11. \A p \in DOMAIN ctx.findings : ctx.findings[p].seen = Cardinality(RaisedIn(ids, p))
    <2> TAKE p \in DOMAIN ctx.findings
    <2>0. FindingHistory(W, p).seen = Cardinality({r \in W : p \in Raised(r)})
      BY DEF FindingHistory
    <2> HIDE DEF W
    <2>1. ctx.findings[p].seen = Cardinality({r \in W : p \in Raised(r)})
      BY <1>4, <2>0
    <2> QED BY <1>9, <2>1
  <1> QED BY <1>5, <1>6, <1>7, <1>8, <1>9, <1>10, <1>11 DEF ctx

\* A history loaded of runs of the store has the majority verdict on every labelled pattern
\* and no other.
LEMMA LoadedVerdicts ==
    ASSUME TypeInv, NEW ids \in SUBSET saved, ids # {}
    PROVE  /\ DOMAIN Loaded(ids).verdicts = Labelled
           /\ \A p \in Labelled : NetLabel(Loaded(ids).verdicts[p]) = Majority(p)
  <1> DEFINE W == {r \in Reports : r.id \in ids}
             V == IF W = {} THEN {} ELSE VerdictRuns(Reports, W)
             ctx == Loaded(ids)
  <1>1. V = Reports
    <2>1. PICK s \in ids : TRUE
      OBVIOUS
    <2>2. Stored(s) \in W
      BY <2>1, ReportsTyped
    <2> QED BY <2>2 DEF VerdictRuns
  <1>2. ctx.verdicts = [p \in {q \in Patterns : Given(V, q) # {}} |-> UserVerdict(V, p)]
    BY DEF HistoricalContext, Loaded
  <1> HIDE DEF V, ctx
  <1>3. ctx.verdicts = [p \in {q \in Patterns : Given(Reports, q) # {}} |->
                          UserVerdict(Reports, p)]
    BY <1>1, <1>2
  <1>4. DOMAIN ctx.verdicts = {q \in Patterns : Given(Reports, q) # {}}
    BY <1>3
  <1>5. {q \in Patterns : Given(Reports, q) # {}} = Labelled
    BY VerdictIsMajority DEF Labelled
  <1>6. ASSUME NEW p \in Labelled
        PROVE  NetLabel(ctx.verdicts[p]) = Majority(p)
    <2>1. ctx.verdicts[p] = UserVerdict(Reports, p) /\ p \in Patterns
      BY <1>3, <1>5 DEF Labelled
    <2> QED BY <2>1, VerdictIsMajority
  <1> QED BY <1>4, <1>5, <1>6 DEF ctx

\* What a prompt of loaded runs keeps beside p, or has among the orphans with it, are its
\* rivals.
LEMMA NeighboursAreRivals ==
    ASSUME TypeInv, NEW ids \in SUBSET saved, ids # {}, NEW p \in Labelled,
           NEW q \in Patterns \ {p}, Neighbours(Loaded(ids), p, q)
    PROVE  q \in Rivals(ids, p)
  <1> DEFINE ctx == Loaded(ids)
             often(x) == Cardinality(RaisedIn(ids, x))
  <1>1. \A x : often(x) \in Nat /\ (often(x) = 0 <=> RaisedIn(ids, x) = {})
    <2>1. \A x : RaisedIn(ids, x) \in SUBSET Sessions
      BY DEF RaisedIn, TypeInv, TypeOK
    <2>2. \A x : IsFiniteSet(RaisedIn(ids, x))
      BY <2>1, FS_Subset, MemoryAssumption
    <2> QED BY <2>2, FS_EmptySet, FindingsCounted
  <1>2. \A x : x \in DOMAIN ctx.findings <=> often(x) # 0
    BY <1>1, FindingsCounted
  <1>3. CASE p \notin DOMAIN ctx.findings
    <2>1. q \in Orphans(ctx)
      BY <1>3 DEF Neighbours
    <2>2. q \in Labelled /\ often(q) = 0 /\ often(p) = 0
      BY <1>2, <1>3, <2>1, LoadedVerdicts DEF Orphans
    <2> QED BY <2>2 DEF Rivals
  <1>4. CASE p \in DOMAIN ctx.findings
    <2>1. /\ q \in DOMAIN ctx.findings /\ ~Before(ctx, p, q)
          /\ IsPersistent(ctx.findings[p]) <=> IsPersistent(ctx.findings[q])
      BY <1>4 DEF Neighbours
    <2>2. /\ ctx.findings[p].seen = often(p) /\ ctx.findings[q].seen = often(q)
          /\ ctx.findings[p].last \in Nat /\ ctx.findings[q].last \in Nat
      BY <1>4, <2>1, FindingsCounted
    <2> HIDE DEF ctx, often
    <2>3. often(p) >= 2 <=> often(q) >= 2
      BY <2>1, <2>2 DEF IsPersistent
    <2>4. \/ often(q) > often(p)
          \/ often(q) = often(p) /\ ctx.findings[p].last <= ctx.findings[q].last
      BY <1>1, <2>1, <2>2 DEF Before
    <2>5. ASSUME ctx.findings[p].last <= ctx.findings[q].last
          PROVE  \E s \in RaisedIn(ids, q) :
                    \A t \in RaisedIn(ids, p) : report[t].runAt <= report[s].runAt
      <3>1. PICK s \in RaisedIn(ids, q) : report[s].runAt = ctx.findings[q].last
        BY <2>1, FindingsCounted DEF ctx
      <3>2. ASSUME NEW t \in RaisedIn(ids, p)
            PROVE  report[t].runAt <= report[s].runAt
        <4>1. report[t].runAt <= ctx.findings[p].last
          BY <1>4, FindingsCounted DEF ctx
        <4>2. report[t].runAt \in Nat
          BY ReportsTyped DEF RaisedIn, AuditReport
        <4> QED BY <2>2, <2>5, <3>1, <4>1, <4>2
      <3> QED BY <3>2
    <2>6. often(p) # 0
      BY <1>2, <1>4
    <2> QED BY <2>3, <2>4, <2>5, <2>6 DEF Rivals, often
  <1> QED BY <1>3, <1>4

\* What is told of a history just loaded.
ToldOf(ctx) ==
    LET told == ShownVerdicts(ctx, MaxFindings)
    IN /\ told \subseteq {<<p, Majority(p)>> : p \in Labelled}
       /\ \A p \in Labelled : \/ <<p, Majority(p)>> \in told
                              \/ Cardinality(Rivals(ctx.runs, p)) >= MaxFindings

\* Each verdict on a labelled pattern is told or behind max_findings others.
LEMMA VerdictsTold ==
    ASSUME TypeInv, NEW ids \in SUBSET saved, ids # {}
    PROVE  ToldOf(Loaded(ids))
  <1> DEFINE ctx == Loaded(ids)
  <1>1. /\ DOMAIN ctx.verdicts = Labelled
        /\ \A p \in Labelled : NetLabel(ctx.verdicts[p]) = Majority(p)
    BY LoadedVerdicts
  <1>2. /\ DOMAIN ctx.findings \subseteq Patterns /\ ctx.dismissed \subseteq DOMAIN ctx.findings
        /\ Sortable(ctx, DOMAIN ctx.findings) /\ ctx.runs = ids
    BY FindingsCounted DEF Sortable
  <1>3. Labelled \subseteq Patterns /\ IsFiniteSet(Patterns) /\ MaxFindings \in Nat
    BY MemoryAssumption DEF Labelled
  <1>4. \A p \in Labelled : \A q \in Patterns \ {p} :
           Neighbours(ctx, p, q) => q \in Rivals(ids, p)
    BY NeighboursAreRivals
  <1> HIDE DEF ctx
  <1>5. ShownVerdicts(ctx, MaxFindings) \subseteq {<<p, Majority(p)>> : p \in Labelled}
    <2>1. ShownVerdicts(ctx, MaxFindings)
            \subseteq {<<p, NetLabel(ctx.verdicts[p])>> : p \in DOMAIN ctx.verdicts}
      BY <1>1, <1>2, <1>3, ShownOrBehind
    <2> QED BY <1>1, <2>1
  <1>6. ASSUME NEW p \in Labelled, <<p, Majority(p)>> \notin ShownVerdicts(ctx, MaxFindings)
        PROVE  Cardinality(Rivals(ids, p)) >= MaxFindings
    <2>1. PICK F \in SUBSET (Patterns \ {p}) :
             Cardinality(F) = MaxFindings /\ \A q \in F : Neighbours(ctx, p, q)
      BY <1>1, <1>2, <1>3, <1>6, ShownOrBehind
    <2>2. F \subseteq Rivals(ids, p)
      BY <1>4, <2>1
    <2>3. Rivals(ids, p) \subseteq Patterns
      BY <1>3 DEF Rivals
    <2>4. IsFiniteSet(Rivals(ids, p))
      BY <1>3, <2>3, FS_Subset
    <2>5. Cardinality(F) <= Cardinality(Rivals(ids, p)) /\ Cardinality(Rivals(ids, p)) \in Nat
      BY <2>2, <2>4, FS_Subset, FS_CardinalityType
    <2> QED BY <1>3, <2>1, <2>5
  <1> QED BY <1>2, <1>5, <1>6 DEF ToldOf, ctx

\* Where there are no reports there is no verdict to tell.
LEMMA NothingToTell ==
    ASSUME Reports = {}
    PROVE  ToldOf(HistoricalContext({}, {}))
  <1> DEFINE ctx == HistoricalContext({}, {})
  <1>1. saved = {} /\ Labelled = {}
    BY DEF Reports, Labelled, LabelledRuns
  <1>2. DOMAIN ctx.verdicts = {}
    BY DEF HistoricalContext, Given
  <1>3. Orphans(ctx) = {}
    BY <1>2 DEF Orphans
  <1>4. ShownOrphans(ctx, MaxFindings) = {}
    <2> HIDE DEF ctx
    <2>1. Cardinality(Orphans(ctx)) = 0 /\ 0 <= MaxFindings
      BY <1>3, FS_EmptySet, MemoryAssumption
    <2>2. Cardinality(Orphans(ctx)) <= MaxFindings
      BY <2>1
    <2> QED BY <1>3, <2>2, Zenon DEF ShownOrphans
  <1> HIDE DEF ctx
  <1>5. ShownVerdicts(ctx, MaxFindings) = {}
    BY <1>2, <1>4 DEF ShownVerdicts
  <1> QED BY <1>1, <1>5 DEF ToldOf, ctx

\* A verdict never goes silent: an audit that loads its history is told the majority verdict
\* on every pattern a saved report carries a label on, also when that report is older than
\* the window or saved since the runs were read, unless max_findings other patterns of its
\* block may come before it; and is told no other.
THEOREM VerdictsReachPlannerAlways == Spec => VerdictsReachPlanner
  <1> DEFINE Told == \A s \in Sessions :
                        history'[s] \notin {history[s], None} => ToldOf(history'[s])
  <1>1. MemoryInv /\ [Next]_vars => [Told]_vars
    <2> SUFFICES ASSUME MemoryInv, [Next]_vars, NEW s \in Sessions,
                        history'[s] \notin {history[s], None}
                 PROVE  ToldOf(history'[s])
      OBVIOUS
    <2>0. /\ TypeInv /\ history = [t \in Sessions |-> history[t]]
          /\ runs[s] \subseteq saved /\ (step[s] = "loading" => runs[s] # {})
      BY DEF MemoryInv, RunsAreStored
    <2>1. PICK t \in Sessions : LoadHistory(t) \/ NoRuns(t) \/ Fails(t)
      BY DEF Next, vars, SetLabel, Session, ReadRuns, LoadFails, AuditEnds, FindPrevious, Save,
             Emit
    <2>2. LoadHistory(s) \/ NoRuns(s)
      BY <2>0, <2>1 DEF LoadHistory, NoRuns, Fails
    <2>3. CASE LoadHistory(s)
      <3>1. history'[s] = Loaded(runs[s]) /\ step[s] = "loading"
        BY <2>0, <2>3 DEF LoadHistory, Loaded, Go
      <3> QED BY <2>0, <3>1, VerdictsTold
    <2>4. CASE NoRuns(s)
      <3>1. history'[s] = HistoricalContext({}, {}) /\ Reports = {}
        BY <2>0, <2>4 DEF NoRuns
      <3> QED BY <3>1, NothingToTell
    <2> QED BY <2>2, <2>3, <2>4
  <1>2. VerdictsReachPlanner <=> [][Told]_vars
    BY DEF VerdictsReachPlanner, ToldOf
  <1> QED BY MemoryInvInit, MemoryInvStep, <1>1, <1>2, PTL DEF Spec
=============================================================================
