--------------------------- MODULE ReportStoreProofs ---------------------------
(***************************************************************************)
(* The two copies of a label: what row locks guarantee about them for any   *)
(* number of clients, reports and findings.                                 *)
(***************************************************************************)
EXTENDS ReportStore, TLAPS

-----------------------------------------------------------------------------
(* Type correctness. *)

\* The three parts of the type of a call.
IdleCalls == [op : {"idle"}]
LabelCalls == [op : {"label"}, finding : Findings, label : Verdict,
               step : {"row", "gone", "read", "write", "commit"},
               doc : [Findings -> Verdict]]
SaveCalls == [op : {"save"}, report : Reports, step : {"upsert", "children", "commit"}]

\* A label call is typed as one, a save call as one.
LEMMA CallKinds ==
    ASSUME TypeOK, NEW c \in Clients
    PROVE  /\ call \in [Clients -> IdleCalls \cup LabelCalls \cup SaveCalls]
           /\ Labelling(c) => call[c] \in LabelCalls
           /\ Saving(c) => call[c] \in SaveCalls
BY DEF TypeOK, IdleCalls, LabelCalls, SaveCalls, Labelling, Saving

\* A change of one client's call to a well-typed one keeps all calls well-typed.
LEMMA CallChange ==
    ASSUME TypeOK, NEW c \in Clients, NEW k \in IdleCalls \cup LabelCalls \cup SaveCalls,
           call' = [call EXCEPT ![c] = k]
    PROVE  /\ call' \in [Clients -> IdleCalls \cup LabelCalls \cup SaveCalls]
           /\ call'[c] = k
           /\ \A d \in Clients : d # c => call'[d] = call[d]
BY CallKinds

\* The end of a transaction frees its locks and no others.
LEMMA ReleaseFrees ==
    ASSUME TypeOK, NEW c \in Clients, Release(c)
    PROVE  /\ findingLock' \in [Findings -> Clients \cup {None}]
           /\ reportLock' \in [Reports -> Clients \cup {None}]
           /\ \A f \in Findings : findingLock'[f] = IF findingLock[f] = c THEN None
                                                    ELSE findingLock[f]
           /\ \A r \in Reports : reportLock'[r] = IF reportLock[r] = c THEN None
                                                  ELSE reportLock[r]
BY DEF Release, Unlocked, TypeOK

\* A label that goes on to its next statement stays a label.
LEMMA LabelAdvances ==
    ASSUME TypeOK, NEW c \in Clients, Labelling(c),
           NEW s \in {"row", "gone", "read", "write", "commit"},
           call' = [call EXCEPT ![c].step = s]
    PROVE  /\ call' = [call EXCEPT ![c] = [call[c] EXCEPT !.step = s]]
           /\ [call[c] EXCEPT !.step = s] \in LabelCalls
BY CallKinds DEF LabelCalls

\* A save that goes on to its next statement stays a save.
LEMMA SaveAdvances ==
    ASSUME TypeOK, NEW c \in Clients, Saving(c), NEW s \in {"upsert", "children", "commit"},
           call' = [call EXCEPT ![c].step = s]
    PROVE  /\ call' = [call EXCEPT ![c] = [call[c] EXCEPT !.step = s]]
           /\ [call[c] EXCEPT !.step = s] \in SaveCalls
BY CallKinds DEF SaveCalls

\* A read yields a document of labels.
LEMMA ReadAdvances ==
    ASSUME TypeOK, NEW c \in Clients, LabelReads(c)
    PROVE  \E doc \in [Findings -> Verdict] :
              /\ call' = [call EXCEPT ![c] = [call[c] EXCEPT !.step = "write", !.doc = doc]]
              /\ [call[c] EXCEPT !.step = "write", !.doc = doc] \in LabelCalls
              /\ doc[call[c].finding] = call[c].label
              /\ \A g \in Findings \ {call[c].finding} :
                    ReportOf[g] = ReportOf[call[c].finding] => doc[g] = mirror[g]
<1> DEFINE f == call[c].finding
           raw == [g \in Findings |-> IF ReportOf[g] = ReportOf[f] THEN mirror[g] ELSE None]
           doc == [raw EXCEPT ![f] = call[c].label]
<1>1. call[c] \in LabelCalls
  BY CallKinds DEF LabelReads
<1>2. f \in Findings /\ call[c].label \in Verdict
  BY <1>1 DEF LabelCalls
<1>3. raw \in [Findings -> Verdict]
  BY DEF TypeOK, Verdict
<1>4. doc \in [Findings -> Verdict]
  BY <1>2, <1>3
<1>5. call' = [call EXCEPT ![c].step = "write", ![c].doc = doc]
  BY DEF LabelReads
<1>6. doc[f] = call[c].label
  BY <1>2, <1>3
<1>7. \A g \in Findings \ {f} : ReportOf[g] = ReportOf[f] => doc[g] = mirror[g]
  BY <1>2, <1>3
<1> HIDE DEF doc
<1>8. call' = [call EXCEPT ![c] = [call[c] EXCEPT !.step = "write", !.doc = doc]]
  BY <1>5, CallKinds
<1>9. [call[c] EXCEPT !.step = "write", !.doc = doc] \in LabelCalls
  BY <1>1, <1>4 DEF LabelCalls
<1> QED
  BY <1>4, <1>6, <1>7, <1>8, <1>9

\* The facts about constants the steps use.
LEMMA Constants ==
    /\ \A f \in Findings : ReportOf[f] \in Reports /\ f \notin Reports
    /\ None \notin Clients /\ None \in Verdict
BY StoreAssumption DEF Verdict

\* How the end of a call without effect changes the types: not at all.
LEMMA EndsTyped ==
    ASSUME TypeOK, NEW c \in Clients, call' = [call EXCEPT ![c] = Idle]
    PROVE  /\ call' \in [Clients -> IdleCalls \cup LabelCalls \cup SaveCalls]
           /\ call'[c] = Idle
           /\ \A d \in Clients : d # c => call'[d] = call[d]
<1>1. Idle \in IdleCalls
  BY DEF Idle, IdleCalls
<1> QED
  BY <1>1, CallChange

\* The commit of a save ends its call, tells some of the labels that wait for its rows that
\* they are gone, and leaves every other call as it is.
LEMMA SaveCommitsCalls ==
    ASSUME TypeOK, NEW c \in Clients, SaveCommits(c)
    PROVE  /\ call' \in [Clients -> IdleCalls \cup LabelCalls \cup SaveCalls]
           /\ call'[c] = Idle
           /\ \A d \in Clients \ {c} :
                 \/ call'[d] = call[d]
                 \/ /\ Labelling(d) /\ call[d].step = "row"
                    /\ call'[d] = [call[d] EXCEPT !.step = "gone"]
                    /\ call'[d] \in LabelCalls
<1>1. PICK gone \in SUBSET {d \in Clients : Labelling(d) /\ call[d].step = "row"} :
         call' = [d \in Clients |-> IF d = c THEN Idle
                                   ELSE IF d \in gone THEN [call[d] EXCEPT !.step = "gone"]
                                   ELSE call[d]]
  BY DEF SaveCommits
<1>2. \A d \in gone : Labelling(d) /\ call[d].step = "row" /\ call[d] \in LabelCalls
  BY CallKinds
<1>3. \A d \in gone : [call[d] EXCEPT !.step = "gone"] \in LabelCalls
  BY <1>2 DEF LabelCalls
<1>4. Idle \in IdleCalls
  BY DEF Idle, IdleCalls
<1> QED
  BY <1>1, <1>2, <1>3, <1>4, CallKinds

\* Every step keeps every variable in its type.
LEMMA NextTypeOK == TypeOK /\ [Next]_vars => TypeOK'
<1> SUFFICES ASSUME TypeOK, [Next]_vars PROVE TypeOK'
  OBVIOUS
<1> DEFINE CallsTyped == call' \in [Clients -> IdleCalls \cup LabelCalls \cup SaveCalls]
<1>0. ASSUME /\ saved' \in SUBSET Reports /\ overlapped' \in SUBSET Reports
             /\ column' \in [Findings -> Verdict] /\ mirror' \in [Findings -> Verdict]
             /\ findingLock' \in [Findings -> Clients \cup {None}]
             /\ reportLock' \in [Reports -> Clients \cup {None}]
             /\ CallsTyped /\ past' \in [Findings -> SUBSET Verdict]
      PROVE  TypeOK'
  BY <1>0 DEF TypeOK, IdleCalls, LabelCalls, SaveCalls
<1>1. ASSUME NEW c \in Clients, NEW f \in Findings, NEW l \in Verdict, StartLabel(c, f, l)
      PROVE  TypeOK'
  <2>1. LabelCall(f, l, "row", NoDoc) \in LabelCalls
    BY Constants DEF LabelCall, LabelCalls, NoDoc
  <2>2. CallsTyped
    BY <1>1, <2>1, CallChange DEF StartLabel
  <2> QED
    BY <1>0, <1>1, <2>2 DEF StartLabel, TypeOK
<1>2. ASSUME NEW c \in Clients, NEW r \in Reports, StartSave(c, r)
      PROVE  TypeOK'
  <2>1. SaveCall(r, "upsert") \in SaveCalls
    BY DEF SaveCall, SaveCalls
  <2>2. CallsTyped
    BY <1>2, <2>1, CallChange DEF StartSave
  <2> QED
    BY <1>0, <1>2, <2>2 DEF StartSave, TypeOK
<1>3. ASSUME NEW c \in Clients, LabelRow(c)
      PROVE  TypeOK'
  <2>1. CallsTyped
    BY <1>3, LabelAdvances, CallChange DEF LabelRow
  <2>2. call[c].finding \in Findings
    BY <1>3, CallKinds DEF LabelRow, LabelCalls
  <2>3. findingLock' \in [Findings -> Clients \cup {None}] /\ overlapped' \in SUBSET Reports
    BY <1>3, <2>2, Constants DEF LabelRow, TypeOK
  <2> QED
    BY <1>0, <1>3, <2>1, <2>3 DEF LabelRow, TypeOK
<1>4. ASSUME NEW c \in Clients, LabelMisses(c)
      PROVE  TypeOK'
  <2>1. CallsTyped
    BY <1>4, EndsTyped DEF LabelMisses
  <2> QED
    BY <1>0, <1>4, <2>1 DEF LabelMisses, TypeOK
<1>5. ASSUME NEW c \in Clients, LabelReads(c)
      PROVE  TypeOK'
  <2>1. CallsTyped
    BY <1>5, ReadAdvances, CallChange
  <2> QED
    BY <1>0, <1>5, <2>1 DEF LabelReads, TypeOK
<1>6. ASSUME NEW c \in Clients, LabelWritesRaw(c)
      PROVE  TypeOK'
  <2>1. CallsTyped
    BY <1>6, LabelAdvances, CallChange DEF LabelWritesRaw
  <2>2. reportLock' \in [Reports -> Clients \cup {None}]
    BY <1>6 DEF LabelWritesRaw, TypeOK
  <2> QED
    BY <1>0, <1>6, <2>1, <2>2 DEF LabelWritesRaw, TypeOK
<1>7. ASSUME NEW c \in Clients, LabelCommits(c)
      PROVE  TypeOK'
  <2>1. CallsTyped
    BY <1>7, EndsTyped DEF LabelCommits
  <2>2. call[c] \in LabelCalls
    BY <1>7, CallKinds DEF LabelCommits
  <2>3. call[c].label \in Verdict /\ call[c].doc \in [Findings -> Verdict]
    BY <2>2 DEF LabelCalls
  <2>4. /\ column' = [column EXCEPT ![call[c].finding] = call[c].label]
        /\ mirror' = Mirrored(call[c])
        /\ past' = [past EXCEPT ![call[c].finding] = @ \cup {call[c].label}]
    BY <1>7 DEF LabelCommits
  <2>5. /\ column' \in [Findings -> Verdict] /\ mirror' \in [Findings -> Verdict]
        /\ past' \in [Findings -> SUBSET Verdict]
    BY <2>3, <2>4 DEF Mirrored, TypeOK
  <2> QED
    BY <1>0, <1>7, <2>1, <2>5, ReleaseFrees DEF LabelCommits, TypeOK
<1>8. ASSUME NEW c \in Clients, SaveUpserts(c)
      PROVE  TypeOK'
  <2>1. CallsTyped
    BY <1>8, SaveAdvances, CallChange DEF SaveUpserts
  <2>2. reportLock' \in [Reports -> Clients \cup {None}]
    BY <1>8 DEF SaveUpserts, TypeOK
  <2> QED
    BY <1>0, <1>8, <2>1, <2>2 DEF SaveUpserts, TypeOK
<1>9. ASSUME NEW c \in Clients, SaveDeletes(c)
      PROVE  TypeOK'
  <2>1. findingLock' \in [Findings -> Clients \cup {None}]
    BY <1>9 DEF SaveDeletes, TypeOK
  <2>2. CallsTyped
    BY <1>9, CallKinds DEF SaveDeletes
  <2> QED
    BY <1>0, <1>9, <2>1, <2>2 DEF SaveDeletes, TypeOK
<1>10. ASSUME NEW c \in Clients, SaveInserts(c)
       PROVE  TypeOK'
  <2>1. CallsTyped
    BY <1>10, SaveAdvances, CallChange DEF SaveInserts
  <2> QED
    BY <1>0, <1>10, <2>1 DEF SaveInserts, TypeOK
<1>11. ASSUME NEW c \in Clients, SaveCommits(c)
       PROVE  TypeOK'
  <2>1. CallsTyped
    BY <1>11, SaveCommitsCalls
  <2>2. call[c].report \in Reports
    BY <1>11, CallKinds DEF SaveCommits, SaveCalls
  <2>3. /\ column' \in [Findings -> Verdict] /\ mirror' \in [Findings -> Verdict]
        /\ past' \in [Findings -> SUBSET Verdict]
        /\ saved' \in SUBSET Reports /\ overlapped' \in SUBSET Reports
    BY <1>11, <2>2, Constants DEF SaveCommits, Resaved, TypeOK
  <2> QED
    BY <1>0, <1>11, <2>1, <2>3, ReleaseFrees DEF SaveCommits, TypeOK
<1>12. ASSUME NEW c \in Clients, Aborts(c)
       PROVE  TypeOK'
  <2>1. CallsTyped
    BY <1>12, EndsTyped DEF Aborts
  <2> QED
    BY <1>0, <1>12, <2>1, ReleaseFrees DEF Aborts, TypeOK
<1>13. CASE UNCHANGED vars
  BY <1>13 DEF vars, TypeOK
<1> QED
  BY <1>1, <1>2, <1>3, <1>4, <1>5, <1>6, <1>7, <1>8, <1>9, <1>10, <1>11, <1>12, <1>13
     DEF Next, Progress, DeadlockDetected

\* Every variable of the store and its clients keeps its type.
THEOREM TypeCorrect == Spec => []TypeOK
<1>1. Init => TypeOK
  <2> SUFFICES ASSUME Init PROVE TypeOK
    OBVIOUS
  <2>1. Idle \in IdleCalls
    BY DEF Idle, IdleCalls
  <2> QED
    BY <2>1, Constants DEF Init, TypeOK, IdleCalls
<1> QED
  BY <1>1, NextTypeOK, PTL DEF Spec

-----------------------------------------------------------------------------
(* Locks. *)

\* A row is locked exactly by the open transaction that wrote it, and given up with it
\* on every path out of a call.
LocksAreHeld ==
    /\ \A f \in Findings, c \in Clients :
          findingLock[f] = c <=>
             \/ /\ Labelling(c) /\ call[c].finding = f
                /\ call[c].step \in {"read", "write", "commit"}
             \/ /\ Saving(c) /\ call[c].report = ReportOf[f]
                /\ \/ call[c].step = "commit"
                   \/ call[c].step = "children" /\ findingLock[f] = c
    /\ \A r \in Reports, c \in Clients :
          reportLock[r] = c <=>
             \/ Labelling(c) /\ ReportOf[call[c].finding] = r /\ call[c].step = "commit"
             \/ Saving(c) /\ call[c].report = r /\ call[c].step \in {"children", "commit"}

\* The calls that hold a finding's row, and a report's.
LabelHolds(c, f) == /\ Labelling(c) /\ call[c].finding = f
                    /\ call[c].step \in {"read", "write", "commit"}
SaveHolds(c, f) == /\ Saving(c) /\ call[c].report = ReportOf[f]
                   /\ \/ call[c].step = "commit"
                      \/ call[c].step = "children" /\ findingLock[f] = c
HoldsReport(c, r) ==
    \/ Labelling(c) /\ ReportOf[call[c].finding] = r /\ call[c].step = "commit"
    \/ Saving(c) /\ call[c].report = r /\ call[c].step \in {"children", "commit"}

\* LocksAreHeld, in terms of who holds what.
LEMMA LocksInParts ==
    LocksAreHeld <=>
        /\ \A f \in Findings, c \in Clients :
              findingLock[f] = c <=> LabelHolds(c, f) \/ SaveHolds(c, f)
        /\ \A r \in Reports, c \in Clients : reportLock[r] = c <=> HoldsReport(c, r)
BY DEF LocksAreHeld, LabelHolds, SaveHolds, HoldsReport

\* Another client's call when one of them steps: it stays as it is, or a label that waits
\* for a row is told that the row is gone.
Bystander(d) == \/ call'[d] = call[d]
                \/ /\ Labelling(d) /\ call[d].step = "row"
                   /\ call'[d] = [call[d] EXCEPT !.step = "gone"]

\* A bystander holds what it held.
LEMMA BystanderHolds ==
    ASSUME TypeOK, NEW d \in Clients, Bystander(d)
    PROVE  /\ \A f : LabelHolds(d, f)' = LabelHolds(d, f)
           /\ \A f : (findingLock'[f] = d <=> findingLock[f] = d)
                       => SaveHolds(d, f)' = SaveHolds(d, f)
           /\ \A r : HoldsReport(d, r)' = HoldsReport(d, r)
<1>1. CASE call'[d] = call[d]
  BY <1>1 DEF LabelHolds, SaveHolds, HoldsReport, Labelling, Saving
<1>2. CASE Labelling(d) /\ call[d].step = "row" /\ call'[d] = [call[d] EXCEPT !.step = "gone"]
  <2>1. call[d] \in LabelCalls
    BY <1>2, CallKinds
  <2>2. call'[d].op = "label" /\ call'[d].step = "gone"
    BY <1>2, <2>1 DEF LabelCalls, Labelling
  <2> QED
    BY <1>2, <2>2 DEF LabelHolds, SaveHolds, HoldsReport, Labelling, Saving
<1> QED
  BY <1>1, <1>2 DEF Bystander

\* A step of c keeps LocksAreHeld when it touches no lock but c's own, and those agree
\* with c's call.
LEMMA OwnLocks ==
    ASSUME TypeOK, LocksAreHeld, NEW c \in Clients,
           \A d \in Clients \ {c} : Bystander(d),
           \A f \in Findings, d \in Clients \ {c} : findingLock'[f] = d <=> findingLock[f] = d,
           \A r \in Reports, d \in Clients \ {c} : reportLock'[r] = d <=> reportLock[r] = d,
           \A f \in Findings : findingLock'[f] = c <=> LabelHolds(c, f)' \/ SaveHolds(c, f)',
           \A r \in Reports : reportLock'[r] = c <=> HoldsReport(c, r)'
    PROVE  LocksAreHeld'
<1>1. ASSUME NEW f \in Findings, NEW d \in Clients
      PROVE  findingLock'[f] = d <=> LabelHolds(d, f)' \/ SaveHolds(d, f)'
  BY BystanderHolds, LocksInParts
<1>2. ASSUME NEW r \in Reports, NEW d \in Clients
      PROVE  reportLock'[r] = d <=> HoldsReport(d, r)'
  BY BystanderHolds, LocksInParts
<1> QED
  BY <1>1, <1>2 DEF LocksAreHeld, LabelHolds, SaveHolds, HoldsReport

\* The end of c's transaction.
LEMMA ReleasedLocks ==
    ASSUME TypeOK, LocksAreHeld, NEW c \in Clients, Release(c), call'[c] = Idle,
           \A d \in Clients \ {c} : Bystander(d)
    PROVE  LocksAreHeld'
<1>1. /\ \A f : ~LabelHolds(c, f)' /\ ~SaveHolds(c, f)'
      /\ \A r : ~HoldsReport(c, r)'
  BY DEF Idle, LabelHolds, SaveHolds, HoldsReport, Labelling, Saving
<1> QED
  BY <1>1, ReleaseFrees, OwnLocks, Constants

\* A row is locked exactly by the open transaction that wrote it, after every step.
LEMMA LocksStep == TypeOK /\ LocksAreHeld /\ [Next]_vars => LocksAreHeld'
<1> SUFFICES ASSUME TypeOK, LocksAreHeld, [Next]_vars PROVE LocksAreHeld'
  OBVIOUS
<1> USE DEF Bystander
<1>0. /\ \A f \in Findings, c \in Clients :
            findingLock[f] = c <=> LabelHolds(c, f) \/ SaveHolds(c, f)
      /\ \A r \in Reports, c \in Clients : reportLock[r] = c <=> HoldsReport(c, r)
  BY LocksInParts
<1>1. ASSUME NEW c \in Clients, NEW f \in Findings, NEW l \in Verdict, StartLabel(c, f, l)
      PROVE  LocksAreHeld'
  <2>1. LabelCall(f, l, "row", NoDoc) \in LabelCalls
    BY Constants DEF LabelCall, LabelCalls, NoDoc
  <2>2. call'[c].op = "label" /\ call'[c].step = "row" /\ \A d \in Clients \ {c} : Bystander(d)
    BY <1>1, <2>1, CallChange DEF StartLabel, LabelCall
  <2>3. /\ \A g : ~LabelHolds(c, g)' /\ ~SaveHolds(c, g)' /\ ~LabelHolds(c, g) /\ ~SaveHolds(c, g)
        /\ \A r : ~HoldsReport(c, r)' /\ ~HoldsReport(c, r)
    BY <1>1, <2>2 DEF StartLabel, Idle, LabelHolds, SaveHolds, HoldsReport, Labelling, Saving
  <2> QED
    BY <1>1, <2>2, <2>3, OwnLocks, LocksInParts DEF StartLabel
<1>2. ASSUME NEW c \in Clients, NEW r \in Reports, StartSave(c, r)
      PROVE  LocksAreHeld'
  <2>1. SaveCall(r, "upsert") \in SaveCalls
    BY DEF SaveCall, SaveCalls
  <2>2. call'[c].op = "save" /\ call'[c].step = "upsert" /\ \A d \in Clients \ {c} : Bystander(d)
    BY <1>2, <2>1, CallChange DEF StartSave, SaveCall
  <2>3. /\ \A g : ~LabelHolds(c, g)' /\ ~SaveHolds(c, g)' /\ ~LabelHolds(c, g) /\ ~SaveHolds(c, g)
        /\ \A q : ~HoldsReport(c, q)' /\ ~HoldsReport(c, q)
    BY <1>2, <2>2 DEF StartSave, Idle, LabelHolds, SaveHolds, HoldsReport, Labelling, Saving
  <2> QED
    BY <1>2, <2>2, <2>3, OwnLocks, LocksInParts DEF StartSave
<1>3. ASSUME NEW c \in Clients, LabelRow(c)
      PROVE  LocksAreHeld'
  <2>1. call[c] \in LabelCalls
    BY <1>3, CallKinds DEF LabelRow
  <2>2. /\ call'[c] = [call[c] EXCEPT !.step = "read"]
        /\ \A d \in Clients \ {c} : Bystander(d)
    BY <1>3, LabelAdvances, CallChange DEF LabelRow
  <2>3. call'[c].op = "label" /\ call'[c].step = "read" /\ call'[c].finding = call[c].finding
    BY <2>1, <2>2 DEF LabelCalls
  <2>4. /\ call[c].finding \in Findings /\ findingLock[call[c].finding] = None
        /\ findingLock' = [findingLock EXCEPT ![call[c].finding] = c] /\ reportLock' = reportLock
        /\ call[c].op = "label" /\ call[c].step = "row"
    BY <1>3, <2>1 DEF LabelRow, LabelCalls
  <2>5. \A g \in Findings : findingLock'[g] = IF g = call[c].finding THEN c ELSE findingLock[g]
    BY <2>4 DEF TypeOK
  <2>6. /\ \A g : ~LabelHolds(c, g) /\ ~SaveHolds(c, g) /\ ~SaveHolds(c, g)'
        /\ \A g : LabelHolds(c, g)' <=> g = call[c].finding
        /\ \A r : ~HoldsReport(c, r) /\ ~HoldsReport(c, r)'
    BY <2>3, <2>4 DEF LabelHolds, SaveHolds, HoldsReport, Labelling, Saving
  <2> QED
    BY <2>2, <2>4, <2>5, <2>6, OwnLocks, LocksInParts, Constants
<1>4. ASSUME NEW c \in Clients, LabelMisses(c)
      PROVE  LocksAreHeld'
  <2>1. call'[c] = Idle /\ \A d \in Clients \ {c} : Bystander(d)
    BY <1>4, EndsTyped DEF LabelMisses
  <2>2. /\ \A g : ~LabelHolds(c, g)' /\ ~SaveHolds(c, g)' /\ ~LabelHolds(c, g) /\ ~SaveHolds(c, g)
        /\ \A r : ~HoldsReport(c, r)' /\ ~HoldsReport(c, r)
    BY <1>4, <2>1 DEF LabelMisses, Idle, LabelHolds, SaveHolds, HoldsReport, Labelling, Saving
  <2> QED
    BY <1>4, <2>1, <2>2, OwnLocks, LocksInParts DEF LabelMisses
<1>5. ASSUME NEW c \in Clients, LabelReads(c)
      PROVE  LocksAreHeld'
  <2>1. call[c] \in LabelCalls
    BY <1>5, CallKinds DEF LabelReads
  <2>2. PICK doc \in [Findings -> Verdict] :
           /\ call'[c] = [call[c] EXCEPT !.step = "write", !.doc = doc]
           /\ \A d \in Clients \ {c} : Bystander(d)
    BY <1>5, ReadAdvances, CallChange
  <2>3. /\ call'[c].op = "label" /\ call'[c].step = "write" /\ call'[c].finding = call[c].finding
    BY <2>1, <2>2 DEF LabelCalls
  <2>5. /\ call[c].op = "label" /\ call[c].step = "read"
        /\ findingLock' = findingLock /\ reportLock' = reportLock
    BY <1>5 DEF LabelReads, Labelling
  <2>4. /\ \A g : /\ ~SaveHolds(c, g) /\ ~SaveHolds(c, g)'
                  /\ LabelHolds(c, g)' <=> LabelHolds(c, g)
        /\ \A r : ~HoldsReport(c, r) /\ ~HoldsReport(c, r)'
    BY <2>3, <2>5 DEF LabelHolds, SaveHolds, HoldsReport, Labelling, Saving
  <2>6. ASSUME NEW f \in Findings
        PROVE  findingLock'[f] = c <=> LabelHolds(c, f)' \/ SaveHolds(c, f)'
    BY <1>0, <2>4, <2>5
  <2>7. ASSUME NEW r \in Reports
        PROVE  reportLock'[r] = c <=> HoldsReport(c, r)'
    BY <1>0, <2>4, <2>5
  <2> QED
    BY <2>2, <2>5, <2>6, <2>7, OwnLocks
<1>6. ASSUME NEW c \in Clients, LabelWritesRaw(c)
      PROVE  LocksAreHeld'
  <2>1. call[c] \in LabelCalls
    BY <1>6, CallKinds DEF LabelWritesRaw
  <2>2. /\ call'[c] = [call[c] EXCEPT !.step = "commit"]
        /\ \A d \in Clients \ {c} : Bystander(d)
    BY <1>6, LabelAdvances, CallChange DEF LabelWritesRaw
  <2>3. /\ call'[c].op = "label" /\ call'[c].step = "commit" /\ call'[c].finding = call[c].finding
        /\ call[c].op = "label" /\ call[c].step = "write"
    BY <1>6, <2>1, <2>2 DEF LabelWritesRaw, LabelCalls
  <2> DEFINE r == ReportOf[call[c].finding]
  <2>4. /\ reportLock[r] = None /\ r \in Reports
        /\ \A q \in Reports : reportLock'[q] = IF q = r THEN c ELSE reportLock[q]
    BY <1>6, <2>1, Constants DEF LabelWritesRaw, LabelCalls, TypeOK
  <2>5. /\ \A g : /\ ~SaveHolds(c, g) /\ ~SaveHolds(c, g)'
                  /\ LabelHolds(c, g)' <=> LabelHolds(c, g)
        /\ \A q : ~HoldsReport(c, q) /\ (HoldsReport(c, q)' <=> q = r)
    BY <2>3 DEF LabelHolds, SaveHolds, HoldsReport, Labelling, Saving
  <2>6. findingLock' = findingLock
    BY <1>6 DEF LabelWritesRaw
  <2> HIDE DEF r
  <2>7. ASSUME NEW f \in Findings
        PROVE  findingLock'[f] = c <=> LabelHolds(c, f)' \/ SaveHolds(c, f)'
    BY <1>0, <2>5, <2>6
  <2>9. ASSUME NEW q \in Reports
        PROVE  reportLock'[q] = c <=> HoldsReport(c, q)'
    BY <1>0, <2>4, <2>5
  <2>8. \A q \in Reports, d \in Clients \ {c} : reportLock'[q] = d <=> reportLock[q] = d
    BY <2>4, Constants
  <2> QED
    BY <2>2, <2>6, <2>7, <2>8, <2>9, OwnLocks
<1>7. ASSUME NEW c \in Clients, LabelCommits(c)
      PROVE  LocksAreHeld'
  BY <1>7, EndsTyped, ReleasedLocks DEF LabelCommits
<1>8. ASSUME NEW c \in Clients, SaveUpserts(c)
      PROVE  LocksAreHeld'
  <2>1. call[c] \in SaveCalls
    BY <1>8, CallKinds DEF SaveUpserts
  <2>2. /\ call'[c] = [call[c] EXCEPT !.step = "children"]
        /\ \A d \in Clients \ {c} : Bystander(d)
    BY <1>8, SaveAdvances, CallChange DEF SaveUpserts
  <2>3. /\ call'[c].op = "save" /\ call'[c].step = "children" /\ call'[c].report = call[c].report
        /\ call[c].op = "save" /\ call[c].step = "upsert" /\ call[c].report \in Reports
    BY <1>8, <2>1, <2>2 DEF SaveUpserts, SaveCalls
  <2>4. /\ reportLock[call[c].report] = None
        /\ \A q \in Reports : reportLock'[q] = IF q = call[c].report THEN c ELSE reportLock[q]
    BY <1>8, <2>3 DEF SaveUpserts, TypeOK
  <2>5. /\ \A g : ~LabelHolds(c, g) /\ ~LabelHolds(c, g)' /\ ~SaveHolds(c, g)
        /\ \A q : ~HoldsReport(c, q) /\ (HoldsReport(c, q)' <=> q = call[c].report)
    BY <2>3 DEF LabelHolds, SaveHolds, HoldsReport, Labelling, Saving
  <2>6. findingLock' = findingLock
    BY <1>8 DEF SaveUpserts
  <2>7. \A g \in Findings : findingLock[g] # c /\ ~SaveHolds(c, g)'
    BY <2>3, <2>5, <2>6, LocksInParts DEF SaveHolds
  <2> QED
    BY <2>2, <2>4, <2>5, <2>6, <2>7, OwnLocks, LocksInParts, Constants
<1>9. ASSUME NEW c \in Clients, SaveDeletes(c)
      PROVE  LocksAreHeld'
  <2>1. PICK f \in Of(call[c].report) :
           findingLock[f] = None /\ findingLock' = [findingLock EXCEPT ![f] = c]
    BY <1>9 DEF SaveDeletes
  <2>2. /\ f \in Findings /\ ReportOf[f] = call[c].report
        /\ \A g \in Findings : findingLock'[g] = IF g = f THEN c ELSE findingLock[g]
    BY <2>1 DEF Of, TypeOK
  <2>3. /\ call' = call /\ reportLock' = reportLock
        /\ call[c].op = "save" /\ call[c].step = "children"
    BY <1>9 DEF SaveDeletes, Saving
  <2>4. /\ \A g : ~LabelHolds(c, g) /\ ~LabelHolds(c, g)'
        /\ \A g : SaveHolds(c, g) <=> ReportOf[g] = call[c].report /\ findingLock[g] = c
        /\ \A g : SaveHolds(c, g)' <=> ReportOf[g] = call[c].report /\ findingLock'[g] = c
        /\ \A r : HoldsReport(c, r)' <=> HoldsReport(c, r)
    BY <2>3 DEF LabelHolds, SaveHolds, HoldsReport, Labelling, Saving
  <2> QED
    BY <2>1, <2>2, <2>3, <2>4, OwnLocks, LocksInParts, Constants
<1>10. ASSUME NEW c \in Clients, SaveInserts(c)
       PROVE  LocksAreHeld'
  <2>1. call[c] \in SaveCalls
    BY <1>10, CallKinds DEF SaveInserts
  <2>2. /\ call'[c] = [call[c] EXCEPT !.step = "commit"]
        /\ \A d \in Clients \ {c} : Bystander(d)
    BY <1>10, SaveAdvances, CallChange DEF SaveInserts
  <2>3. /\ call'[c].op = "save" /\ call'[c].step = "commit" /\ call'[c].report = call[c].report
        /\ call[c].op = "save" /\ call[c].step = "children"
    BY <1>10, <2>1, <2>2 DEF SaveInserts, SaveCalls
  <2>4. /\ findingLock' = findingLock /\ reportLock' = reportLock
        /\ \A g \in Findings : ReportOf[g] = call[c].report => findingLock[g] = c
    BY <1>10 DEF SaveInserts, Of
  <2>5. /\ \A g : ~LabelHolds(c, g) /\ ~LabelHolds(c, g)'
        /\ \A g \in Findings : SaveHolds(c, g)' <=> ReportOf[g] = call[c].report
        /\ \A g \in Findings : SaveHolds(c, g) <=> ReportOf[g] = call[c].report
        /\ \A r : HoldsReport(c, r)' <=> HoldsReport(c, r)
    BY <2>3, <2>4 DEF LabelHolds, SaveHolds, HoldsReport, Labelling, Saving
  <2> QED
    BY <2>2, <2>4, <2>5, OwnLocks, LocksInParts
<1>11. ASSUME NEW c \in Clients, SaveCommits(c)
       PROVE  LocksAreHeld'
  BY <1>11, SaveCommitsCalls, ReleasedLocks DEF SaveCommits
<1>12. ASSUME NEW c \in Clients, Aborts(c)
       PROVE  LocksAreHeld'
  BY <1>12, EndsTyped, ReleasedLocks DEF Aborts
<1>13. CASE UNCHANGED vars
  BY <1>13 DEF vars, LocksAreHeld, Labelling, Saving
<1> QED
  BY <1>1, <1>2, <1>3, <1>4, <1>5, <1>6, <1>7, <1>8, <1>9, <1>10, <1>11, <1>12, <1>13
     DEF Next, Progress, DeadlockDetected

\* A row is locked exactly by the open transaction that wrote it, on every path out of
\* every call.
LEMMA LocksAreHeldAlways == Spec => []LocksAreHeld
<1>1. Init => LocksAreHeld
  BY Constants DEF Init, LocksAreHeld, Idle, Labelling, Saving
<1> QED
  BY <1>1, LocksStep, TypeCorrect, PTL DEF Spec

-----------------------------------------------------------------------------
(* The two copies of a label. *)

\* What a label that is about to write raw_report has in its hands: its own label on its
\* finding, on the others labels they have had, and the current ones if nobody else has
\* been labelling the report.
HoldsDoc(c) == Labelling(c) /\ call[c].step \in {"write", "commit"}
SoundDoc(c) ==
    /\ call[c].doc[call[c].finding] = call[c].label
    /\ \A g \in Of(ReportOf[call[c].finding]) \ {call[c].finding} :
          /\ call[c].doc[g] \in past[g]
          /\ ReportOf[call[c].finding] \notin overlapped => call[c].doc[g] = column[g]

\* The strengthening: documents are sound, two label transactions with rows of one report
\* have overlapped, and they only ever hold rows of saved reports.
DocsAreSound == \A c \in Clients : HoldsDoc(c) => SoundDoc(c)
OverlapsAreKnown ==
    \A c, d \in Clients, f, g \in Findings :
        c # d /\ LabelHolds(c, f) /\ LabelHolds(d, g) /\ ReportOf[f] = ReportOf[g]
            => ReportOf[f] \in overlapped
HeldAreSaved == \A c \in Clients, f \in Findings : LabelHolds(c, f) => ReportOf[f] \in saved
Copies == /\ DocsAreSound /\ OverlapsAreKnown /\ HeldAreSaved
          /\ MirrorAgreesUnlessRaced /\ MirrorIsPast

\* A label with a document holds its finding's row.
LEMMA DocHolds ==
    ASSUME TypeOK, NEW c \in Clients, HoldsDoc(c)
    PROVE  /\ call[c] \in LabelCalls /\ call[c].finding \in Findings
           /\ LabelHolds(c, call[c].finding)
BY CallKinds DEF HoldsDoc, LabelHolds, LabelCalls

\* A bystander keeps its document.
LEMMA BystanderDoc ==
    ASSUME TypeOK, NEW d \in Clients, Bystander(d), HoldsDoc(d)'
    PROVE  HoldsDoc(d) /\ call'[d] = call[d]
<1>1. call'[d] # [call[d] EXCEPT !.step = "gone"] \/ ~Labelling(d)
  BY CallKinds DEF HoldsDoc, LabelCalls
<1> QED
  BY <1>1 DEF Bystander, HoldsDoc, Labelling

\* Steps that touch neither copy, and give nobody a row.
LEMMA QuietStep ==
    ASSUME TypeOK, Copies, NEW c \in Clients,
           UNCHANGED <<saved, column, mirror, overlapped, past>>,
           \A d \in Clients \ {c} : Bystander(d),
           \A f \in Findings : LabelHolds(c, f)' => LabelHolds(c, f),
           HoldsDoc(c)' => SoundDoc(c)'
    PROVE  Copies'
<1>1. MirrorAgreesUnlessRaced' /\ MirrorIsPast'
  BY DEF Copies, MirrorAgreesUnlessRaced, MirrorIsPast
<1>2. \A d \in Clients, f \in Findings : LabelHolds(d, f)' => LabelHolds(d, f)
  BY BystanderHolds
<1>3. OverlapsAreKnown' /\ HeldAreSaved'
  BY <1>2 DEF Copies, OverlapsAreKnown, HeldAreSaved
<1>4. ASSUME NEW d \in Clients, d # c, HoldsDoc(d)'
      PROVE  SoundDoc(d)'
  <2>1. HoldsDoc(d) /\ call'[d] = call[d]
    BY <1>4, BystanderDoc
  <2> QED
    BY <2>1 DEF Copies, DocsAreSound, SoundDoc
<1> QED
  BY <1>1, <1>3, <1>4 DEF Copies, DocsAreSound

\* A label gets its row: if another holds one of the report, they overlap.
LEMMA RowStep ==
    ASSUME TypeOK, LocksAreHeld, Copies, NEW c \in Clients, LabelRow(c)
    PROVE  Copies'
<1> DEFINE f == call[c].finding
<1>1. call[c] \in LabelCalls /\ f \in Findings
  BY CallKinds DEF LabelRow, LabelCalls
<1>2. /\ call'[c] = [call[c] EXCEPT !.step = "read"]
      /\ \A d \in Clients \ {c} : call'[d] = call[d]
  BY LabelAdvances, CallChange DEF LabelRow
<1>3. call'[c].op = "label" /\ call'[c].step = "read" /\ call'[c].finding = f
  BY <1>1, <1>2 DEF LabelCalls
<1>4. /\ UNCHANGED <<saved, column, mirror, past>> /\ ReportOf[f] \in saved
      /\ overlapped \subseteq overlapped'
      /\ \A g \in Of(ReportOf[f]) :
            findingLock[g] # None /\ Labelling(findingLock[g]) => ReportOf[f] \in overlapped'
  BY DEF LabelRow
<1> HIDE DEF f
<1>5. MirrorAgreesUnlessRaced' /\ MirrorIsPast'
  BY <1>4 DEF Copies, MirrorAgreesUnlessRaced, MirrorIsPast
<1>6. \A d \in Clients \ {c}, g \in Findings : LabelHolds(d, g)' <=> LabelHolds(d, g)
  BY <1>2, BystanderHolds DEF Bystander
<1>7. \A g \in Findings : LabelHolds(c, g)' <=> g = f
  BY <1>3 DEF LabelHolds, Labelling
<1>8. HeldAreSaved'
  BY <1>4, <1>6, <1>7 DEF Copies, HeldAreSaved
<1>9. ASSUME NEW d \in Clients \ {c}, NEW g \in Findings, LabelHolds(d, g),
             ReportOf[g] = ReportOf[f]
      PROVE  ReportOf[f] \in overlapped'
  <2>1. findingLock[g] = d /\ Labelling(d)
    BY <1>9, LocksInParts DEF LabelHolds
  <2> QED
    BY <1>4, <1>9, <2>1, Constants DEF Of
<1>10. OverlapsAreKnown'
  BY <1>4, <1>6, <1>7, <1>9 DEF Copies, OverlapsAreKnown
<1>11. ASSUME NEW d \in Clients, HoldsDoc(d)'
       PROVE  SoundDoc(d)'
  <2>1. d # c
    BY <1>3, <1>11 DEF HoldsDoc
  <2>2. HoldsDoc(d) /\ call'[d] = call[d]
    BY <1>2, <1>11, <2>1 DEF HoldsDoc, Labelling
  <2> QED
    BY <1>4, <2>2 DEF Copies, DocsAreSound, SoundDoc
<1> QED
  BY <1>5, <1>8, <1>10, <1>11 DEF Copies, DocsAreSound

\* A label reads the document: it is sound.
LEMMA ReadStep ==
    ASSUME TypeOK, Copies, NEW c \in Clients, LabelReads(c)
    PROVE  Copies'
<1> DEFINE f == call[c].finding
<1>1. PICK doc \in [Findings -> Verdict] :
         /\ call'[c] = [call[c] EXCEPT !.step = "write", !.doc = doc]
         /\ \A d \in Clients \ {c} : call'[d] = call[d]
         /\ doc[f] = call[c].label
         /\ \A g \in Findings \ {f} : ReportOf[g] = ReportOf[f] => doc[g] = mirror[g]
  BY ReadAdvances, CallChange
<1>2. call[c] \in LabelCalls /\ f \in Findings
  BY CallKinds DEF LabelReads, LabelCalls
<1>3. /\ call'[c].op = "label" /\ call'[c].step = "write" /\ call'[c].finding = f
      /\ call'[c].doc = doc /\ call'[c].label = call[c].label
  BY <1>1, <1>2 DEF LabelCalls
<1>4. /\ UNCHANGED <<saved, column, mirror, overlapped, past>>
      /\ Labelling(c) /\ call[c].step = "read"
  BY DEF LabelReads
<1>5. LabelHolds(c, f)
  BY <1>4 DEF LabelHolds
<1> HIDE DEF f
<1>6. ReportOf[f] \in saved
  BY <1>2, <1>5 DEF Copies, HeldAreSaved
<1>7. \A g \in Of(ReportOf[f]) \ {f} :
         /\ doc[g] \in past[g]
         /\ ReportOf[f] \notin overlapped => doc[g] = column[g]
  BY <1>1, <1>6 DEF Of, Copies, MirrorIsPast, MirrorAgreesUnlessRaced
<1>8. SoundDoc(c)'
  <2>1. call'[c].doc[call'[c].finding] = call'[c].label
    BY <1>1, <1>3 DEF f
  <2>2. \A g \in Of(ReportOf[f]) \ {f} :
           /\ call'[c].doc[g] \in past'[g]
           /\ ReportOf[f] \notin overlapped' => call'[c].doc[g] = column'[g]
    BY <1>3, <1>4, <1>7
  <2> QED
    BY <1>3, <2>1, <2>2 DEF SoundDoc, Of
<1>9. \A g \in Findings : LabelHolds(c, g)' => LabelHolds(c, g)
  BY <1>3, <1>4, <1>5 DEF LabelHolds, f
<1> QED
  BY <1>1, <1>4, <1>8, <1>9, QuietStep DEF Bystander

\* A label commits: its document becomes the mirror.
LEMMA LabelCommitsStep ==
    ASSUME TypeOK, Copies, NEW c \in Clients, LabelCommits(c)
    PROVE  Copies'
<1> DEFINE f == call[c].finding
           r == ReportOf[f]
           doc == call[c].doc
           l == call[c].label
<1>1. /\ call[c] \in LabelCalls /\ f \in Findings /\ l \in Verdict
      /\ doc \in [Findings -> Verdict] /\ LabelHolds(c, f) /\ r \in Reports
  <2>1. HoldsDoc(c)
    BY DEF LabelCommits, HoldsDoc
  <2> QED
    BY <2>1, DocHolds, Constants DEF LabelCalls
<1>2. /\ doc[f] = l
      /\ \A g \in Of(r) \ {f} : doc[g] \in past[g] /\ (r \notin overlapped => doc[g] = column[g])
  BY DEF LabelCommits, HoldsDoc, Copies, DocsAreSound, SoundDoc
<1>3. /\ column' = [column EXCEPT ![f] = l]
      /\ mirror' = [g \in Findings |-> IF ReportOf[g] = r THEN doc[g] ELSE mirror[g]]
      /\ past' = [past EXCEPT ![f] = @ \cup {l}]
      /\ saved' = saved /\ overlapped' = overlapped
  BY DEF LabelCommits, Mirrored
<1>4. call'[c] = Idle /\ \A d \in Clients \ {c} : call'[d] = call[d]
  BY EndsTyped DEF LabelCommits
<1> HIDE DEF f, r, doc, l
<1>5. /\ \A g \in Findings : column'[g] = IF g = f THEN l ELSE column[g]
      /\ \A g \in Findings : mirror'[g] = IF ReportOf[g] = r THEN doc[g] ELSE mirror[g]
      /\ \A g \in Findings : past[g] \subseteq past'[g]
      /\ l \in past'[f]
  BY <1>1, <1>3 DEF TypeOK
<1>6. ASSUME NEW q \in saved' \ overlapped', NEW g \in Of(q)
      PROVE  mirror'[g] = column'[g]
  <2>1. g \in Findings /\ ReportOf[g] = q /\ q \in saved \ overlapped
    BY <1>3, <1>6 DEF Of
  <2>2. CASE q = r
    <3>1. CASE g = f
      BY <1>2, <1>5, <2>1, <2>2, <3>1
    <3>2. CASE g # f
      BY <1>2, <1>5, <2>1, <2>2, <3>2 DEF Of
    <3> QED
      BY <3>1, <3>2
  <2>3. CASE q # r
    <3>1. mirror[g] = column[g] /\ g # f
      BY <2>1, <2>3 DEF Copies, MirrorAgreesUnlessRaced, Of, r
    <3> QED
      BY <1>5, <2>1, <2>3, <3>1
  <2> QED
    BY <2>2, <2>3
<1>7. ASSUME NEW g \in Findings
      PROVE  mirror'[g] \in past'[g]
  <2>1. CASE ReportOf[g] = r
    BY <1>2, <1>5, <2>1 DEF Of
  <2>2. CASE ReportOf[g] # r
    BY <1>5, <2>2 DEF Copies, MirrorIsPast
  <2> QED
    BY <2>1, <2>2
<1>8. \A g : ~LabelHolds(c, g)'
  BY <1>4 DEF LabelHolds, Labelling, Idle
<1>9. \A d \in Clients \ {c} : \A g : LabelHolds(d, g)' <=> LabelHolds(d, g)
  BY <1>4 DEF LabelHolds, Labelling
<1>10. OverlapsAreKnown' /\ HeldAreSaved'
  BY <1>3, <1>8, <1>9 DEF Copies, OverlapsAreKnown, HeldAreSaved
<1>11. ASSUME NEW d \in Clients, HoldsDoc(d)'
       PROVE  SoundDoc(d)'
  <2>1. d # c
    BY <1>4, <1>11 DEF HoldsDoc, Labelling, Idle
  <2>2. HoldsDoc(d) /\ call'[d] = call[d]
    BY <1>4, <1>11, <2>1 DEF HoldsDoc, Labelling
  <2> DEFINE h == call[d].finding
  <2>3. SoundDoc(d) /\ h \in Findings /\ LabelHolds(d, h)
    BY <2>2, DocHolds DEF Copies, DocsAreSound
  <2>4. ReportOf[h] = r => r \in overlapped
    BY <1>1, <2>1, <2>3 DEF Copies, OverlapsAreKnown, r
  <2> HIDE DEF h
  <2>5. ASSUME NEW g \in Of(ReportOf[h]) \ {h}
        PROVE  /\ call[d].doc[g] \in past'[g]
               /\ ReportOf[h] \notin overlapped' => call[d].doc[g] = column'[g]
    <3>1. /\ g \in Findings /\ ReportOf[g] = ReportOf[h]
          /\ call[d].doc[g] \in past[g]
          /\ ReportOf[h] \notin overlapped => call[d].doc[g] = column[g]
      BY <2>3 DEF Of, SoundDoc, h
    <3>2. ReportOf[h] \notin overlapped => g # f
      BY <2>4, <3>1 DEF r
    <3> QED
      BY <1>3, <1>5, <3>1, <3>2
  <2> QED
    BY <2>2, <2>3, <2>5 DEF SoundDoc, Of, h
<1> QED
  BY <1>6, <1>7, <1>10, <1>11 DEF Copies, DocsAreSound, MirrorAgreesUnlessRaced, MirrorIsPast, Of

\* A save commits: it holds every row of its report, so no label of the report is under
\* way that could bring back a document from before.
LEMMA SaveCommitsStep ==
    ASSUME TypeOK, LocksAreHeld, Copies, NEW c \in Clients, SaveCommits(c)
    PROVE  Copies'
<1> DEFINE r == call[c].report
<1>1. Saving(c) /\ call[c].step = "commit" /\ r \in Reports
  BY CallKinds DEF SaveCommits, SaveCalls
<1>2. /\ saved' = saved \cup {r} /\ overlapped' = overlapped \ {r}
      /\ mirror' = [f \in Findings |-> IF f \in Of(r) THEN None ELSE mirror[f]]
      /\ column' = [f \in Findings |-> IF f \in Of(r) THEN None ELSE column[f]]
      /\ past' = [f \in Findings |-> IF f \in Of(r) THEN {None} ELSE past[f]]
  BY DEF SaveCommits, Resaved
<1>3. call'[c] = Idle /\ \A d \in Clients \ {c} : Bystander(d)
  BY SaveCommitsCalls DEF Bystander
<1>4. ASSUME NEW d \in Clients, NEW f \in Findings, LabelHolds(d, f)
      PROVE  ReportOf[f] # r
  <2>1. ReportOf[f] = r => findingLock[f] = c
    BY <1>1, LocksInParts DEF SaveHolds
  <2>2. findingLock[f] = d
    BY <1>4, LocksInParts
  <2>3. d # c
    BY <1>1, <1>4 DEF LabelHolds, Labelling, Saving
  <2> QED
    BY <2>1, <2>2, <2>3
<1> HIDE DEF r
<1>5. MirrorIsPast'
  BY <1>2 DEF Copies, MirrorIsPast
<1>6. ASSUME NEW q \in saved' \ overlapped', NEW f \in Of(q)
      PROVE  mirror'[f] = column'[f]
  <2>1. f \in Findings /\ ReportOf[f] = q
    BY DEF Of
  <2>2. CASE q = r
    BY <1>2, <2>1, <2>2 DEF Of
  <2>3. CASE q # r
    <3>1. mirror[f] = column[f] /\ f \notin Of(r)
      BY <1>2, <1>6, <2>3 DEF Copies, MirrorAgreesUnlessRaced, Of
    <3> QED
      BY <1>2, <2>1, <3>1
  <2> QED
    BY <2>2, <2>3
<1>7. ASSUME NEW d \in Clients, NEW f \in Findings, LabelHolds(d, f)'
      PROVE  LabelHolds(d, f) /\ d # c
  <2>1. d # c
    BY <1>3, <1>7 DEF LabelHolds, Labelling, Idle
  <2> QED
    BY <1>3, <1>7, <2>1, BystanderHolds
<1>8. OverlapsAreKnown' /\ HeldAreSaved'
  BY <1>2, <1>4, <1>7 DEF Copies, OverlapsAreKnown, HeldAreSaved
<1>9. ASSUME NEW d \in Clients, HoldsDoc(d)'
      PROVE  SoundDoc(d)'
  <2>1. d # c
    BY <1>3, <1>9 DEF HoldsDoc, Labelling, Idle
  <2>2. HoldsDoc(d) /\ call'[d] = call[d]
    BY <1>3, <1>9, <2>1, BystanderDoc
  <2> DEFINE h == call[d].finding
  <2>3. SoundDoc(d) /\ h \in Findings /\ ReportOf[h] # r
    BY <1>4, <2>2, DocHolds DEF Copies, DocsAreSound
  <2> HIDE DEF h
  <2>4. ASSUME NEW g \in Of(ReportOf[h]) \ {h}
        PROVE  /\ call[d].doc[g] \in past'[g]
               /\ ReportOf[h] \notin overlapped' => call[d].doc[g] = column'[g]
    <3>1. /\ g \in Findings /\ g \notin Of(r)
          /\ call[d].doc[g] \in past[g]
          /\ ReportOf[h] \notin overlapped => call[d].doc[g] = column[g]
      BY <2>3 DEF Of, SoundDoc, h
    <3> QED
      BY <1>2, <2>3, <3>1
  <2> QED
    BY <2>2, <2>3, <2>4 DEF SoundDoc, Of, h
<1> QED
  BY <1>5, <1>6, <1>8, <1>9 DEF Copies, DocsAreSound, MirrorAgreesUnlessRaced, Of

\* The two copies agree as far as they can, after every step.
LEMMA CopiesStep == TypeOK /\ LocksAreHeld /\ Copies /\ [Next]_vars => Copies'
<1> SUFFICES ASSUME TypeOK, LocksAreHeld, Copies, [Next]_vars PROVE Copies'
  OBVIOUS
<1>1. ASSUME NEW c \in Clients, NEW f \in Findings, NEW l \in Verdict, StartLabel(c, f, l)
      PROVE  Copies'
  <2>1. LabelCall(f, l, "row", NoDoc) \in LabelCalls
    BY Constants DEF LabelCall, LabelCalls, NoDoc
  <2>2. call'[c].op = "label" /\ call'[c].step = "row" /\ \A d \in Clients \ {c} : Bystander(d)
    BY <1>1, <2>1, CallChange DEF StartLabel, LabelCall, Bystander
  <2>3. ~HoldsDoc(c)' /\ \A g \in Findings : ~LabelHolds(c, g)'
    BY <2>2 DEF HoldsDoc, LabelHolds
  <2> QED
    BY <1>1, <2>2, <2>3, QuietStep DEF StartLabel
<1>2. ASSUME NEW c \in Clients, NEW r \in Reports, StartSave(c, r)
      PROVE  Copies'
  <2>1. SaveCall(r, "upsert") \in SaveCalls
    BY DEF SaveCall, SaveCalls
  <2>2. call'[c].op = "save" /\ \A d \in Clients \ {c} : Bystander(d)
    BY <1>2, <2>1, CallChange DEF StartSave, SaveCall, Bystander
  <2>3. ~HoldsDoc(c)' /\ \A g \in Findings : ~LabelHolds(c, g)'
    BY <2>2 DEF HoldsDoc, LabelHolds, Labelling
  <2> QED
    BY <1>2, <2>2, <2>3, QuietStep DEF StartSave
<1>3. ASSUME NEW c \in Clients, LabelMisses(c) \/ Aborts(c)
      PROVE  Copies'
  <2>1. call' = [call EXCEPT ![c] = Idle] /\ UNCHANGED <<saved, column, mirror, overlapped, past>>
    BY <1>3 DEF LabelMisses, Aborts
  <2>2. call'[c] = Idle /\ \A d \in Clients \ {c} : Bystander(d)
    BY <2>1, EndsTyped DEF Bystander
  <2>3. ~HoldsDoc(c)' /\ \A g \in Findings : ~LabelHolds(c, g)'
    BY <2>2 DEF HoldsDoc, LabelHolds, Labelling, Idle
  <2> QED
    BY <2>1, <2>2, <2>3, QuietStep
<1>4. ASSUME NEW c \in Clients, LabelWritesRaw(c)
      PROVE  Copies'
  <2>1. call[c] \in LabelCalls /\ Labelling(c) /\ call[c].step = "write"
    BY <1>4, CallKinds DEF LabelWritesRaw
  <2>2. /\ call'[c] = [call[c] EXCEPT !.step = "commit"]
        /\ \A d \in Clients \ {c} : Bystander(d)
    BY <1>4, LabelAdvances, CallChange DEF LabelWritesRaw, Bystander
  <2>3. /\ call'[c].finding = call[c].finding /\ call'[c].label = call[c].label
        /\ call'[c].doc = call[c].doc
    BY <2>1, <2>2 DEF LabelCalls
  <2>4. SoundDoc(c)
    BY <2>1 DEF HoldsDoc, Copies, DocsAreSound
  <2>5. UNCHANGED <<saved, column, mirror, overlapped, past>>
    BY <1>4 DEF LabelWritesRaw
  <2>6. SoundDoc(c)'
    BY <2>3, <2>4, <2>5 DEF SoundDoc
  <2>7. \A g \in Findings : LabelHolds(c, g)' => LabelHolds(c, g)
    BY <2>1, <2>3 DEF LabelHolds
  <2> QED
    BY <2>2, <2>5, <2>6, <2>7, QuietStep
<1>5. ASSUME NEW c \in Clients, SaveUpserts(c) \/ SaveInserts(c)
      PROVE  Copies'
  <2>1. call[c] \in SaveCalls
    BY <1>5, CallKinds DEF SaveUpserts, SaveInserts
  <2>2. PICK s \in {"children", "commit"} :
           /\ call'[c] = [call[c] EXCEPT !.step = s]
           /\ \A d \in Clients \ {c} : Bystander(d)
    BY <1>5, SaveAdvances, CallChange DEF SaveUpserts, SaveInserts, Bystander
  <2>3. ~HoldsDoc(c)' /\ \A g \in Findings : ~LabelHolds(c, g)'
    BY <2>1, <2>2 DEF SaveCalls, HoldsDoc, LabelHolds, Labelling
  <2> QED
    BY <1>5, <2>2, <2>3, QuietStep DEF SaveUpserts, SaveInserts
<1>6. CASE UNCHANGED <<saved, column, mirror, overlapped, past, call>>
  <2>1. /\ MirrorAgreesUnlessRaced' /\ MirrorIsPast'
    BY <1>6 DEF Copies, MirrorAgreesUnlessRaced, MirrorIsPast
  <2>2. OverlapsAreKnown' /\ HeldAreSaved'
    BY <1>6 DEF Copies, OverlapsAreKnown, HeldAreSaved, LabelHolds, Labelling
  <2>3. DocsAreSound'
    BY <1>6 DEF Copies, DocsAreSound, HoldsDoc, Labelling, SoundDoc
  <2> QED
    BY <2>1, <2>2, <2>3 DEF Copies
<1>7. ASSUME NEW c \in Clients, SaveDeletes(c)
      PROVE  Copies'
  BY <1>6, <1>7 DEF SaveDeletes
<1>8. CASE UNCHANGED vars
  BY <1>6, <1>8 DEF vars
<1> QED
  BY <1>1, <1>2, <1>3, <1>4, <1>5, <1>7, <1>8, RowStep, ReadStep, LabelCommitsStep,
     SaveCommitsStep DEF Next, Progress, DeadlockDetected

\* The strengthening holds of every reachable state.
LEMMA CopiesAlways == Spec => []Copies
<1>1. Init => Copies
  BY DEF Init, Copies, DocsAreSound, OverlapsAreKnown, HeldAreSaved, HoldsDoc, LabelHolds,
         MirrorAgreesUnlessRaced, MirrorIsPast, Labelling, Idle
<1> QED
  BY <1>1, CopiesStep, TypeCorrect, LocksAreHeldAlways, PTL DEF Spec

\* As long as no two label transactions on a report overlap, get(report_id) shows exactly
\* the labels of its finding rows.
THEOREM MirrorAgreesUnlessRacedAlways == Spec => []MirrorAgreesUnlessRaced
<1>1. Copies => MirrorAgreesUnlessRaced
  BY DEF Copies
<1> QED
  BY <1>1, CopiesAlways, PTL

\* Whatever races, get(report_id) never shows a label that the finding has not had since
\* its report was last saved.
THEOREM MirrorIsPastAlways == Spec => []MirrorIsPast
<1>1. Copies => MirrorIsPast
  BY DEF Copies
<1> QED
  BY <1>1, CopiesAlways, PTL
=============================================================================
