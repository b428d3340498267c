--------------------------- MODULE SchemaSampleProofs ---------------------------
(***************************************************************************)
(* What SchemaSample guarantees for any documents, depths and caps: types,  *)
(* and what each statistic of a field stands for.                           *)
(***************************************************************************)
EXTENDS SchemaSample, FiniteSetTheorems, SequenceTheorems, TLAPS

\* The entry the walk is at is one of the last document the cursor has yielded.
LEMMA EntryAtHand ==
    ASSUME TypeOK, ~AtEnd
    PROVE  /\ docs # <<>> /\ Len(docs) \in Nat \ {0}
           /\ Current = docs[Len(docs)] /\ Current \in Seq(Entries)
           /\ next \in DOMAIN Current
           /\ Current[next] \in Entries
           /\ Path(Current[next]) \in Paths
           /\ Current[next].value \in Values
  <1> USE SampleAssumption
  <1>1. docs \in Seq(Documents) /\ next \in 1..(Len(Current) + 1)
    BY DEF TypeOK
  <1>2. docs # <<>>
    <2>1. docs = <<>> => Len(Current) = 0
      BY DEF Current
    <2> QED BY <1>1, <2>1 DEF AtEnd
  <1>3. Len(docs) \in Nat \ {0}
    BY <1>1, <1>2
  <1>4. Current = docs[Len(docs)] /\ Current \in Documents
    BY <1>1, <1>2, <1>3 DEF Current, Last
  <1>5. Current \in Seq(Entries)
    BY <1>4
  <1>6. next \in DOMAIN Current
    BY <1>1, <1>5 DEF AtEnd
  <1>7. Current[next] \in Entries
    BY <1>5, <1>6
  <1> QED BY <1>2, <1>3, <1>4, <1>5, <1>6, <1>7 DEF Paths, Values

\* Counting a value touches the counts and nothing else.
LEMMA CountedTyped ==
    ASSUME NEW s \in Stats, NEW v \in Values
    PROVE  /\ Counted(s, v) \in Stats
           /\ Counted(s, v).distinct = s.distinct
           /\ Counted(s, v).capped = s.capped
           /\ Counted(s, v).samples = s.samples
           /\ Counted(s, v).present = s.present + 1
           /\ Counted(s, v).null = IF IsNull(v) THEN s.null + 1 ELSE s.null
           /\ Counted(s, v).types = [s.types EXCEPT ![v.type] = @ + 1]
  <1>1. Counted(s, v) \in Stats
    <2> DEFINE null == IF IsNull(v) THEN s.null + 1 ELSE s.null
               types == [s.types EXCEPT ![v.type] = @ + 1]
    <2>1. null \in Nat
      BY DEF Stats
    <2>2. types \in [Types -> Nat]
      BY DEF Stats, Types
    <2>3. Counted(s, v) = [s EXCEPT !.present = @ + 1, !.types = types, !.null = null]
      BY DEF Counted
    <2>4. s.present + 1 \in Nat
      BY DEF Stats
    <2> HIDE DEF null, types
    <2> QED BY <2>1, <2>2, <2>3, <2>4 DEF Stats
  <1>2. /\ Counted(s, v).distinct = s.distinct
        /\ Counted(s, v).capped = s.capped
        /\ Counted(s, v).samples = s.samples
    BY DEF Counted, Stats
  <1>3. Counted(s, v).present = s.present + 1
    BY DEF Counted, Stats
  <1>4. Counted(s, v).null = IF IsNull(v) THEN s.null + 1 ELSE s.null
    BY DEF Counted, Stats
  <1>5. Counted(s, v).types = [s.types EXCEPT ![v.type] = @ + 1]
    BY DEF Counted, Stats
  <1> QED BY <1>1, <1>2, <1>3, <1>4, <1>5

\* Recording a value counts it; a null does nothing else.
LEMMA RecordedTyped ==
    ASSUME NEW s \in Stats, NEW v \in Values
    PROVE  /\ Recorded(s, v) \in Stats
           /\ Recorded(s, v).present = s.present + 1
           /\ Recorded(s, v).null = IF IsNull(v) THEN s.null + 1 ELSE s.null
           /\ Recorded(s, v).types = [s.types EXCEPT ![v.type] = @ + 1]
           /\ Recorded(s, v).distinct = IF IsNull(v) THEN s.distinct ELSE Distinct(s, v)
           /\ Recorded(s, v).capped = IF IsNull(v) THEN s.capped ELSE Capped(s, v)
           /\ Recorded(s, v).samples = IF IsNull(v) THEN s.samples ELSE Samples(s, v)
  <1>1. Distinct(s, v) \in SUBSET Classes
    BY DEF Distinct, Stats, Classes
  <1>2. Capped(s, v) \in BOOLEAN
    BY SampleAssumption DEF Capped, Stats
  <1>3. Samples(s, v) \in Seq(Values)
    BY DEF Samples, Stats
  <1> QED BY <1>1, <1>2, <1>3, CountedTyped DEF Recorded, Stats

-----------------------------------------------------------------------------

\* The statistics and what else the variables hold.
THEOREM TypeCorrect == Spec => []TypeOK
  <1>1. Init => TypeOK
    <2> SUFFICES ASSUME Init PROVE TypeOK
      OBVIOUS
    <2>1. docs \in Seq(Documents) /\ Len(Current) = 0
      BY DEF Init, Current
    <2>2. NoStats \in Stats
      BY DEF NoStats, Stats
    <2> QED BY <2>1, <2>2 DEF Init, TypeOK
  <1>2. TypeOK /\ [Next]_vars => TypeOK'
    <2> SUFFICES ASSUME TypeOK, [Next]_vars PROVE TypeOK'
      OBVIOUS
    <2> USE SampleAssumption
    <2>1. CASE RejectSize
      BY <2>1 DEF RejectSize, TypeOK, Current
    <2>2. CASE NextDocument
      <3>1. PICK d \in Documents : docs' = Append(docs, d)
        BY <2>2 DEF NextDocument
      <3>2. docs' \in Seq(Documents) /\ docs' # <<>> /\ Len(docs') = Len(docs) + 1
        BY <3>1 DEF TypeOK
      <3>3. Current' = d /\ d \in Seq(Entries)
        BY <3>1, <3>2 DEF TypeOK, Current, Last
      <3>4. size > 0 /\ Len(docs') <= size
        BY <2>2, <3>2 DEF NextDocument, WantsMore, Sampling, TypeOK
      <3>5. next' \in 1..(Len(Current') + 1)
        BY <2>2, <3>3 DEF NextDocument
      <3> QED BY <2>2, <3>2, <3>4, <3>5 DEF NextDocument, TypeOK
    <2>3. CASE CursorFails
      BY <2>3 DEF CursorFails, TypeOK, Current
    <2>4. CASE Visit
      <3>1. ~AtEnd
        BY <2>4 DEF Visit
      <3>2. next' \in 1..(Len(Current') + 1)
        BY <2>4, <3>1, EntryAtHand DEF Visit, Current
      <3>3. stats' \in [Paths -> Stats]
        BY <2>4, <3>1, EntryAtHand, RecordedTyped DEF Visit, TypeOK
      <3>4. truncated' \subseteq Paths
        BY <2>4, <3>1, EntryAtHand DEF Visit, TypeOK, Cut
      <3> QED BY <2>4, <3>2, <3>3, <3>4 DEF Visit, TypeOK
    <2>5. CASE PassBelow
      <3>1. ~AtEnd
        BY <2>5 DEF PassBelow
      <3>2. next' \in 1..(Len(Current') + 1)
        BY <2>5, <3>1, EntryAtHand DEF PassBelow, Current
      <3> QED BY <2>5, <3>2 DEF PassBelow, TypeOK
    <2>6. CASE RefuseEmptyPath
      BY <2>6 DEF RefuseEmptyPath, TypeOK, Current
    <2>7. CASE Finalize
      BY <2>7 DEF Finalize, TypeOK, Current
    <2>8. CASE UNCHANGED vars
      BY <2>8 DEF vars, TypeOK, Current
    <2> QED BY <2>1, <2>2, <2>3, <2>4, <2>5, <2>6, <2>7, <2>8 DEF Next
  <1> QED BY <1>1, <1>2, PTL DEF Spec

-----------------------------------------------------------------------------
(* The entries met. *)

Slot == <<Len(docs), next>>

\* The slots are those of the documents yielded.
LEMMA SlotsAre ==
    ASSUME TypeOK
    PROVE  /\ \A s \in Slots : /\ s = <<s[1], s[2]>>
                              /\ s[1] \in 1..Len(docs) /\ s[2] \in DOMAIN docs[s[1]]
           /\ \A d \in 1..Len(docs) : \A i \in DOMAIN docs[d] : <<d, i>> \in Slots
  <1>1. DOMAIN docs = 1..Len(docs)
    BY DEF TypeOK
  <1> QED BY <1>1 DEF Slots

\* Every slot holds an entry.
LEMMA EntriesAre ==
    ASSUME TypeOK, NEW s \in Slots
    PROVE  /\ s[2] \in Nat
           /\ Entry(s) \in Entries /\ Path(Entry(s)) \in Paths
           /\ Entry(s).value \in Values
  <1>1. s[1] \in 1..Len(docs) /\ s[2] \in DOMAIN docs[s[1]]
    BY SlotsAre
  <1>2. docs[s[1]] \in Documents
    BY <1>1 DEF TypeOK
  <1>3. docs[s[1]] \in Seq(Entries)
    BY <1>2, SampleAssumption
  <1>4. Entry(s) \in Entries
    BY <1>1, <1>3 DEF Entry
  <1> QED BY <1>1, <1>3, <1>4 DEF Paths, Values

\* To move on from an entry is to have walked past it, and past nothing else.
LEMMA WalkGrows ==
    ASSUME TypeOK, ~AtEnd, docs' = docs, next' = next + 1
    PROVE  /\ Slot \in Slots /\ Slot \notin Walked
           /\ Entry(Slot) = Current[next]
           /\ Walked' = Walked \cup {Slot}
           /\ \A s : Entry(s)' = Entry(s)
  <1>1. Len(docs) \in Nat \ {0} /\ Current = docs[Len(docs)] /\ next \in DOMAIN Current
    BY EntryAtHand
  <1>2. Slot \in Slots
    BY <1>1, SlotsAre DEF Slot
  <1>3. next \in Nat
    BY DEF TypeOK
  <1>4. Slot \notin Walked
    BY <1>1, <1>3 DEF Walked, Slot
  <1>5. Slots' = Slots
    BY DEF Slots
  <1>6. ASSUME NEW s \in Slots
        PROVE  (s[1] < Len(docs) \/ s[2] < next + 1)
                 <=> (s[1] < Len(docs) \/ s[2] < next) \/ s = Slot
    BY <1>1, <1>3, <1>6, SlotsAre, EntriesAre DEF Slot
  <1>7. Walked' = {s \in Slots : s[1] < Len(docs) \/ s[2] < next + 1}
    BY <1>5 DEF Walked
  <1>8. Walked' = Walked \cup {Slot}
    BY <1>2, <1>6, <1>7 DEF Walked
  <1> QED BY <1>1, <1>2, <1>4, <1>8 DEF Entry, Slot

\* At the end of a document, all there is has been walked.
LEMMA WalkEnds ==
    ASSUME TypeOK, AtEnd
    PROVE  Walked = Slots
  <1>1. docs \in Seq(Documents) /\ Len(docs) \in Nat
    BY DEF TypeOK
  <1>2. ASSUME NEW s \in Slots PROVE s[1] < Len(docs) \/ s[2] < next
    <2>1. s[1] \in 1..Len(docs) /\ s[2] \in DOMAIN docs[s[1]]
      BY SlotsAre
    <2>2. CASE s[1] # Len(docs)
      BY <1>1, <2>1, <2>2
    <2>3. CASE s[1] = Len(docs)
      <3>1. docs # <<>> /\ Current = docs[Len(docs)]
        BY <1>1, <2>1, <2>3 DEF Current, Last
      <3>2. Current \in Seq(Entries)
        BY <1>1, <2>1, <2>3, <3>1, SampleAssumption
      <3> QED BY <2>1, <2>3, <3>1, <3>2 DEF AtEnd, TypeOK
    <2> QED BY <2>2, <2>3
  <1> QED BY <1>2 DEF Walked

\* A new document adds slots and none of them has been walked.
LEMMA WalkStays ==
    ASSUME TypeOK, NextDocument
    PROVE  /\ Walked' = Walked
           /\ \A s \in Walked : Entry(s)' = Entry(s)
  <1>1. PICK d \in Documents : docs' = Append(docs, d)
    BY DEF NextDocument
  <1>2. docs \in Seq(Documents) /\ next' = 1 /\ AtEnd
    BY DEF NextDocument, TypeOK
  <1>3. /\ Len(docs') = Len(docs) + 1 /\ docs'[Len(docs')] = d
        /\ \A i \in 1..Len(docs) : docs'[i] = docs[i]
        /\ DOMAIN docs' = 1..(Len(docs) + 1) /\ DOMAIN docs = 1..Len(docs)
        /\ Len(docs) \in Nat
    BY <1>1, <1>2
  <1>4. d \in Seq(Entries)
    BY SampleAssumption
  <1>5. Walked = Slots
    BY <1>2, WalkEnds
  <1>6. Walked' \subseteq Slots
    <2>1. ASSUME NEW s \in Walked' PROVE s \in Slots
      <3>1. PICK k \in DOMAIN docs' : \E i \in DOMAIN docs'[k] : s = <<k, i>>
        BY <2>1 DEF Walked, Slots
      <3>2. k < Len(docs) + 1 \/ s[2] < 1
        BY <1>2, <1>3, <2>1, <3>1 DEF Walked
      <3>3. k <= Len(docs)
        BY <1>3, <1>4, <3>1, <3>2
      <3> QED BY <1>3, <3>1, <3>3, SlotsAre
    <2> QED BY <2>1
  <1>7. Slots \subseteq Walked'
    <2>1. ASSUME NEW s \in Slots PROVE s \in Walked'
      <3>1. s = <<s[1], s[2]>> /\ s[1] \in 1..Len(docs) /\ s[2] \in DOMAIN docs[s[1]]
        BY <2>1, SlotsAre
      <3>2. s \in Slots'
        BY <1>3, <3>1 DEF Slots
      <3> QED BY <1>3, <3>1, <3>2 DEF Walked
    <2> QED BY <2>1
  <1>8. ASSUME NEW s \in Walked PROVE Entry(s)' = Entry(s)
    BY <1>3, <1>5, <1>8, SlotsAre DEF Entry
  <1> QED BY <1>5, <1>6, <1>7, <1>8

\* Visiting an entry within the limit adds its slot to those met at its path.
LEMMA MetGrows ==
    ASSUME TypeOK, Visit, NEW p \in Paths
    PROVE  /\ Path(Current[next]) \in Paths /\ Current[next].value \in Values
           /\ stats' = [stats EXCEPT ![Path(Current[next])] = Recorded(@, Current[next].value)]
           /\ Slot \notin MetAt(p)
           /\ Entry(Slot) = Current[next]
           /\ \A s : Entry(s)' = Entry(s)
           /\ MetAt(p)' = IF p = Path(Current[next]) THEN MetAt(p) \cup {Slot} ELSE MetAt(p)
  <1>1. ~AtEnd /\ docs' = docs /\ next' = next + 1
    BY DEF Visit
  <1>2. /\ Slot \notin Walked
        /\ Entry(Slot) = Current[next]
        /\ Walked' = Walked \cup {Slot}
        /\ \A s : Entry(s)' = Entry(s)
    BY <1>1, WalkGrows
  <1>3. /\ Depth(Current[next]) <= MaxDepth
        /\ stats' = [stats EXCEPT ![Path(Current[next])] = Recorded(@, Current[next].value)]
    BY DEF Visit
  <1>4. Met' = Met \cup {Slot}
    BY <1>2, <1>3 DEF Met
  <1>5. MetAt(p)' = IF p = Path(Current[next]) THEN MetAt(p) \cup {Slot} ELSE MetAt(p)
    BY <1>2, <1>4 DEF MetAt
  <1>6. Slot \notin MetAt(p)
    BY <1>2 DEF MetAt, Met
  <1> QED BY <1>1, <1>2, <1>3, <1>5, <1>6, EntryAtHand

\* No other step changes what has been met, or the statistics.
LEMMA MetStays ==
    ASSUME TypeOK, [Next]_vars, ~Visit
    PROVE  /\ stats' = stats
           /\ \A p \in Paths : /\ MetAt(p)' = MetAt(p)
                               /\ \A s \in MetAt(p) : Entry(s)' = Entry(s)
  <1>1. CASE NextDocument
    <2>1. Walked' = Walked /\ \A s \in Walked : Entry(s)' = Entry(s)
      BY <1>1, WalkStays
    <2>2. Met' = Met /\ \A s \in Met : Entry(s)' = Entry(s)
      BY <2>1 DEF Met
    <2>3. \A p \in Paths : MetAt(p)' = MetAt(p)
      BY <2>2 DEF MetAt
    <2> QED BY <1>1, <2>2, <2>3 DEF MetAt, NextDocument
  <1>2. CASE PassBelow
    <2>1. ~AtEnd /\ docs' = docs /\ next' = next + 1 /\ Depth(Current[next]) > MaxDepth
      BY <1>2 DEF PassBelow
    <2>2. /\ Entry(Slot) = Current[next] /\ Walked' = Walked \cup {Slot}
          /\ \A s : Entry(s)' = Entry(s)
      BY <2>1, WalkGrows
    <2>3. Depth(Current[next]) \in Nat /\ MaxDepth \in Nat
      BY <2>1, EntryAtHand, SampleAssumption DEF Depth
    <2>4. ~(Depth(Entry(Slot)) <= MaxDepth)
      BY <2>1, <2>2, <2>3
    <2>5. Met' = Met
      BY <2>2, <2>4 DEF Met
    <2> QED BY <1>2, <2>2, <2>5 DEF MetAt, PassBelow
  <1>3. CASE docs' = docs /\ next' = next /\ stats' = stats
    BY <1>3 DEF MetAt, Met, Walked, Slots, Entry
  <1>4. CASE RejectSize \/ CursorFails \/ RefuseEmptyPath \/ Finalize \/ UNCHANGED vars
    BY <1>3, <1>4 DEF RejectSize, CursorFails, RefuseEmptyPath, Finalize, vars
  <1> QED BY <1>1, <1>2, <1>4 DEF Next

-----------------------------------------------------------------------------

NullAt(p) == {s \in MetAt(p) : IsNull(Entry(s).value)}
TypeAt(p, t) == {s \in MetAt(p) : Entry(s).value.type = t}

\* The counts of one path, as CountsAreExact has them for all.
Exact(p) ==
    /\ stats[p].present = Cardinality(MetAt(p))
    /\ stats[p].null = Cardinality(NullAt(p))
    /\ \A t \in Types : stats[p].types[t] = Cardinality(TypeAt(p, t))

\* In the beginning nothing has been met.
LEMMA NothingMet ==
    ASSUME Init
    PROVE  \A p \in Paths : MetAt(p) = {}
  BY DEF Init, MetAt, Met, Walked, Slots

\* A visit counts its entry once at its path, under its type, and nowhere else.
LEMMA VisitCounts ==
    ASSUME TypeOK, Visit, NEW p \in Paths, IsFiniteSet(MetAt(p)), Exact(p)
    PROVE  IsFiniteSet(MetAt(p)') /\ Exact(p)'
  <1> DEFINE e == Current[next]
             v == e.value
  <1>1. /\ Path(e) \in Paths /\ v \in Values
        /\ stats' = [stats EXCEPT ![Path(e)] = Recorded(@, v)]
        /\ Slot \notin MetAt(p)
        /\ Entry(Slot) = e
        /\ \A s : Entry(s)' = Entry(s)
        /\ MetAt(p)' = IF p = Path(e) THEN MetAt(p) \cup {Slot} ELSE MetAt(p)
    BY MetGrows
  <1>2. stats[p] \in Stats /\ stats \in [Paths -> Stats]
    BY DEF TypeOK
  <1> HIDE DEF e
  <1>3. CASE p # Path(e)
    <2>1. MetAt(p)' = MetAt(p) /\ stats'[p] = stats[p]
      BY <1>1, <1>2, <1>3
    <2>2. NullAt(p)' = NullAt(p) /\ \A t \in Types : TypeAt(p, t)' = TypeAt(p, t)
      BY <1>1, <2>1 DEF NullAt, TypeAt
    <2> QED BY <2>1, <2>2 DEF Exact
  <1>4. CASE p = Path(e)
    <2>1. MetAt(p)' = MetAt(p) \cup {Slot} /\ stats'[p] = Recorded(stats[p], v)
      BY <1>1, <1>2, <1>4
    <2>2. /\ stats'[p].present = stats[p].present + 1
          /\ stats'[p].null = IF IsNull(v) THEN stats[p].null + 1 ELSE stats[p].null
          /\ stats'[p].types = [stats[p].types EXCEPT ![v.type] = @ + 1]
      BY <1>1, <1>2, <2>1, RecordedTyped
    <2>3. IsFiniteSet(MetAt(p)') /\ stats'[p].present = Cardinality(MetAt(p)')
      BY <1>1, <2>1, <2>2, FS_AddElement DEF Exact
    <2>4. stats'[p].null = Cardinality(NullAt(p)')
      <3>1. NullAt(p)' = IF IsNull(v) THEN NullAt(p) \cup {Slot} ELSE NullAt(p)
        BY <1>1, <2>1 DEF NullAt
      <3>2. IsFiniteSet(NullAt(p)) /\ Slot \notin NullAt(p)
        BY <1>1, FS_Subset DEF NullAt
      <3>3. Cardinality(NullAt(p) \cup {Slot}) = Cardinality(NullAt(p)) + 1
        BY <3>2, FS_AddElement
      <3>4. stats[p].null = Cardinality(NullAt(p))
        BY DEF Exact
      <3> QED BY <2>2, <3>1, <3>3, <3>4
    <2>5. ASSUME NEW t \in Types PROVE stats'[p].types[t] = Cardinality(TypeAt(p, t)')
      <3>1. TypeAt(p, t)' = IF v.type = t THEN TypeAt(p, t) \cup {Slot} ELSE TypeAt(p, t)
        BY <1>1, <2>1 DEF TypeAt
      <3>2. IsFiniteSet(TypeAt(p, t)) /\ Slot \notin TypeAt(p, t)
        BY <1>1, FS_Subset DEF TypeAt
      <3>3. stats[p].types \in [Types -> Nat]
        BY <1>2 DEF Stats
      <3>4. stats'[p].types[t] = IF v.type = t THEN stats[p].types[t] + 1
                                 ELSE stats[p].types[t]
        BY <2>2, <3>3
      <3>5. Cardinality(TypeAt(p, t) \cup {Slot}) = Cardinality(TypeAt(p, t)) + 1
        BY <3>2, FS_AddElement
      <3>6. stats[p].types[t] = Cardinality(TypeAt(p, t))
        BY DEF Exact
      <3> QED BY <3>1, <3>4, <3>5, <3>6
    <2> QED BY <2>3, <2>4, <2>5 DEF Exact
  <1> QED BY <1>3, <1>4

CountInv == \A p \in Paths : IsFiniteSet(MetAt(p)) /\ Exact(p)

\* The counts stay exact, and what has been met stays finite.
LEMMA CountingInvariant == Spec => []CountInv
  <1>1. Init => CountInv
    <2> SUFFICES ASSUME Init, NEW p \in Paths PROVE IsFiniteSet(MetAt(p)) /\ Exact(p)
      BY DEF CountInv
    <2>1. MetAt(p) = {} /\ NullAt(p) = {} /\ \A t \in Types : TypeAt(p, t) = {}
      BY NothingMet DEF NullAt, TypeAt
    <2>2. stats[p] = NoStats
      BY DEF Init
    <2>3. /\ stats[p].present = 0 /\ stats[p].null = 0
          /\ \A t \in Types : stats[p].types[t] = 0
      BY <2>2 DEF NoStats
    <2>4. IsFiniteSet({}) /\ Cardinality({}) = 0
      BY FS_EmptySet
    <2> QED BY <2>1, <2>3, <2>4 DEF Exact
  <1>2. TypeOK /\ CountInv /\ [Next]_vars => CountInv'
    <2> SUFFICES ASSUME TypeOK, CountInv, [Next]_vars, NEW p \in Paths
                 PROVE  IsFiniteSet(MetAt(p)') /\ Exact(p)'
      BY DEF CountInv
    <2>1. CASE Visit
      BY <2>1, VisitCounts DEF CountInv
    <2>2. CASE ~Visit
      <3>1. /\ stats' = stats /\ MetAt(p)' = MetAt(p)
            /\ \A s \in MetAt(p) : Entry(s)' = Entry(s)
        BY <2>2, MetStays
      <3>2. NullAt(p)' = NullAt(p) /\ \A t \in Types : TypeAt(p, t)' = TypeAt(p, t)
        BY <3>1 DEF NullAt, TypeAt
      <3> QED BY <3>1, <3>2 DEF CountInv, Exact
    <2> QED BY <2>1, <2>2
  <1> QED BY <1>1, <1>2, TypeCorrect, PTL DEF Spec

\* Whatever the documents and their order, every count of a path is the number of
\* entries met there that it stands for.
THEOREM CountsAreExactAlways == Spec => []CountsAreExact
  <1>1. CountInv => CountsAreExact
    BY DEF CountInv, Exact, NullAt, TypeAt, CountsAreExact
  <1> QED BY <1>1, CountingInvariant, PTL

-----------------------------------------------------------------------------
(* The missing counts. *)

\* The fields are filled in last, from statistics that no longer change.
FieldsInv ==
    /\ status # "done" => DOMAIN fields = {}
    /\ \A p \in DOMAIN fields :
          /\ p \in Paths
          /\ fields[p].missing = Len(docs) - stats[p].present
          /\ fields[p].cardinality = Cardinality(stats[p].distinct)

\* Finalize fills the fields in, and they stay.
LEMMA FieldsInvariant == Spec => []FieldsInv
  <1>1. Init => FieldsInv
    BY DEF Init, FieldsInv
  <1>2. FieldsInv /\ [Next]_vars => FieldsInv'
    <2> SUFFICES ASSUME FieldsInv, [Next]_vars PROVE FieldsInv'
      OBVIOUS
    <2>1. CASE Finalize
      <3>1. fields' = [p \in Seen |-> [missing |-> Missing(p),
                                       cardinality |-> Cardinality(stats[p].distinct)]]
        BY <2>1 DEF Finalize
      <3> QED BY <2>1, <3>1 DEF Finalize, FieldsInv, Seen, Missing
    <2>2. CASE RejectSize \/ NextDocument \/ CursorFails \/ Visit \/ PassBelow
                 \/ RefuseEmptyPath
      <3>1. status = "sampling" /\ fields' = fields
        BY <2>2 DEF RejectSize, NextDocument, CursorFails, Visit, PassBelow, RefuseEmptyPath,
                    Sampling
      <3> QED BY <3>1 DEF FieldsInv
    <2>3. CASE UNCHANGED vars
      BY <2>3 DEF vars, FieldsInv
    <2> QED BY <2>1, <2>2, <2>3 DEF Next
  <1> QED BY <1>1, <1>2, PTL DEF Spec

\* With one entry per document at most, there are as many entries as documents that have
\* the path, and the others are those it is missing from.
LEMMA AbsentAreOthers ==
    ASSUME TypeOK, NEW p \in Paths, IsFiniteSet(MetAt(p)), OncePerDocument(p)
    PROVE  Cardinality({d \in 1..Len(docs) : \A s \in MetAt(p) : s[1] # d})
             = Len(docs) - Cardinality(MetAt(p))
  <1> DEFINE D == {s[1] : s \in MetAt(p)}
             f == [s \in MetAt(p) |-> s[1]]
             absent == {d \in 1..Len(docs) : \A s \in MetAt(p) : s[1] # d}
  <1>1. Len(docs) \in Nat
    BY DEF TypeOK
  <1>2. D \subseteq 1..Len(docs)
    BY SlotsAre DEF MetAt, Met, Walked
  <1>3. f \in Bijection(MetAt(p), D)
    BY DEF OncePerDocument, Bijection, Injection, Surjection, IsInjective
  <1>4. ExistsBijection(MetAt(p), D)
    BY <1>3 DEF ExistsBijection
  <1>5. IsFiniteSet(D) /\ Cardinality(D) = Cardinality(MetAt(p))
    BY <1>4, FS_Bijection
  <1>6. IsFiniteSet(1..Len(docs)) /\ Cardinality(1..Len(docs)) = Len(docs)
    BY <1>1, FS_Interval
  <1>7. Cardinality((1..Len(docs)) \ D)
          = Cardinality(1..Len(docs)) - Cardinality((1..Len(docs)) \cap D)
    BY <1>6, FS_Difference
  <1>8. absent = (1..Len(docs)) \ D /\ (1..Len(docs)) \cap D = D
    BY <1>2
  <1> HIDE DEF D, absent
  <1>9. Cardinality(absent) = Len(docs) - Cardinality(MetAt(p))
    BY <1>5, <1>6, <1>7, <1>8
  <1> QED BY <1>9 DEF absent

\* The missing count of a path is the number of documents without it, for all documents
\* that spell the path in one way.
THEOREM MissingAreAbsentAlways == Spec => []MissingAreAbsent
  <1>1. TypeOK /\ CountInv /\ FieldsInv => MissingAreAbsent
    <2> SUFFICES ASSUME TypeOK, CountInv, FieldsInv,
                        NEW p \in DOMAIN fields, OncePerDocument(p)
                 PROVE  fields[p].missing
                          = Cardinality({d \in 1..Len(docs) : \A s \in MetAt(p) : s[1] # d})
      BY DEF MissingAreAbsent
    <2>1. p \in Paths /\ fields[p].missing = Len(docs) - stats[p].present
      BY DEF FieldsInv
    <2>2. IsFiniteSet(MetAt(p)) /\ stats[p].present = Cardinality(MetAt(p))
      BY <2>1 DEF CountInv, Exact
    <2> QED BY <2>1, <2>2, AbsentAreOthers
  <1> QED BY <1>1, TypeCorrect, CountingInvariant, FieldsInvariant, PTL

-----------------------------------------------------------------------------
(* Cardinalities. *)

\* The distinct values of a path are among those met; until the cap is reached they are
\* all of them, and a value is only turned away when it has been.
DistinctInv ==
    \A p \in Paths :
        /\ IsFiniteSet(ClassesAt(p))
        /\ stats[p].distinct \subseteq ClassesAt(p)
        /\ Cardinality(stats[p].distinct) <= CardinalityCap
        /\ stats[p].capped => Cardinality(stats[p].distinct) = CardinalityCap
        /\ ~stats[p].capped => stats[p].distinct = ClassesAt(p)

\* A visit adds its value to those met at its path, unless it is null.
LEMMA ValuesGrow ==
    ASSUME TypeOK, Visit, NEW p \in Paths
    PROVE  ValuesAt(p)' = IF p = Path(Current[next]) /\ ~IsNull(Current[next].value)
                          THEN ValuesAt(p) \cup {Current[next].value} ELSE ValuesAt(p)
  <1> DEFINE e == Current[next]
  <1>1. /\ Entry(Slot) = e
        /\ \A s : Entry(s)' = Entry(s)
        /\ MetAt(p)' = IF p = Path(e) THEN MetAt(p) \cup {Slot} ELSE MetAt(p)
    BY MetGrows
  <1> HIDE DEF e
  <1>2. ValuesAt(p)' = {Entry(s).value : s \in {u \in MetAt(p)' : ~IsNull(Entry(u).value)}}
    BY <1>1 DEF ValuesAt
  <1>3. CASE p = Path(e) /\ ~IsNull(e.value)
    <2>1. {u \in MetAt(p)' : ~IsNull(Entry(u).value)}
            = {u \in MetAt(p) : ~IsNull(Entry(u).value)} \cup {Slot}
      BY <1>1, <1>3
    <2> QED BY <1>1, <1>2, <1>3, <2>1 DEF ValuesAt, e
  <1>4. CASE ~(p = Path(e) /\ ~IsNull(e.value))
    <2>1. {u \in MetAt(p)' : ~IsNull(Entry(u).value)}
            = {u \in MetAt(p) : ~IsNull(Entry(u).value)}
      BY <1>1, <1>4
    <2> QED BY <1>2, <1>4, <2>1 DEF ValuesAt, e
  <1> QED BY <1>3, <1>4 DEF e

\* No other step changes the values met.
LEMMA ValuesStay ==
    ASSUME TypeOK, [Next]_vars, ~Visit, NEW p \in Paths
    PROVE  stats' = stats /\ ValuesAt(p)' = ValuesAt(p)
  <1>1. /\ stats' = stats /\ MetAt(p)' = MetAt(p)
        /\ \A s \in MetAt(p) : Entry(s)' = Entry(s)
    BY MetStays
  <1> QED BY <1>1 DEF ValuesAt

\* The distinct values of a path after a visit, and whether the cap has been reached.
LEMMA VisitDistinguishes ==
    ASSUME TypeOK, Visit, NEW p \in Paths, DistinctInv
    PROVE  /\ IsFiniteSet(ClassesAt(p)')
           /\ stats'[p].distinct \subseteq ClassesAt(p)'
           /\ Cardinality(stats'[p].distinct) <= CardinalityCap
           /\ stats'[p].capped => Cardinality(stats'[p].distinct) = CardinalityCap
           /\ ~stats'[p].capped => stats'[p].distinct = ClassesAt(p)'
  <1> DEFINE e == Current[next]
             v == e.value
             old == stats[p]
  <1>1. /\ Path(e) \in Paths /\ v \in Values
        /\ stats' = [stats EXCEPT ![Path(e)] = Recorded(@, v)]
    BY MetGrows
  <1>2. ValuesAt(p)' = IF p = Path(e) /\ ~IsNull(v) THEN ValuesAt(p) \cup {v} ELSE ValuesAt(p)
    BY ValuesGrow
  <1>3. old \in Stats /\ stats \in [Paths -> Stats] /\ CardinalityCap \in Nat
    BY SampleAssumption DEF TypeOK
  <1>4. /\ IsFiniteSet(ClassesAt(p))
        /\ old.distinct \subseteq ClassesAt(p)
        /\ Cardinality(old.distinct) <= CardinalityCap
        /\ old.capped => Cardinality(old.distinct) = CardinalityCap
        /\ ~old.capped => old.distinct = ClassesAt(p)
    BY DEF DistinctInv
  <1>5. ClassesAt(p)' = {x.is : x \in {w \in ValuesAt(p)' : w.hashable}}
    BY DEF ClassesAt
  <1> HIDE DEF e
  <1>6. CASE ~(p = Path(e) /\ ~IsNull(v) /\ v.hashable)
    <2>1. ClassesAt(p)' = ClassesAt(p)
      BY <1>2, <1>5, <1>6 DEF ClassesAt
    <2>2. stats'[p].distinct = old.distinct /\ stats'[p].capped = old.capped
      <3>1. CASE p = Path(e)
        <4>1. stats'[p] = Recorded(old, v)
          BY <1>1, <1>3, <3>1
        <4> QED BY <1>1, <1>3, <1>6, <3>1, <4>1, RecordedTyped, SampleAssumption
                DEF Distinct, Capped, Stats
      <3>2. CASE p # Path(e)
        BY <1>1, <1>3, <3>2
      <3> QED BY <3>1, <3>2
    <2> QED BY <1>4, <2>1, <2>2
  <1>7. CASE p = Path(e) /\ ~IsNull(v) /\ v.hashable
    <2>1. ClassesAt(p)' = ClassesAt(p) \cup {v.is}
      BY <1>2, <1>5, <1>7 DEF ClassesAt
    <2>2. IsFiniteSet(ClassesAt(p)')
      BY <1>4, <2>1, FS_AddElement
    <2>3. IsFiniteSet(old.distinct) /\ Cardinality(old.distinct) \in Nat
      BY <1>4, FS_Subset, FS_CardinalityType
    <2>4. stats'[p] = Recorded(old, v)
      BY <1>1, <1>3, <1>7
    <2>5. stats'[p].distinct = Distinct(old, v) /\ stats'[p].capped = Capped(old, v)
      <3>1. Recorded(old, v).distinct = Distinct(old, v)
        BY <1>1, <1>3, <1>7, RecordedTyped
      <3>2. Recorded(old, v).capped = Capped(old, v)
        BY <1>1, <1>3, <1>7, RecordedTyped
      <3> QED BY <2>4, <3>1, <3>2
    <2>6. CASE Cardinality(old.distinct) < CardinalityCap
      <3>1. stats'[p].distinct = old.distinct \cup {v.is}
        BY <1>7, <2>5, <2>6 DEF Distinct
      <3>2. ~old.capped /\ stats'[p].capped = FALSE
        BY <1>3, <1>4, <2>3, <2>5, <2>6 DEF Capped, Stats
      <3>3. Cardinality(old.distinct \cup {v.is})
              = IF v.is \in old.distinct THEN Cardinality(old.distinct)
                ELSE Cardinality(old.distinct) + 1
        BY <2>3, FS_AddElement
      <3>4. Cardinality(stats'[p].distinct) <= CardinalityCap
        BY <1>3, <2>3, <2>6, <3>1, <3>3
      <3> QED BY <1>4, <2>1, <2>2, <3>1, <3>2, <3>4
    <2>7. CASE ~(Cardinality(old.distinct) < CardinalityCap)
      <3>1. stats'[p].distinct = old.distinct
        BY <2>5, <2>7 DEF Distinct
      <3>2. Cardinality(old.distinct) = CardinalityCap
        BY <1>3, <1>4, <2>3, <2>7
      <3>3. stats'[p].capped
        <4>1. v.hashable /\ Cardinality(old.distinct) >= CardinalityCap
          BY <1>3, <1>7, <3>2
        <4>2. Capped(old, v) = TRUE
          BY <4>1 DEF Capped
        <4> QED BY <2>5, <4>2
      <3> QED BY <1>3, <1>4, <2>1, <2>2, <3>1, <3>2, <3>3
    <2> QED BY <2>6, <2>7
  <1> QED BY <1>6, <1>7

\* The distinct values stay what they should be.
LEMMA DistinctInvariant == Spec => []DistinctInv
  <1>1. Init => DistinctInv
    <2> SUFFICES ASSUME Init PROVE DistinctInv
      OBVIOUS
    <2>1. ASSUME NEW p \in Paths
          PROVE  /\ ClassesAt(p) = {} /\ stats[p].distinct = {} /\ stats[p].capped = FALSE
      <3>1. MetAt(p) = {}
        BY NothingMet
      <3> QED BY <3>1 DEF Init, NoStats, ClassesAt, ValuesAt
    <2>2. IsFiniteSet({}) /\ Cardinality({}) = 0
      BY FS_EmptySet
    <2>3. 0 <= CardinalityCap
      BY SampleAssumption
    <2>4. ASSUME NEW p \in Paths
          PROVE  /\ IsFiniteSet(ClassesAt(p))
                 /\ stats[p].distinct = ClassesAt(p)
                 /\ Cardinality(stats[p].distinct) <= CardinalityCap
                 /\ ~stats[p].capped
      BY <2>1, <2>2, <2>3
    <2> QED BY <2>4 DEF DistinctInv
  <1>2. TypeOK /\ DistinctInv /\ [Next]_vars => DistinctInv'
    <2> SUFFICES ASSUME TypeOK, DistinctInv, [Next]_vars PROVE DistinctInv'
      OBVIOUS
    <2>1. CASE Visit
      BY <2>1, VisitDistinguishes DEF DistinctInv
    <2>2. CASE ~Visit
      <3>1. ASSUME NEW p \in Paths
            PROVE  stats'[p] = stats[p] /\ ClassesAt(p)' = ClassesAt(p)
        BY <2>2, ValuesStay DEF ClassesAt
      <3> QED BY <3>1 DEF DistinctInv
    <2> QED BY <2>1, <2>2
  <1> QED BY <1>1, <1>2, TypeCorrect, PTL DEF Spec

\* The cardinality of a field is the number of its distinct values up to the cap, and one
\* that falls short of it is flagged.
THEOREM CardinalityIsExactAlways == Spec => []CardinalityIsExact
  <1>1. TypeOK /\ FieldsInv /\ DistinctInv => CardinalityIsExact
    <2> SUFFICES ASSUME TypeOK, FieldsInv, DistinctInv, NEW p \in DOMAIN fields
                 PROVE  LET n == Cardinality(ClassesAt(p))
                        IN /\ fields[p].cardinality
                                = IF n < CardinalityCap THEN n ELSE CardinalityCap
                           /\ n > CardinalityCap => stats[p].capped
                           /\ stats[p].capped => n >= CardinalityCap
      BY DEF CardinalityIsExact
    <2>1. p \in Paths /\ fields[p].cardinality = Cardinality(stats[p].distinct)
      BY DEF FieldsInv
    <2>2. /\ IsFiniteSet(ClassesAt(p))
          /\ stats[p].distinct \subseteq ClassesAt(p)
          /\ Cardinality(stats[p].distinct) <= CardinalityCap
          /\ stats[p].capped => Cardinality(stats[p].distinct) = CardinalityCap
          /\ ~stats[p].capped => stats[p].distinct = ClassesAt(p)
      BY <2>1 DEF DistinctInv
    <2>3. /\ Cardinality(ClassesAt(p)) \in Nat /\ CardinalityCap \in Nat
          /\ Cardinality(stats[p].distinct) \in Nat
          /\ Cardinality(stats[p].distinct) <= Cardinality(ClassesAt(p))
      BY <2>2, FS_Subset, FS_CardinalityType, SampleAssumption
    <2> QED BY <2>1, <2>2, <2>3
  <1> QED BY <1>1, TypeCorrect, FieldsInvariant, DistinctInvariant, PTL

-----------------------------------------------------------------------------
(* Sample values. *)

AllAt(p) == {v.is : v \in ValuesAt(p)}

\* The sample values of a path are different ones of those met, and all of them while
\* there is room.
SampleInv ==
    \A p \in Paths :
        /\ IsFiniteSet(AllAt(p))
        /\ Sampled(stats[p]) \subseteq AllAt(p)
        /\ Cardinality(Sampled(stats[p])) = Len(stats[p].samples)
        /\ Len(stats[p].samples) <= SampleCap
        /\ Len(stats[p].samples) < SampleCap => Sampled(stats[p]) = AllAt(p)

\* A sample more is a member more.
LEMMA SampledGrows ==
    ASSUME NEW s \in Stats, NEW t \in Stats, NEW v \in Values,
           t.samples = Append(s.samples, v)
    PROVE  Sampled(t) = Sampled(s) \cup {v.is} /\ Len(t.samples) = Len(s.samples) + 1
  <1>1. s.samples \in Seq(Values)
    BY DEF Stats
  <1>2. /\ DOMAIN t.samples = DOMAIN s.samples \cup {Len(s.samples) + 1}
        /\ \A i \in DOMAIN s.samples : t.samples[i] = s.samples[i]
        /\ t.samples[Len(s.samples) + 1] = v
        /\ Len(t.samples) = Len(s.samples) + 1
    BY <1>1
  <1> QED BY <1>2 DEF Sampled

\* The samples of a path after a visit.
LEMMA VisitSamples ==
    ASSUME TypeOK, Visit, NEW p \in Paths, SampleInv
    PROVE  /\ IsFiniteSet(AllAt(p)')
           /\ Sampled(stats'[p]) \subseteq AllAt(p)'
           /\ Cardinality(Sampled(stats'[p])) = Len(stats'[p].samples)
           /\ Len(stats'[p].samples) <= SampleCap
           /\ Len(stats'[p].samples) < SampleCap => Sampled(stats'[p]) = AllAt(p)'
  <1> DEFINE e == Current[next]
             v == e.value
             old == stats[p]
  <1>1. /\ Path(e) \in Paths /\ v \in Values
        /\ stats' = [stats EXCEPT ![Path(e)] = Recorded(@, v)]
    BY MetGrows
  <1>2. ValuesAt(p)' = IF p = Path(e) /\ ~IsNull(v) THEN ValuesAt(p) \cup {v} ELSE ValuesAt(p)
    BY ValuesGrow
  <1>3. old \in Stats /\ stats \in [Paths -> Stats] /\ SampleCap \in Nat
    BY SampleAssumption DEF TypeOK
  <1>4. /\ IsFiniteSet(AllAt(p))
        /\ Sampled(old) \subseteq AllAt(p)
        /\ Cardinality(Sampled(old)) = Len(old.samples)
        /\ Len(old.samples) <= SampleCap
        /\ Len(old.samples) < SampleCap => Sampled(old) = AllAt(p)
    BY DEF SampleInv
  <1>5. AllAt(p)' = {x.is : x \in ValuesAt(p)'}
    BY DEF AllAt
  <1> HIDE DEF e
  <1>6. CASE ~(p = Path(e) /\ ~IsNull(v))
    <2>1. AllAt(p)' = AllAt(p)
      BY <1>2, <1>5, <1>6 DEF AllAt
    <2>2. stats'[p].samples = old.samples
      <3>1. CASE p = Path(e)
        <4>1. stats'[p] = Recorded(old, v)
          BY <1>1, <1>3, <3>1
        <4> QED BY <1>1, <1>3, <1>6, <3>1, <4>1, RecordedTyped
      <3>2. CASE p # Path(e)
        BY <1>1, <1>3, <3>2
      <3> QED BY <3>1, <3>2
    <2> QED BY <1>4, <2>1, <2>2 DEF Sampled
  <1>7. CASE p = Path(e) /\ ~IsNull(v)
    <2>1. AllAt(p)' = AllAt(p) \cup {v.is}
      BY <1>2, <1>5, <1>7 DEF AllAt
    <2>2. IsFiniteSet(AllAt(p)')
      BY <1>4, <2>1, FS_AddElement
    <2>3. stats'[p] = Recorded(old, v) /\ stats'[p] \in Stats
      BY <1>1, <1>3, <1>7, RecordedTyped
    <2>4. stats'[p].samples = Samples(old, v)
      <3>1. Recorded(old, v).samples = Samples(old, v)
        BY <1>1, <1>3, <1>7, RecordedTyped
      <3> QED BY <2>3, <3>1
    <2>5. IsFiniteSet(Sampled(old)) /\ Len(old.samples) \in Nat
      BY <1>3, <1>4, FS_Subset DEF Stats
    <2>6. CASE Len(old.samples) < SampleCap /\ v.is \notin Sampled(old)
      <3>1. stats'[p].samples = Append(old.samples, v)
        BY <2>4, <2>6 DEF Samples
      <3>2. /\ Sampled(stats'[p]) = Sampled(old) \cup {v.is}
            /\ Len(stats'[p].samples) = Len(old.samples) + 1
        BY <1>1, <1>3, <2>3, <3>1, SampledGrows
      <3>3. Cardinality(Sampled(old) \cup {v.is}) = Cardinality(Sampled(old)) + 1
        BY <2>5, <2>6, FS_AddElement
      <3>4. Len(old.samples) + 1 <= SampleCap
        BY <1>3, <2>5, <2>6
      <3> QED BY <1>4, <2>1, <2>2, <2>6, <3>2, <3>3, <3>4
    <2>7. CASE ~(Len(old.samples) < SampleCap /\ v.is \notin Sampled(old))
      <3>1. stats'[p].samples = old.samples
        BY <2>4, <2>7 DEF Samples
      <3>2. Sampled(stats'[p]) = Sampled(old)
        BY <3>1 DEF Sampled
      <3>3. Len(old.samples) < SampleCap => v.is \in AllAt(p)
        BY <1>4, <2>7
      <3> QED BY <1>4, <2>1, <2>2, <3>1, <3>2, <3>3
    <2> QED BY <2>6, <2>7
  <1> QED BY <1>6, <1>7

\* The samples stay what they should be.
LEMMA SampleInvariant == Spec => []SampleInv
  <1>1. Init => SampleInv
    <2> SUFFICES ASSUME Init PROVE SampleInv
      OBVIOUS
    <2>1. ASSUME NEW p \in Paths
          PROVE  AllAt(p) = {} /\ Sampled(stats[p]) = {} /\ Len(stats[p].samples) = 0
      <3>1. MetAt(p) = {}
        BY NothingMet
      <3>2. stats[p].samples = <<>>
        BY DEF Init, NoStats
      <3> QED BY <3>1, <3>2 DEF AllAt, ValuesAt, Sampled
    <2>2. IsFiniteSet({}) /\ Cardinality({}) = 0
      BY FS_EmptySet
    <2>3. 0 <= SampleCap
      BY SampleAssumption
    <2> QED BY <2>1, <2>2, <2>3 DEF SampleInv
  <1>2. TypeOK /\ SampleInv /\ [Next]_vars => SampleInv'
    <2> SUFFICES ASSUME TypeOK, SampleInv, [Next]_vars PROVE SampleInv'
      OBVIOUS
    <2>1. CASE Visit
      <3>1. \A p \in Paths : Sampled(stats[p])' = Sampled(stats'[p])
        BY DEF Sampled
      <3> QED BY <2>1, <3>1, VisitSamples DEF SampleInv
    <2>2. CASE ~Visit
      <3>1. ASSUME NEW p \in Paths
            PROVE  /\ stats'[p] = stats[p] /\ AllAt(p)' = AllAt(p)
                   /\ Sampled(stats[p])' = Sampled(stats[p])
        BY <2>2, ValuesStay DEF AllAt, Sampled
      <3> QED BY <3>1 DEF SampleInv
    <2> QED BY <2>1, <2>2
  <1> QED BY <1>1, <1>2, TypeCorrect, PTL DEF Spec

\* The sample values of a path are as many different ones of its values as there are, or
\* as there is room for.
THEOREM SamplesAreDistinctAlways == Spec => []SamplesAreDistinct
  <1>1. TypeOK /\ SampleInv => SamplesAreDistinct
    <2> SUFFICES ASSUME TypeOK, SampleInv, NEW p \in Paths
                 PROVE  LET n == Cardinality(AllAt(p))
                        IN /\ Sampled(stats[p]) \subseteq AllAt(p)
                           /\ Cardinality(Sampled(stats[p])) = Len(stats[p].samples)
                           /\ Len(stats[p].samples) = IF n < SampleCap THEN n ELSE SampleCap
      BY DEF SamplesAreDistinct, AllAt
    <2>1. /\ IsFiniteSet(AllAt(p))
          /\ Sampled(stats[p]) \subseteq AllAt(p)
          /\ Cardinality(Sampled(stats[p])) = Len(stats[p].samples)
          /\ Len(stats[p].samples) <= SampleCap
          /\ Len(stats[p].samples) < SampleCap => Sampled(stats[p]) = AllAt(p)
      BY DEF SampleInv
    <2>2. /\ Cardinality(AllAt(p)) \in Nat /\ SampleCap \in Nat
          /\ Cardinality(Sampled(stats[p])) \in Nat
          /\ Cardinality(Sampled(stats[p])) <= Cardinality(AllAt(p))
      BY <2>1, FS_Subset, FS_CardinalityType, SampleAssumption
    <2> QED BY <2>1, <2>2
  <1> QED BY <1>1, TypeCorrect, SampleInvariant, PTL

-----------------------------------------------------------------------------
(* Paths.  FlattenSeq is a recursive function, so that what it is takes an induction,   *)
(* done here from least counterexamples.                                                *)

\* Positions have a first one.
LEMMA Least ==
    ASSUME NEW n \in Nat, NEW S \in SUBSET (1..n), S # {}
    PROVE  \E i \in S : \A j \in S : i <= j
  <1> DEFINE Family == {1..i : i \in S}
  <1>1. Family \subseteq FiniteSubsetsOf(1..n) /\ Family # {}
    <2>1. \A i \in S : 1..i \subseteq 1..n
      OBVIOUS
    <2>2. \A i \in S : IsFiniteSet(1..i)
      BY <2>1, FS_Interval, FS_Subset
    <2> QED BY <2>1, <2>2 DEF FiniteSubsetsOf
  <1>2. IsWellFoundedOn(StrictSubsetOrdering(1..n), FiniteSubsetsOf(1..n))
    BY FS_StrictSubsetOrderingWellFounded
  <1>3. PICK A \in Family : \A B \in Family : <<B, A>> \notin StrictSubsetOrdering(1..n)
    <2> HIDE DEF Family
    <2> QED BY <1>1, <1>2, WFMin
  <1>4. PICK i \in S : A = 1..i
    OBVIOUS
  <1>5. ASSUME NEW j \in S, ~(i <= j) PROVE FALSE
    <2>1. 1..j \subseteq 1..i /\ 1..i \subseteq 1..n
      BY <1>5
    <2>2. i \in 1..i /\ i \notin 1..j
      BY <1>5
    <2>3. <<1..j, 1..i>> \in StrictSubsetOrdering(1..n)
      BY <2>1, <2>2 DEF StrictSubsetOrdering
    <2> QED BY <1>3, <1>4, <2>3
  <1> QED BY <1>5

Key == Seq(STRING) \ {<<>>}

\* f has the paths along the first n of some keys.
Steps(f, keys, n) ==
    \A i \in 1..n : f[i] = IF i = 1 THEN keys[i] ELSE f[i - 1] \o keys[i]

Joins(f, keys, n) == f \in [1..n -> Seq(STRING)] /\ Steps(f, keys, n)

\* There is one path along the same keys.
LEMMA StepsAgree ==
    ASSUME NEW f, NEW g, NEW k, NEW l, NEW n \in Nat,
           Steps(f, k, n), Steps(g, l, n), \A i \in 1..n : k[i] = l[i]
    PROVE  \A i \in 1..n : f[i] = g[i]
  <1> DEFINE Bad == {i \in 1..n : f[i] # g[i]}
  <1>1. SUFFICES ASSUME Bad # {} PROVE FALSE
    OBVIOUS
  <1>2. PICK m \in Bad : \A j \in Bad : m <= j
    <2> HIDE DEF Bad
    <2>1. Bad \subseteq 1..n
      BY DEF Bad
    <2> QED BY <1>1, <2>1, Least
  <1>3. m \in 1..n /\ f[m] # g[m]
    OBVIOUS
  <1>4. CASE m = 1
    BY <1>3, <1>4 DEF Steps
  <1>5. CASE m # 1
    <2>1. m - 1 \in 1..n /\ m - 1 \notin Bad
      BY <1>2, <1>3, <1>5
    <2>2. f[m - 1] = g[m - 1]
      BY <2>1
    <2>3. f[m] = f[m - 1] \o k[m] /\ g[m] = g[m - 1] \o l[m] /\ k[m] = l[m]
      BY <1>3, <1>5 DEF Steps
    <2> QED BY <1>3, <2>2, <2>3
  <1> QED BY <1>4, <1>5

\* There is one along any keys.
LEMMA JoinsExist ==
    ASSUME NEW keys \in Seq(Key), NEW n \in 1..Len(keys)
    PROVE  \E f : Joins(f, keys, n)
  <1> DEFINE Bad == {m \in 1..n : ~\E f : Joins(f, keys, m)}
  <1>1. Len(keys) \in Nat /\ n \in Nat /\ n >= 1 /\ \A i \in 1..n : keys[i] \in Seq(STRING)
    BY DEF Key
  <1>2. SUFFICES ASSUME Bad # {} PROVE FALSE
    <2>1. n \in 1..n
      BY <1>1
    <2> QED BY <2>1
  <1>3. PICK m \in Bad : \A j \in Bad : m <= j
    <2> HIDE DEF Bad
    <2>1. Bad \subseteq 1..n
      BY DEF Bad
    <2> QED BY <1>1, <1>2, <2>1, Least
  <1>4. m \in 1..n /\ ~\E f : Joins(f, keys, m)
    OBVIOUS
  <1>5. CASE m = 1
    <2> DEFINE f == [i \in 1..1 |-> keys[1]]
    <2>1. Joins(f, keys, 1)
      BY <1>1 DEF Joins, Steps
    <2> QED BY <1>4, <1>5, <2>1
  <1>6. CASE m # 1
    <2>1. m - 1 \in 1..n /\ m - 1 \notin Bad
      BY <1>1, <1>3, <1>4, <1>6
    <2>2. PICK f : Joins(f, keys, m - 1)
      BY <2>1
    <2>3. /\ f \in [1..(m - 1) -> Seq(STRING)]
          /\ \A i \in 1..(m - 1) : f[i] = IF i = 1 THEN keys[i] ELSE f[i - 1] \o keys[i]
      BY <2>2 DEF Joins, Steps
    <2> DEFINE last == f[m - 1] \o keys[m]
               g == [i \in 1..m |-> IF i = m THEN last ELSE f[i]]
    <2>4. f[m - 1] \in Seq(STRING) /\ keys[m] \in Seq(STRING)
      BY <1>1, <1>4, <1>6, <2>3
    <2>5. last \in Seq(STRING)
      BY <2>4
    <2> HIDE DEF last
    <2>6. g \in [1..m -> Seq(STRING)]
      BY <1>1, <1>4, <2>3, <2>5
    <2>7. ASSUME NEW i \in 1..m
          PROVE  g[i] = IF i = 1 THEN keys[i] ELSE g[i - 1] \o keys[i]
      <3>1. CASE i = m
        <4>1. g[i] = last /\ g[i - 1] = f[m - 1]
          BY <1>4, <1>6, <3>1
        <4> QED BY <1>6, <3>1, <4>1 DEF last
      <3>2. CASE i # m
        <4>1. i \in 1..(m - 1) /\ g[i] = f[i] /\ (i # 1 => g[i - 1] = f[i - 1])
          BY <1>4, <1>6, <3>2
        <4> QED BY <2>3, <4>1
      <3> QED BY <3>1, <3>2
    <2> HIDE DEF g
    <2>8. Joins(g, keys, m)
      BY <2>6, <2>7 DEF Joins, Steps
    <2> QED BY <1>4, <2>8
  <1> QED BY <1>5, <1>6

\* The path to an entry is where some paths along its keys end.
LEMMA FlattenJoins ==
    ASSUME NEW keys \in Seq(Key), keys # <<>>
    PROVE  \E f : Joins(f, keys, Len(keys)) /\ FlattenSeq(keys) = f[Len(keys)]
  <1> DEFINE n == Len(keys)
             Eq(f) == f = [i \in 1..n |-> IF i = 1 THEN keys[i] ELSE f[i - 1] \o keys[i]]
             flatten == CHOOSE f : Eq(f)
  <1>1. n \in Nat /\ n # 0 /\ n \in 1..n
    OBVIOUS
  <1>2. PICK f : Joins(f, keys, n)
    BY <1>1, JoinsExist
  <1>3. Eq(f)
    BY <1>2 DEF Joins, Steps
  <1>4. Eq(flatten)
    BY <1>3
  <1>5. FlattenSeq(keys) = flatten[n]
    BY <1>1 DEF FlattenSeq
  <1>6. Steps(flatten, keys, n)
    <2>1. PICK h : h = flatten
      OBVIOUS
    <2>2. h = [i \in 1..n |-> IF i = 1 THEN keys[i] ELSE h[i - 1] \o keys[i]]
      BY <1>4, <2>1
    <2>3. Steps(h, keys, n)
      BY <2>2 DEF Steps
    <2> QED BY <2>1, <2>3
  <1> HIDE DEF flatten
  <1>7. flatten[n] = f[n]
    BY <1>1, <1>2, <1>6, StepsAgree DEF Joins
  <1> QED BY <1>2, <1>5, <1>7

\* What has a prefix has it still, and strictly, when it goes on.
LEMMA PrefixGrows ==
    ASSUME NEW p \in Seq(STRING), NEW q \in Seq(STRING), NEW k \in Key, IsPrefix(p, q)
    PROVE  IsPrefix(p, q \o k) /\ IsStrictPrefix(p, q \o k)
  <1>1. k \in Seq(STRING) /\ Len(k) \in Nat /\ Len(k) # 0
    BY DEF Key
  <1>2. Len(p) \in Nat /\ Len(q) \in Nat /\ Len(p) <= Len(q) /\ Len(q \o k) = Len(q) + Len(k)
    BY <1>1 DEF IsPrefix
  <1>3. SubSeq(q \o k, 1, Len(p)) = SubSeq(q, 1, Len(p))
    BY <1>1, <1>2, SubSeqOfConcat1
  <1>4. SubSeq(p, 1, Len(p)) = SubSeq(q, 1, Len(p))
    BY DEF IsPrefix
  <1>5. IsPrefix(p, q \o k)
    BY <1>1, <1>2, <1>3, <1>4 DEF IsPrefix
  <1>6. p # q \o k
    BY <1>1, <1>2
  <1> QED BY <1>5, <1>6 DEF IsStrictPrefix

\* The path to what is in an object goes on from the path to the object.
LEMMA PathsNest ==
    ASSUME NEW keys \in Seq(Key), NEW m \in 1..(Len(keys) - 1)
    PROVE  IsStrictPrefix(FlattenSeq(SubSeq(keys, 1, m)), FlattenSeq(keys))
  <1> DEFINE n == Len(keys)
             outer == SubSeq(keys, 1, m)
  <1>1. n \in Nat /\ m \in Nat /\ 1 <= m /\ m < n /\ keys # <<>> /\ \A i \in 1..n : keys[i] \in Key
    OBVIOUS
  <1>2. /\ outer \in Seq(Key) /\ Len(outer) = m /\ outer # <<>>
        /\ \A i \in 1..m : outer[i] = keys[i]
    BY <1>1, SubSeqProperties
  <1>3. PICK f : Joins(f, keys, n) /\ FlattenSeq(keys) = f[n]
    BY <1>1, FlattenJoins
  <1> HIDE DEF outer
  <1>4. PICK g : Joins(g, outer, m) /\ FlattenSeq(outer) = g[m]
    BY <1>2, FlattenJoins
  <1>5. g[m] = f[m]
    <2>1. Steps(g, outer, m)
      BY <1>4 DEF Joins
    <2>2. \A i \in 1..m : i \in 1..n
      BY <1>1
    <2>3. Steps(f, keys, n)
      BY <1>3 DEF Joins
    <2>4. Steps(f, keys, m)
      BY <2>2, <2>3 DEF Steps
    <2> QED BY <1>1, <1>2, <2>1, <2>4, StepsAgree
  <1>6. /\ \A i \in 1..n : f[i] \in Seq(STRING)
        /\ \A i \in 2..n : f[i] = f[i - 1] \o keys[i]
    <2>1. f \in [1..n -> Seq(STRING)] /\ Steps(f, keys, n)
      BY <1>3 DEF Joins
    <2>2. \A i \in 2..n : i \in 1..n /\ i # 1
      BY <1>1
    <2> HIDE DEF n
    <2> QED BY <2>1, <2>2 DEF Steps
  <1> DEFINE Bad == {i \in 1..n : i > m /\ ~IsStrictPrefix(f[m], f[i])}
  <1>7. ASSUME Bad # {} PROVE FALSE
    <2>1. PICK b \in Bad : \A j \in Bad : b <= j
      <3> HIDE DEF Bad
      <3>1. Bad \subseteq 1..n
        BY DEF Bad
      <3> QED BY <1>1, <1>7, <3>1, Least
    <2>2. b \in 1..n /\ b > m /\ ~IsStrictPrefix(f[m], f[b])
      OBVIOUS
    <2>3. b - 1 \in 1..n /\ b - 1 >= m /\ b \in 2..n /\ b - 1 \notin Bad
      BY <1>1, <2>1, <2>2
    <2>4. IsPrefix(f[m], f[b - 1])
      <3>1. CASE b - 1 = m
        BY <3>1, <1>1, <1>6 DEF IsPrefix
      <3>2. CASE b - 1 # m
        BY <1>1, <2>3, <3>2 DEF IsStrictPrefix
      <3> QED BY <3>1, <3>2
    <2>5. IsStrictPrefix(f[m], f[b - 1] \o keys[b])
      BY <1>1, <1>6, <2>2, <2>3, <2>4, PrefixGrows
    <2> QED BY <1>6, <2>2, <2>3, <2>5
  <1>8. IsStrictPrefix(f[m], f[n])
    BY <1>1, <1>7
  <1> QED BY <1>3, <1>4, <1>5, <1>8 DEF outer

-----------------------------------------------------------------------------
(* Nothing is lost. *)

\* An object at the limit is among the truncated paths once it has been walked; a finished
\* walk is at its end, and its fields are the paths it has seen.
LimitInv ==
    /\ \A s \in Walked :
          IsObject(Entry(s).value) /\ Depth(Entry(s)) = MaxDepth
              => Path(Entry(s)) \in truncated
    /\ status = "done" => AtEnd /\ DOMAIN fields = Seen

\* No object at the limit is passed in silence.
LEMMA LimitInvariant == Spec => []LimitInv
  <1>1. Init => LimitInv
    <2> SUFFICES ASSUME Init PROVE LimitInv
      OBVIOUS
    <2>1. Walked = {}
      BY DEF Init, Walked, Slots
    <2> QED BY <2>1 DEF Init, LimitInv
  <1>2. TypeOK /\ LimitInv /\ [Next]_vars => LimitInv'
    <2> SUFFICES ASSUME TypeOK, LimitInv, [Next]_vars PROVE LimitInv'
      OBVIOUS
    <2>1. CASE Visit
      <3>1. ~AtEnd /\ docs' = docs /\ next' = next + 1 /\ status' = status
            /\ status = "sampling" /\ truncated' = truncated \cup Cut(Current[next])
        BY <2>1 DEF Visit, Sampling
      <3>2. /\ Entry(Slot) = Current[next] /\ Walked' = Walked \cup {Slot}
            /\ \A s : Entry(s)' = Entry(s)
        BY <3>1, WalkGrows
      <3>3. ASSUME NEW s \in Walked', IsObject(Entry(s).value), Depth(Entry(s)) = MaxDepth
            PROVE  Path(Entry(s)) \in truncated'
        <4>1. CASE s \in Walked
          BY <3>1, <3>3, <4>1 DEF LimitInv
        <4>2. CASE s = Slot
          BY <3>1, <3>2, <3>3, <4>2 DEF Cut
        <4> QED BY <3>2, <4>1, <4>2
      <3> QED BY <3>1, <3>2, <3>3 DEF LimitInv
    <2>2. CASE PassBelow
      <3>1. ~AtEnd /\ docs' = docs /\ next' = next + 1 /\ status' = status
            /\ status = "sampling" /\ truncated' = truncated /\ Depth(Current[next]) > MaxDepth
        BY <2>2 DEF PassBelow, Sampling
      <3>2. /\ Entry(Slot) = Current[next] /\ Walked' = Walked \cup {Slot}
            /\ \A s : Entry(s)' = Entry(s)
        BY <3>1, WalkGrows
      <3>3. Depth(Current[next]) # MaxDepth
        BY <3>1, EntryAtHand, SampleAssumption
      <3> QED BY <3>1, <3>2, <3>3 DEF LimitInv
    <2>3. CASE NextDocument
      <3>1. Walked' = Walked /\ \A s \in Walked : Entry(s)' = Entry(s)
        BY <2>3, WalkStays
      <3>2. truncated' = truncated /\ status' = status /\ status = "sampling"
        BY <2>3 DEF NextDocument, Sampling
      <3> QED BY <3>1, <3>2 DEF LimitInv
    <2>4. CASE RejectSize \/ CursorFails \/ RefuseEmptyPath \/ Finalize
      <3>1. UNCHANGED <<docs, next, stats, truncated>>
        BY <2>4 DEF RejectSize, CursorFails, RefuseEmptyPath, Finalize
      <3>2. /\ Walked' = Walked /\ \A s : Entry(s)' = Entry(s)
            /\ AtEnd' = AtEnd /\ Seen' = Seen
        BY <3>1 DEF Walked, Slots, Entry, AtEnd, Current, Seen
      <3>3. status' = "done" => AtEnd /\ DOMAIN fields' = Seen
        BY <2>4 DEF RejectSize, CursorFails, RefuseEmptyPath, Finalize
      <3> QED BY <3>1, <3>2, <3>3 DEF LimitInv
    <2>5. CASE UNCHANGED vars
      <3>1. UNCHANGED <<docs, next, stats, truncated, status, fields>>
        BY <2>5 DEF vars
      <3>2. /\ Walked' = Walked /\ \A s : Entry(s)' = Entry(s)
            /\ AtEnd' = AtEnd /\ Seen' = Seen
        BY <3>1 DEF Walked, Slots, Entry, AtEnd, Current, Seen
      <3> QED BY <3>1, <3>2 DEF LimitInv
    <2> QED BY <2>1, <2>2, <2>3, <2>4, <2>5 DEF Next
  <1> QED BY <1>1, <1>2, TypeCorrect, PTL DEF Spec

\* No part of a document goes unreported: an entry within the limit has been counted, and
\* one below it is in an object at the limit, which has been cut before.
THEOREM NothingIsLostAlways == Spec => []NothingIsLost
  <1>1. TypeOK /\ CountInv /\ LimitInv => NothingIsLost
    <2> SUFFICES ASSUME TypeOK, CountInv, LimitInv, status = "done", NEW s \in Slots
                 PROVE  \/ Path(Entry(s)) \in DOMAIN fields
                        \/ \E q \in truncated : IsStrictPrefix(q, Path(Entry(s)))
      BY DEF NothingIsLost
    <2>1. AtEnd /\ DOMAIN fields = Seen
      BY DEF LimitInv
    <2>2. Walked = Slots
      BY <2>1, WalkEnds
    <2>3. Entry(s) \in Entries /\ Depth(Entry(s)) \in Nat /\ MaxDepth \in Nat \ {0}
      BY EntriesAre, SampleAssumption DEF Depth
    <2>4. CASE Depth(Entry(s)) <= MaxDepth
      <3> DEFINE p == Path(Entry(s))
      <3>1. p \in Paths /\ s \in MetAt(p)
        BY <2>2, <2>4, EntriesAre DEF MetAt, Met
      <3>2. IsFiniteSet(MetAt(p)) /\ stats[p].present = Cardinality(MetAt(p))
        BY <3>1 DEF CountInv, Exact
      <3>3. Cardinality(MetAt(p)) \in Nat /\ Cardinality(MetAt(p)) # 0
        BY <3>1, <3>2, FS_CardinalityType, FS_EmptySet
      <3> QED BY <2>1, <3>1, <3>2, <3>3 DEF Seen
    <2>5. CASE Depth(Entry(s)) > MaxDepth
      <3> DEFINE d == docs[s[1]]
                 keys == Entry(s).keys
      <3>1. s[1] \in 1..Len(docs) /\ s[2] \in DOMAIN d /\ d \in Documents /\ Entry(s) = d[s[2]]
        BY SlotsAre DEF TypeOK, Entry
      <3>2. MaxDepth \in 1..(Depth(d[s[2]]) - 1)
        BY <2>3, <2>5, <3>1
      <3>3. PICK j \in 1..(s[2] - 1) : /\ d[j].keys = SubSeq(d[s[2]].keys, 1, MaxDepth)
                                       /\ IsObject(d[j].value)
        BY <3>1, <3>2, SampleAssumption
      <3>4. j \in DOMAIN d
        <4>1. d \in Seq(Entries)
          BY <3>1, SampleAssumption
        <4> QED BY <3>1, <4>1
      <3> DEFINE u == <<s[1], j>>
      <3>5. u \in Slots /\ Entry(u) = d[j]
        BY <3>1, <3>4, SlotsAre DEF Entry
      <3>6. keys \in Seq(Key) /\ MaxDepth \in 1..(Len(keys) - 1)
        BY <2>3, <3>1, <3>2, SampleAssumption DEF Depth, Key
      <3>7. Entry(u).keys = SubSeq(keys, 1, MaxDepth) /\ IsObject(Entry(u).value)
        BY <3>1, <3>3, <3>5
      <3> HIDE DEF u, keys, d
      <3>8. Depth(Entry(u)) = MaxDepth
        BY <2>3, <3>6, <3>7, SubSeqProperties DEF Depth
      <3>9. Path(Entry(u)) \in truncated
        BY <2>2, <3>5, <3>7, <3>8 DEF LimitInv
      <3>10. IsStrictPrefix(Path(Entry(u)), Path(Entry(s)))
        BY <3>6, <3>7, PathsNest DEF Path, keys
      <3> QED BY <3>9, <3>10
    <2> QED BY <2>3, <2>4, <2>5
  <1> QED BY <1>1, TypeCorrect, CountingInvariant, LimitInvariant, PTL
=============================================================================
