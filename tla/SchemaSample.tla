------------------------------ MODULE SchemaSample ------------------------------
(***************************************************************************)
(* schema_sample (tools/schema_sample.py): the walk over sampled documents  *)
(* that counts, per flattened path, what the planner later audits.          *)
(*                                                                          *)
(* A document is the sequence of its entries in the order _walk_document    *)
(* meets them, an object before what is in it.  An entry has the keys that  *)
(* lead to it and its value.  Splitting a key at its dots makes it a        *)
(* sequence of segments; joining keys with dots is then concatenation, so   *)
(* that {"a.b": 1} and {"a": {"b": 1}} have one path, as in the code.       *)
(*                                                                          *)
(* A value has the type _type_name and _array_element_type give it, a class *)
(* of Python's == and hash (True and 1 are in one), and may be unhashable.  *)
(***************************************************************************)
EXTENDS Integers, Sequences, SequencesExt, FiniteSets

CONSTANTS
    Entries,
    Documents,          \* what the collection may hold
    SampleSizes,        \* sample_size
    MaxDepth,           \* _MAX_DEPTH
    CardinalityCap,     \* _CARDINALITY_CAP
    SampleCap           \* _SAMPLE_VALUES_PER_FIELD

\* path = f"{parent_path}.{key}" along the keys of an entry.
Path(e) == FlattenSeq(e.keys)
Depth(e) == Len(e.keys)

Paths == {Path(e) : e \in Entries}
Values == {e.value : e \in Entries}
Types == {v.type : v \in Values}
Classes == {v.is : v \in Values}

IsNull(v) == v.type = "null"
IsObject(v) == v.type = "object"
EmptyPath == <<"">>

\* Among the rest: no key is without a segment, and before what is in an object, at any
\* depth, a document has the object.
ASSUME SampleAssumption ==
    /\ Documents \subseteq Seq(Entries)
    /\ \A e \in Entries : e.keys \in Seq(Seq(STRING) \ {<<>>})
    /\ \A d \in Documents : \A i \in DOMAIN d : \A n \in 1..(Depth(d[i]) - 1) :
          \E j \in 1..(i - 1) : /\ d[j].keys = SubSeq(d[i].keys, 1, n)
                                /\ IsObject(d[j].value)
    /\ SampleSizes \subseteq Int
    /\ MaxDepth \in Nat \ {0} /\ CardinalityCap \in Nat \ {0} /\ SampleCap \in Nat
    /\ \A v \in Values : v = [type |-> v.type, is |-> v.is, hashable |-> v.hashable]
    /\ \A v \in Values : v.hashable \in BOOLEAN

VARIABLES
    size,       \* the sample_size asked for
    docs,       \* the documents the cursor has yielded
    next,       \* the entry of the last one the walk is at
    stats,      \* _StatsAccumulator, per path
    truncated,
    status,     \* "sampling", "done" or "raised"
    fields      \* FieldStats.missing_count and .cardinality, once finalized

vars == <<size, docs, next, stats, truncated, status, fields>>

NoStats == [present |-> 0, null |-> 0, types |-> [t \in Types |-> 0],
            distinct |-> {}, capped |-> FALSE, samples |-> <<>>]

Init ==
    /\ size \in SampleSizes
    /\ docs = <<>>
    /\ next = 1
    /\ stats = [p \in Paths |-> NoStats]
    /\ truncated = {}
    /\ status = "sampling"
    /\ fields = [p \in {} |-> 0]

-----------------------------------------------------------------------------
(* _StatsAccumulator. *)

\* Mutant of Counted: a null returns before it is counted as present.
CountedUnlessNull(s, v) ==
    IF IsNull(v) THEN [s EXCEPT !.null = @ + 1]
    ELSE [s EXCEPT !.present = @ + 1, !.types = [s.types EXCEPT ![v.type] = @ + 1]]

\* The count of a value: present, its type, and null.
Counted(s, v) ==
    [s EXCEPT !.present = @ + 1, !.types = [s.types EXCEPT ![v.type] = @ + 1],
              !.null = IF IsNull(v) THEN @ + 1 ELSE @]

\* Mutant of Distinct: the cap is off by one.
DistinctOneMore(s, v) ==
    IF v.hashable /\ Cardinality(s.distinct) <= CardinalityCap THEN s.distinct \cup {v.is}
    ELSE s.distinct

\* The set of distinct values, which unhashable ones do not enter, up to the cap ...
Distinct(s, v) ==
    IF v.hashable /\ Cardinality(s.distinct) < CardinalityCap THEN s.distinct \cup {v.is}
    ELSE s.distinct

\* ... and whether the cap has turned a value away, a known one included.
Capped(s, v) == s.capped \/ (v.hashable /\ Cardinality(s.distinct) >= CardinalityCap)

Sampled(s) == {s.samples[i].is : i \in DOMAIN s.samples}

\* Mutant of Samples: values already sampled are sampled again.
SamplesWithRepeats(s, v) ==
    IF Len(s.samples) < SampleCap THEN Append(s.samples, v) ELSE s.samples

\* The first SampleCap values that differ by ==.
Samples(s, v) ==
    IF Len(s.samples) < SampleCap /\ v.is \notin Sampled(s) THEN Append(s.samples, v)
    ELSE s.samples

\* record_present.
Recorded(s, v) ==
    IF IsNull(v) THEN Counted(s, v)
    ELSE [Counted(s, v) EXCEPT !.distinct = Distinct(s, v), !.capped = Capped(s, v),
                               !.samples = Samples(s, v)]

Seen == {p \in Paths : stats[p].present > 0}

\* Mutant of Missing: nulls are missing as well.
MissingOrNull(p) == Len(docs) - stats[p].present + stats[p].null

\* missing_count, a plain subtraction.
Missing(p) == Len(docs) - stats[p].present

-----------------------------------------------------------------------------
(* schema_sample. *)

Sampling == status = "sampling" /\ size > 0

\* sample_size <= 0 is a ValueError.
RejectSize ==
    /\ status = "sampling" /\ size <= 0
    /\ status' = "raised"
    /\ UNCHANGED <<size, docs, next, stats, truncated, fields>>

\* The document the walk is in.
Current == IF docs = <<>> THEN <<>> ELSE Last(docs)
AtEnd == next > Len(Current)

\* Mutant of WantsMore: one document too many.
WantsOneMore == Len(docs) <= size

\* {"$sample": {"size": sample_size}}.
WantsMore == Len(docs) < size

\* $sample yields any documents of the collection, one of them twice included.
NextDocument ==
    /\ Sampling /\ AtEnd /\ WantsMore
    /\ \E d \in Documents : docs' = Append(docs, d)
    /\ next' = 1
    /\ UNCHANGED <<size, stats, truncated, status, fields>>

\* The cursor raises, and so does the call.
CursorFails ==
    /\ Sampling /\ AtEnd
    /\ status' = "raised"
    /\ UNCHANGED <<size, docs, next, stats, truncated, fields>>

\* Mutant of Cut: the object at the limit is not noted.
CutSilently(e) == {}

\* An object at the limit is recorded and not entered.
Cut(e) == IF IsObject(e.value) /\ Depth(e) = MaxDepth THEN {Path(e)} ELSE {}

\* _walk_document at an entry within the limit.
Visit ==
    /\ Sampling /\ ~AtEnd
    /\ LET e == Current[next]
       IN /\ Depth(e) <= MaxDepth /\ Path(e) # EmptyPath
          /\ stats' = [stats EXCEPT ![Path(e)] = Recorded(@, e.value)]
          /\ truncated' = truncated \cup Cut(e)
    /\ next' = next + 1
    /\ UNCHANGED <<size, docs, status, fields>>

\* What is in an object at the limit is not met.
PassBelow ==
    /\ Sampling /\ ~AtEnd
    /\ Depth(Current[next]) > MaxDepth
    /\ next' = next + 1
    /\ UNCHANGED <<size, docs, stats, truncated, status, fields>>

\* FieldStats(path="") is a ValidationError: one empty top-level key fails the call.
RefuseEmptyPath ==
    /\ Sampling /\ ~AtEnd
    /\ Path(Current[next]) = EmptyPath
    /\ status' = "raised"
    /\ UNCHANGED <<size, docs, next, stats, truncated, fields>>

\* The cursor is exhausted: finalize.
Finalize ==
    /\ Sampling /\ AtEnd
    /\ status' = "done"
    /\ fields' = [p \in Seen |-> [missing |-> Missing(p),
                                  cardinality |-> Cardinality(stats[p].distinct)]]
    /\ UNCHANGED <<size, docs, next, stats, truncated>>

Next == \/ RejectSize \/ NextDocument \/ CursorFails \/ Visit \/ PassBelow
        \/ RefuseEmptyPath \/ Finalize

Spec == Init /\ [][Next]_vars

-----------------------------------------------------------------------------

Stats == [present : Nat, null : Nat, types : [Types -> Nat], distinct : SUBSET Classes,
          capped : BOOLEAN, samples : Seq(Values)]

\* What the variables hold, and that no walk reads past its document.
TypeOK ==
    /\ size \in SampleSizes
    /\ docs \in Seq(Documents) /\ (docs # <<>> => size > 0 /\ Len(docs) <= size)
    /\ next \in 1..(Len(Current) + 1)
    /\ stats \in [Paths -> Stats]
    /\ truncated \subseteq Paths
    /\ status \in {"sampling", "done", "raised"}

(* The entries met so far, without the help of the accumulator. *)
Slots == UNION {{d} \X DOMAIN docs[d] : d \in DOMAIN docs}
Entry(s) == docs[s[1]][s[2]]
Walked == {s \in Slots : s[1] < Len(docs) \/ s[2] < next}
Met == {s \in Walked : Depth(Entry(s)) <= MaxDepth}
MetAt(p) == {s \in Met : Path(Entry(s)) = p}

\* Every count a finding can rest on is the number of entries it stands for: under any
\* order of documents and types, each entry is counted once, under one type.
CountsAreExact ==
    \A p \in Paths :
        /\ stats[p].present = Cardinality(MetAt(p))
        /\ stats[p].null = Cardinality({s \in MetAt(p) : IsNull(Entry(s).value)})
        /\ \A t \in Types :
              stats[p].types[t] = Cardinality({s \in MetAt(p) : Entry(s).value.type = t})

OncePerDocument(p) == \A s, u \in MetAt(p) : s[1] = u[1] => s = u

\* The missing count of a path no document spells in two ways is the number of sampled
\* documents without it, those from before the path first came up included.
MissingAreAbsent ==
    \A p \in DOMAIN fields :
        OncePerDocument(p) =>
            fields[p].missing
              = Cardinality({d \in 1..Len(docs) : \A s \in MetAt(p) : s[1] # d})

ValuesAt(p) == {Entry(s).value : s \in {u \in MetAt(p) : ~IsNull(Entry(u).value)}}
ClassesAt(p) == {v.is : v \in {w \in ValuesAt(p) : w.hashable}}

\* The cardinality of a finished sample is the number of distinct hashable values up to
\* the cap, and a number that falls short of it is flagged.
CardinalityIsExact ==
    \A p \in DOMAIN fields :
        LET n == Cardinality(ClassesAt(p))
        IN /\ fields[p].cardinality = IF n < CardinalityCap THEN n ELSE CardinalityCap
           /\ n > CardinalityCap => stats[p].capped
           /\ stats[p].capped => n >= CardinalityCap

\* The sample values of a path are as many different ones of its values as there are, or
\* as there is room for.
SamplesAreDistinct ==
    \A p \in Paths :
        LET n == Cardinality({v.is : v \in ValuesAt(p)})
        IN /\ Sampled(stats[p]) \subseteq {v.is : v \in ValuesAt(p)}
           /\ Cardinality(Sampled(stats[p])) = Len(stats[p].samples)
           /\ Len(stats[p].samples) = IF n < SampleCap THEN n ELSE SampleCap

\* No part of a document goes unreported: every entry is counted under its path, or is
\* in an object that truncated_paths names.
NothingIsLost ==
    status = "done" =>
        \A s \in Slots :
            \/ Path(Entry(s)) \in DOMAIN fields
            \/ \E q \in truncated : IsStrictPrefix(q, Path(Entry(s)))
=============================================================================
