----------------------------- MODULE MCSchemaSample -----------------------------
(***************************************************************************)
(* SchemaSample over ten documents: one value of each kind the code tells   *)
(* apart, objects up to and beyond the depth limit, and keys with dots or   *)
(* without a character.                                                     *)
(***************************************************************************)
EXTENDS SchemaSample, TLC

Scalar(type, is) == [type |-> type, is |-> is, hashable |-> TRUE]
Opaque(type, is) == [type |-> type, is |-> is, hashable |-> FALSE]

Null == Scalar("null", "None")
\* 1 == True, and their hashes agree.
One == Scalar("int", "1")
True == Scalar("bool", "1")
X == Scalar("str", "x")
Y == Scalar("str", "y")
Numbers == Opaque("array<int>", "[1]")
Object(is) == Opaque("object", is)

A == <<"a">>
B == <<"b">>
C == <<"c">>
At(keys, value) == [keys |-> keys, value |-> value]

MCDocuments == {
    <<>>,
    <<At(<<A>>, One)>>,
    <<At(<<A>>, True)>>,
    <<At(<<A>>, Null)>>,
    <<At(<<A>>, X)>>,
    <<At(<<A>>, Y), At(<<B>>, X)>>,
    <<At(<<A>>, Numbers)>>,
    \* {"a": {"b": 1}, "a.b": null}
    <<At(<<A>>, Object("{b}")), At(<<A, B>>, One), At(<<<<"a", "b">>>>, Null)>>,
    \* {"a": {"b": {"c": 1}}}
    <<At(<<A>>, Object("{{c}}")), At(<<A, B>>, Object("{c}")), At(<<A, B, C>>, One)>>,
    \* {"a": 1, "": 1}
    <<At(<<A>>, One), At(<<EmptyPath>>, One)>>}

MCEntries == UNION {{d[i] : i \in DOMAIN d} : d \in MCDocuments}
=============================================================================
