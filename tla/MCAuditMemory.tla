----------------------------- MODULE MCAuditMemory -----------------------------
(***************************************************************************)
(* AuditMemory with three audits of one collection, a window of one run, and  *)
(* findings that come, go, get worse and are dismissed.                     *)
(***************************************************************************)
EXTENDS AuditMemory, TLC

MCPatterns == {"age/null_rate", "age/outlier", "email/null_rate"}
MCFieldOf == [p \in MCPatterns |-> IF p = "email/null_rate" THEN "email" ELSE "age"]

Low == [severity |-> "low", pct |-> 10]
Worse == [severity |-> "low", pct |-> 16]

Content(committed, dismissed) == [committed |-> committed, dismissed |-> dismissed]

\* Two audits that differ in every way diff_against tells apart: one finding of each is
\* missing from the other, one has grown, and one is dismissed by the first only.
MCContents ==
    { Content([p \in {"age/null_rate", "age/outlier"} |-> Low], {"email/null_rate"}),
      Content([p \in {"age/outlier", "email/null_rate"} |-> Worse], {}) }

CONSTANTS s1, s2, s3

\* The sessions are interchangeable.
SessionSymmetry == Permutations({s1, s2, s3})
=============================================================================
