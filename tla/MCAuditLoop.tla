----------------------------- MODULE MCAuditLoop -----------------------------
(***************************************************************************)
(* AuditLoop on a small instance: two fields of which the sampled schema    *)
(* holds both or neither, one category, and proposals that hit every rule   *)
(* and every error path at least once.                                      *)
(***************************************************************************)
EXTENDS AuditLoop

MCFields == {"age", "email"}
MCCategories == {"null_rate"}
MCFilters == {"{}", "{age: null}"}
MCFilterFields == [f \in MCFilters |-> IF f = "{}" THEN {} ELSE {"age"}]
MCSchemaResults == {[fields |-> {}, docs |-> 0], [fields |-> MCFields, docs |-> 2000]}
\* The rules already produce every WARN; the loop treats one like a PASS.
MCLLMResults == {[verdict |-> "pass", score |-> 10], [verdict |-> "fail", score |-> 5]}

Good == [tool |-> "write_finding", wellFormed |-> TRUE, field |-> "age",
         category |-> "null_rate", severity |-> "critical", affected |-> 4000,
         givesPct |-> FALSE, pct |-> 0, hasQuery |-> TRUE, hasHypothesis |-> TRUE,
         description |-> "full"]

\* CRITICAL with no evidence, a doubtful HIGH, and an input with keys missing.
Unsupported == [Good EXCEPT !.affected = 0, !.hasQuery = FALSE]
Doubtful == [Good EXCEPT !.field = "email", !.severity = "high", !.givesPct = TRUE,
                         !.pct = -5, !.hasHypothesis = FALSE]
Incomplete == [Good EXCEPT !.wellFormed = FALSE, !.field = "", !.severity = "other"]

Query(filter, ok) == [tool |-> "run_query", wellFormed |-> ok, filter |-> filter]
Stats(field, ok) ==
    [tool |-> "get_stats", wellFormed |-> ok, hashable |-> TRUE, field |-> field]

Unhashable == [Stats("age", FALSE) EXCEPT !.hashable = FALSE]

MCProposals ==
    { Good, Unsupported, Doubtful, Incomplete, [tool |-> "schema_sample"], [tool |-> "conclude"],
      Query("{age: null}", TRUE), Query("{}", FALSE), Stats("email", TRUE),
      Stats("age", FALSE), Unhashable }

FastProfile == [action |-> "rules", finding |-> "rules", run |-> "rules",
                hasJudge |-> FALSE, rejectedPolicy |-> "log_only",
                runFailPolicy |-> "continue"]
BalancedProfile == [FastProfile EXCEPT !.finding = "composite", !.run = "self"]
ThoroughProfile == [FastProfile EXCEPT !.finding = "composite", !.run = "judge",
                                       !.hasJudge = TRUE]

\* The three profiles of models/config.py, and the options they leave at their default.
MCConfigs ==
    { FastProfile,
      [BalancedProfile EXCEPT !.rejectedPolicy = "demote_severity"],
      [ThoroughProfile EXCEPT !.rejectedPolicy = "drop", !.runFailPolicy = "abort"],
      [FastProfile EXCEPT !.action = "composite", !.finding = "self", !.run = "composite",
                          !.hasJudge = TRUE],
      [FastProfile EXCEPT !.action = "none", !.finding = "none", !.run = "none",
                          !.runFailPolicy = "warn_only"] }

\* One configuration each, and only the proposals that matter, for the runs that
\* follow a single statement of the documentation.
DefaultConfigs == { FastProfile }
DemotingConfigs == { [FastProfile EXCEPT !.rejectedPolicy = "demote_severity"] }
DroppingConfigs == { [FastProfile EXCEPT !.rejectedPolicy = "drop"] }
FewProposals == { Good, Unsupported, [tool |-> "schema_sample"] }
=============================================================================
