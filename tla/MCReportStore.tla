---------------------------- MODULE MCReportStore ----------------------------
(***************************************************************************)
(* ReportStore with one report of two findings.                             *)
(***************************************************************************)
EXTENDS ReportStore, TLC

CONSTANTS c1, c2, r1, f1, f2

OneReportOf == (f1 :> r1) @@ (f2 :> r1)
=============================================================================
