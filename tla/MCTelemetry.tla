------------------------------ MODULE MCTelemetry ------------------------------
(***************************************************************************)
(* Telemetry with two runs, one after the other or at a time, under two     *)
(* lists of observers: without gates, with those of PROFILE_BALANCED, and   *)
(* with a run gate of rules, self and judge.                                *)
(***************************************************************************)
EXTENDS Telemetry, TLC

CONSTANTS r1, r2

MCBudget == r1 :> 2 @@ r2 :> 1
MCGates == {[action |-> FALSE, finding |-> {}, run |-> {}],
            [action |-> TRUE, finding |-> {0, 1}, run |-> {1}],
            [action |-> FALSE, finding |-> {}, run |-> 0..2]}
MCLists == {<<"broken", "cost", "log">>, <<"log", "cost">>}
=============================================================================
