---------------------------- MODULE AuditContract ----------------------------
(***************************************************************************)
(* What a caller of ArgusAgent.run can count on, whatever the planner and   *)
(* the evaluators do: every change of the ledger of findings is paid for by *)
(* one iteration of the budget, an iteration pays for one change at most,   *)
(* nothing leaves the ledger or the list of dismissed findings, and once    *)
(* the run is over nothing changes any more.                                *)
(***************************************************************************)
EXTENDS Naturals, FiniteSets

CONSTANTS Keys,     \* (field, category) pairs
          Budget    \* iterations a run may spend

VARIABLES phase,        \* "running", "reported" or "lost"
          spent,        \* iterations begun
          credit,       \* whether the current iteration has yet to take effect
          ledger,       \* keys of the committed findings
          dismissals    \* number of dismissed findings

contractVars == <<phase, spent, credit, ledger, dismissals>>

CInit == /\ phase = "running" /\ spent = 0 /\ credit = FALSE
         /\ ledger = {} /\ dismissals = 0

Begin == /\ phase = "running" /\ ~credit /\ spent < Budget
         /\ spent' = spent + 1 /\ credit' = TRUE
         /\ UNCHANGED <<phase, ledger, dismissals>>

\* The iteration ends: without effect, committing one key, or dismissing one finding.
Spend == /\ phase = "running" /\ credit
         /\ credit' = FALSE
         /\ \/ UNCHANGED <<ledger, dismissals>>
            \/ \E k \in Keys : ledger' = ledger \cup {k} /\ UNCHANGED dismissals
            \/ dismissals' = dismissals + 1 /\ UNCHANGED ledger
         /\ UNCHANGED <<phase, spent>>

\* The run closes with a report, from a conclusion or with the budget spent.
Report == /\ phase = "running" /\ (credit \/ spent = Budget)
          /\ phase' = "reported" /\ credit' = FALSE
          /\ UNCHANGED <<spent, ledger, dismissals>>

\* An exception leaves run(): there is no report, and the iteration the planner was
\* to be asked in is spent.
Lose == /\ phase = "running"
        /\ phase' = "lost" /\ credit' = FALSE
        /\ \/ UNCHANGED spent
           \/ ~credit /\ spent < Budget /\ spent' = spent + 1
        /\ UNCHANGED <<ledger, dismissals>>

CNext == Begin \/ Spend \/ Report \/ Lose

CSpec == CInit /\ [][CNext]_contractVars

\* No more findings, committed or dismissed, than iterations that ended.
EffectsArePaid == Cardinality(ledger) + dismissals <= spent
=============================================================================
