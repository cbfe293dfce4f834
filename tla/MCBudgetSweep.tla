--------------------------- MODULE MCBudgetSweep ---------------------------
(***************************************************************************)
(* Small instances of BudgetSweep: two actors with different preferred     *)
(* methods, and jobs of both budgets and both methods.                     *)
(***************************************************************************)
EXTENDS BudgetSweep, TLC

CONSTANTS a1, a2, j1, j2, j3, baseline, graph_risk, g1, g2

\* Two B30 jobs of different methods and one B50 job.
MCJobBudget == (j1 :> 30) @@ (j2 :> 30) @@ (j3 :> 50)
MCJobMethod == (j1 :> baseline) @@ (j2 :> graph_risk) @@ (j3 :> baseline)
MCInitialMethod == (a1 :> baseline) @@ (a2 :> graph_risk)

\* Each actor on its own GPU, or both on one.
MCOwnGpu == (a1 :> g1) @@ (a2 :> g2)
MCSharedGpu == (a1 :> g1) @@ (a2 :> g1)

=============================================================================
