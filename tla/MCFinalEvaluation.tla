------------------------- MODULE MCFinalEvaluation -------------------------
(***************************************************************************)
(* Two jobs, scheduled one by one or together.                             *)
(***************************************************************************)
EXTENDS FinalEvaluation

CONSTANTS j1, j2

MCBatches == {{j1}, {j2}, {j1, j2}}

=============================================================================
