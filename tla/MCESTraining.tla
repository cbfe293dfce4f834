---------------------------- MODULE MCESTraining ----------------------------
(***************************************************************************)
(* Rewards below and above zero: a development score that is negative must *)
(* still be selected when it is the best.                                  *)
(***************************************************************************)
EXTENDS ESTraining

MCFitness == {-1, 1}

=============================================================================
