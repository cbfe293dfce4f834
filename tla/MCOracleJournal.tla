-------------------------- MODULE MCOracleJournal --------------------------
(***************************************************************************)
(* mace with two threads and a batch of three structures has unequal       *)
(* chunks; orb has one thread.  The second batch follows a finished or     *)
(* raised first one.                                                       *)
(***************************************************************************)
EXTENDS OracleJournal, TLC

CONSTANTS mace, orb

MCWorkers == (mace :> 2) @@ (orb :> 1)
MCWork == <<{<<mace, 3>>}, {<<orb, 1>>}>>

=============================================================================
