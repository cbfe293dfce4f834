----------------------------- MODULE MCEpisode -----------------------------
(***************************************************************************)
(* A MADE episode of two oracle attempts or a CrystalGym session of two    *)
(* crystals with two sites each; two decisions before the recovery.        *)
(***************************************************************************)
EXTENDS Episode, TLC

CONSTANT c1

=============================================================================
