-------------------------- MODULE MCTranscoderBank --------------------------
(***************************************************************************)
(* Two layers are enough for a boundary between layers, with one on either *)
(* side of it.                                                             *)
(***************************************************************************)
EXTENDS TranscoderBank

CONSTANTS external, core, publisher, stage

=============================================================================
