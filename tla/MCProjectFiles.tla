--------------------------- MODULE MCProjectFiles ---------------------------
(***************************************************************************)
(* Two files, for an audit or for two stages.                              *)
(***************************************************************************)
EXTENDS ProjectReaders

CONSTANTS f1, f2

MCSorted == <<f1, f2>>

=============================================================================
