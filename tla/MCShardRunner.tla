--------------------------- MODULE MCShardRunner ---------------------------
(***************************************************************************)
(* Two workers.  The core study has the jobs j1, j2, j3 in one output; the *)
(* sharded study has j1 and j2 in s1 and j3 in s2.                         *)
(***************************************************************************)
EXTENDS ShardRunner, TLC

CONSTANTS j1, j2, j3, s1, s2, w1, w2

MCCoreOrder == <<j1, j2, j3>>
MCShardOrder == s1 :> <<j1, j2>> @@ s2 :> <<j3>>

=============================================================================
