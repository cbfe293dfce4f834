--------------------------- MODULE ProjectReaders ---------------------------
(***************************************************************************)
(* The two readers of the project's files next to the same editor: an      *)
(* audit with the hash cache and stages that take snapshots.  They share   *)
(* nothing but the files they read, so a behaviour has one kind of them;   *)
(* time matters to the audit only.                                         *)
(***************************************************************************)
EXTENDS HashCache, LockedStage

VARIABLE readers   \* who reads: "audit" or "stages"

vars == <<files, audit, locked, readers>>

Init == FilesInit /\ AuditInit /\ StagesInit /\ readers \in {"audit", "stages"}

AuditStep == readers = "audit" /\ Hash /\ UNCHANGED <<locked, readers>>

AStageStep(p) == readers = "stages" /\ StageStep(p) /\ UNCHANGED <<audit, readers>>

AStageLaunch(p) == readers = "stages" /\ Launch(p) /\ UNCHANGED <<audit, readers>>

AStageDies(p) == readers = "stages" /\ Die(p) /\ UNCHANGED <<audit, readers>>

EditorBesideAudit ==
    /\ readers = "audit"
    /\ Environment /\ Witness
    /\ UNCHANGED <<hashing, locals, digests, hashes, answer, locked, readers>>

\* A stage reads a whole file, so a write in place is to it a replacement.
EditorBesideStages ==
    /\ readers = "stages"
    /\ \E f \in Files : Replace(f)
    /\ Record
    /\ UNCHANGED <<audit, at, next, named, partial, frozen, launches, readers>>

Next ==
    \/ AuditStep \/ EditorBesideAudit \/ EditorBesideStages
    \/ \E p \in Stages : AStageLaunch(p) \/ AStageStep(p) \/ AStageDies(p)

Spec == Init /\ [][Next]_vars

FairSpec == Spec /\ \A p \in Stages : WF_vars(AStageStep(p))

=============================================================================
