---------------------------- MODULE LockedStage ----------------------------
(***************************************************************************)
(* run_locked_stage.py: stages take, or find, an immutable snapshot of the *)
(* project's source under the name of its fingerprint and execute from it. *)
(* Several may be launched at once, may die at any point, and the source   *)
(* may be edited meanwhile.                                                *)
(*                                                                         *)
(* The fingerprint is injective: it stands for the contents of all files.  *)
(* A source file is read and copied in one piece.  The set of files is     *)
(* fixed, nobody alters a snapshot, and the checks of the arguments, which *)
(* change nothing, are left out.                                           *)
(***************************************************************************)
EXTENDS ProjectFiles, Sequences

CONSTANTS
    Stages,      \* stage processes
    Sorted,      \* the files in the order of their names
    MaxLaunches  \* bound: launches of all stages

ASSUME StageAssumption ==
    /\ Sorted \in Seq(Files)
    /\ \A f \in Files : \E n \in 1 .. Len(Sorted) : Sorted[n] = f
    /\ \A m, n \in 1 .. Len(Sorted) : Sorted[m] = Sorted[n] => m = n
    /\ MaxLaunches \in Nat

VARIABLES
    at,         \* at[p]: where stage p stands
    next,       \* next[p]: the file it hashes or copies next
    named,      \* named[p]: hashes, and with it the name of its destination
    partial,    \* partial[p]: the copies in its .stage-partial directory
    frozen,     \* the snapshots: fingerprint to contents
    launches,   \* launches so far
    was,        \* history: the contents the whole project has had
    disturbed   \* history: an edit, or the snapshot another stage made, met p at work

stage(p) == <<at[p], next[p], named[p], partial[p]>>
locked == <<at, next, named, partial, frozen, launches, was, disturbed>>

Ended == {"out", "started", "raised", "dead"}
EmptyTree == [f \in Files |-> [b \in 1 .. Blocks |-> 0]]

StagesInit ==
    /\ at = [p \in Stages |-> "out"] /\ next = [p \in Stages |-> 1]
    /\ named = [p \in Stages |-> EmptyTree] /\ partial = [p \in Stages |-> EmptyTree]
    /\ frozen = [d \in {} |-> EmptyTree]
    /\ launches = 0 /\ was = {Project} /\ disturbed = [p \in Stages |-> FALSE]

Last(p) == next[p] = Len(Sorted)
File(p) == Sorted[next[p]]
Advance(p, here, there) ==
    /\ at' = [at EXCEPT ![p] = IF Last(p) THEN there ELSE here]
    /\ next' = [next EXCEPT ![p] = IF Last(p) THEN 1 ELSE @ + 1]

Goto(p, there) == at' = [at EXCEPT ![p] = there] /\ next' = [next EXCEPT ![p] = 1]

Launch(p) ==
    /\ at[p] \in Ended /\ launches < MaxLaunches
    /\ Goto(p, "hash") /\ launches' = launches + 1
    /\ named' = [named EXCEPT ![p] = EmptyTree]
    /\ partial' = [partial EXCEPT ![p] = EmptyTree]
    /\ disturbed' = [disturbed EXCEPT ![p] = FALSE]
    /\ UNCHANGED <<frozen, was, files>>

HashFile(p) ==
    /\ at[p] = "hash"
    /\ named' = [named EXCEPT ![p][File(p)] = Body(File(p))]
    /\ Advance(p, "hash", "look")
    /\ UNCHANGED <<partial, frozen, launches, was, disturbed, files>>

Exists_Unseen(p) == FALSE
Exists(p) == named[p] \in DOMAIN frozen

LookForSnapshot(p) ==
    /\ at[p] = "look"
    /\ Goto(p, IF Exists(p) THEN "verify" ELSE "copy")
    /\ UNCHANGED <<named, partial, frozen, launches, was, disturbed, files>>

CopyFile(p) ==
    /\ at[p] = "copy"
    /\ partial' = [partial EXCEPT ![p][File(p)] = Body(File(p))]
    /\ at' = [at EXCEPT ![p] = "compare"]
    /\ UNCHANGED <<next, named, frozen, launches, was, disturbed, files>>

\* Faulty: neither is compared.
AsHashed_Trusted(p, f) == TRUE

\* Of the copy and of the original, each hashed again.
AsHashed(p, f) == partial[p][f] = named[p][f] /\ Body(f) = named[p][f]

CompareFile(p) ==
    /\ at[p] = "compare"
    /\ IF AsHashed(p, File(p)) THEN Advance(p, "copy", "freeze") ELSE Goto(p, "raised")
    /\ UNCHANGED <<named, partial, frozen, launches, was, disturbed, files>>

\* The rename that publishes the directory fails when another stage has
\* renamed its own there, for that one is not empty.
Freeze(p) ==
    /\ at[p] = "freeze"
    /\ IF named[p] \in DOMAIN frozen
       THEN Goto(p, "raised") /\ UNCHANGED <<frozen, disturbed>>
       ELSE /\ Goto(p, "verify")
            /\ frozen' = [d \in DOMAIN frozen \cup {named[p]} |->
                            IF d = named[p] THEN partial[p] ELSE frozen[d]]
            /\ disturbed' = [q \in Stages |-> disturbed[q] \/
                    (q # p /\ at[q] \in {"copy", "compare", "freeze"} /\ named[q] = named[p])]
    /\ UNCHANGED <<named, partial, launches, was, files>>

VerifySnapshot(p) ==
    /\ at[p] = "verify"
    /\ Goto(p, IF frozen[named[p]] = named[p] THEN "started" ELSE "raised")
    /\ UNCHANGED <<named, partial, frozen, launches, was, disturbed, files>>

Die(p) ==
    /\ at[p] \notin Ended
    /\ Goto(p, "dead")
    /\ UNCHANGED <<named, partial, frozen, launches, was, disturbed, files>>

StageStep(p) ==
    \/ HashFile(p) \/ LookForSnapshot(p) \/ CopyFile(p)
    \/ CompareFile(p) \/ Freeze(p) \/ VerifySnapshot(p)

\* The histories, next to a step of the environment.
Record ==
    /\ was' = was \cup {Project'}
    /\ disturbed' = [p \in Stages |-> disturbed[p] \/ (edits' # edits /\ at[p] \notin Ended)]

---------------------------------------------------------------------------

\* A published snapshot holds what its name says, and the project as a whole
\* once was like that: not one file from before and another from after an edit.
SnapshotIsSource == \A d \in DOMAIN frozen : frozen[d] = d /\ d \in was

\* Remains of dead stages and snapshots made earlier never keep a stage from
\* starting: only an edit, another stage taking the same snapshot at the same
\* time, or its own death does.
UndisturbedStageStarts ==
    \A p \in Stages : at[p] = "hash" ~> at[p] \in {"started", "dead"} \/ disturbed[p]

=============================================================================
