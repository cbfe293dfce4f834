---------------------------- MODULE ProjectFiles ----------------------------
(***************************************************************************)
(* The files a process of the study reads while somebody may still be      *)
(* editing them: paths that name inodes, inodes that hold blocks, and the  *)
(* change time the kernel keeps of an inode.  External to the code, which  *)
(* sees it through open, read, stat and rename.                            *)
(*                                                                         *)
(* The change time has the granularity of a clock tick, so that two writes *)
(* of one tick leave the same stat.  The modification time, which a writer *)
(* may restore, is taken to say nothing.  An edit never brings an earlier  *)
(* content of a block back.                                                *)
(***************************************************************************)
EXTENDS Integers, FiniteSets

CONSTANTS
    Files,      \* the paths
    Blocks,     \* the blocks of a file, 1 .. n, each read in one piece
    MaxEdits,   \* bound: edits of all files
    MaxTicks    \* bound: ticks of the clock

ASSUME FilesAssumption ==
    /\ IsFiniteSet(Files) /\ Files # {}
    /\ \A f \in Files : f \notin Nat   \* the first inode of a file, later ones are numbers
    /\ Blocks \in Nat \ {0} /\ MaxEdits \in Nat /\ MaxTicks \in Nat

VARIABLES
    path,    \* path[f]: the inode f names
    data,    \* data[i][b]: the version of a block of inode i
    stamp,   \* stamp[i]: st_ctime_ns of inode i
    now,     \* the clock, in ticks
    edits    \* edits made so far

files == <<path, data, stamp, now, edits>>

Inodes == Files \cup 1 .. MaxEdits
Bodies == [1 .. Blocks -> 0 .. MaxEdits]

FilesInit ==
    /\ path = [f \in Files |-> f]
    /\ data = [i \in Inodes |-> [b \in 1 .. Blocks |-> 0]]
    /\ stamp = [i \in Inodes |-> 0]
    /\ now = 0 /\ edits = 0

Body(f) == data[path[f]]
Project == [f \in Files |-> Body(f)]

\* The stat of an open file, and of a path; restoring st_mtime_ns changes neither.
Stat(i) == <<i, stamp[i]>>
PathStat(f) == Stat(path[f])

\* A write of one block in place.
Edit(f, b) ==
    /\ edits < MaxEdits
    /\ data' = [data EXCEPT ![path[f]][b] = edits + 1]
    /\ stamp' = [stamp EXCEPT ![path[f]] = now]
    /\ edits' = edits + 1
    /\ UNCHANGED <<path, now>>

\* A new file written beside the old one and renamed over it.
Replace(f) ==
    /\ edits < MaxEdits
    /\ path' = [path EXCEPT ![f] = edits + 1]
    /\ data' = [data EXCEPT ![edits + 1] = [b \in 1 .. Blocks |-> edits + 1]]
    /\ stamp' = [stamp EXCEPT ![edits + 1] = now]
    /\ edits' = edits + 1
    /\ UNCHANGED now

Tick ==
    /\ now < MaxTicks
    /\ now' = now + 1
    /\ UNCHANGED <<path, data, stamp, edits>>

Environment == Tick \/ \E f \in Files : Replace(f) \/ \E b \in 1 .. Blocks : Edit(f, b)

=============================================================================
