----------------------------- MODULE HashCache -----------------------------
(***************************************************************************)
(* maybe_cached_file_sha256 of immutable_hash_cache.py: one audit hashes   *)
(* the project's files again and again and reuses the digest of a file     *)
(* whose stat has not changed, while the files may be edited.              *)
(*                                                                         *)
(* A digest stands for the blocks that were read into it.  Every open,     *)
(* stat and read of a block is a step of its own, for the editor works     *)
(* between them.  The context is entered once and left when the audit      *)
(* ends; a fork or another thread sees no cache and is not modelled.       *)
(***************************************************************************)
EXTENDS ProjectFiles

CONSTANTS
    Guard,      \* RECENT_WRITE_GUARD_NS, in ticks
    MaxHashes,  \* bound: calls of the audit
    Nothing     \* no file and no answer

ASSUME HashAssumption == Guard \in Nat \ {0} /\ MaxHashes \in Nat /\ Nothing \notin Files

VARIABLES
    hashing,  \* where the call stands
    call,     \* its locals: target, before, reusable, the open inode and the blocks read
    first,    \* the digest of the first reading
    digests,  \* current["digests"]: (target, stat) to digest
    hashes,   \* calls begun
    answer,   \* the target and the digest the last call returned, or Nothing
    seen      \* history: the contents of the target since the call began

locals == <<call, first>>
audit == <<hashing, locals, digests, hashes, answer, seen>>

Blank == [b \in 1 .. Blocks |-> 0]
NoCall == [target |-> Nothing, before |-> Nothing, reusable |-> FALSE,
           inode |-> Nothing, read |-> 0, body |-> Blank]

AuditInit ==
    /\ hashing = "idle" /\ call = NoCall /\ first = Blank
    /\ digests = [k \in {} |-> Blank]
    /\ hashes = 0 /\ answer = Nothing /\ seen = {}

Reusable_Always == TRUE
\* metadata_allows_hash_reuse.
Reusable == now - call.before[2] >= Guard

Key == <<call.target, call.before>>
Cached == Key \in DOMAIN digests

Look(f) ==
    /\ hashing = "idle" /\ hashes < MaxHashes
    /\ hashing' = "looked" /\ hashes' = hashes + 1
    /\ call' = [NoCall EXCEPT !.target = f, !.before = PathStat(f)]
    /\ answer' = Nothing /\ seen' = {Body(f)}
    /\ UNCHANGED <<first, digests, files>>

Return(digest) ==
    /\ answer' = [target |-> call.target, digest |-> digest]
    /\ hashing' = "idle"

Raise == hashing' = "idle" /\ UNCHANGED answer

Decide ==
    /\ hashing = "looked"
    /\ call' = [call EXCEPT !.reusable = Reusable]
    /\ IF Reusable /\ Cached THEN Return(digests[Key])
       ELSE hashing' = "open" /\ UNCHANGED answer
    /\ UNCHANGED <<first, digests, hashes, seen, files>>

\* The first open compares the stats at once, the second only at the end.
Open ==
    /\ hashing \in {"open", "reopen"}
    /\ call' = [call EXCEPT !.inode = path[call.target], !.read = 0]
    /\ IF hashing = "open" /\ PathStat(call.target) # call.before THEN Raise
       ELSE hashing' = (IF hashing = "open" THEN "stream" ELSE "restream") /\ UNCHANGED answer
    /\ UNCHANGED <<first, digests, hashes, seen, files>>

StreamBlock ==
    /\ hashing \in {"stream", "restream"} /\ call.read < Blocks
    /\ LET b == call.read + 1 IN
       call' = [call EXCEPT !.read = b, !.body[b] = data[call.inode][b]]
    /\ UNCHANGED <<hashing, first, digests, hashes, answer, seen, files>>

Unchanged == Stat(call.inode) = call.before /\ PathStat(call.target) = call.before

CloseFirst ==
    /\ hashing = "stream" /\ call.read = Blocks
    /\ first' = call.body
    /\ IF ~Unchanged THEN Raise /\ UNCHANGED digests
       ELSE IF call.reusable
       THEN Return(call.body) /\ digests' = [k \in DOMAIN digests \cup {Key} |->
                IF k = Key THEN call.body ELSE digests[k]]
       ELSE hashing' = "reopen" /\ UNCHANGED <<answer, digests>>
    /\ UNCHANGED <<call, hashes, seen, files>>

Corroborated_Metadata == Unchanged
Corroborated == call.body = first /\ Unchanged

CloseSecond ==
    /\ hashing = "restream" /\ call.read = Blocks
    /\ IF Corroborated THEN Return(first) ELSE Raise
    /\ UNCHANGED <<locals, digests, hashes, seen, files>>

Hash == (\E f \in Files : Look(f)) \/ Decide \/ Open \/ StreamBlock \/ CloseFirst \/ CloseSecond

\* The history of the call in progress, next to a step of the environment.
Witness == seen' = IF hashing = "idle" THEN seen ELSE seen \cup {data'[path'[call.target]]}

---------------------------------------------------------------------------

\* A digest the audit is given is that of a content the file had during the
\* call: never of blocks of two contents, and never of an earlier call's.
DigestWasContent == answer # Nothing => answer.digest \in seen

\* An entry of the cache that the stat of its file still selects is the digest
\* of what the file holds now, whatever was written in whichever tick.
CacheIsCurrent ==
    \A f \in Files :
        <<f, PathStat(f)>> \in DOMAIN digests => digests[<<f, PathStat(f)>>] = Body(f)

=============================================================================
