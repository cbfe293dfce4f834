----------------------------- MODULE RunLedger -----------------------------
(***************************************************************************)
(* The SQLite ledger of src/src/matdiscovery/accounting.py: one row per    *)
(* registered job, changed only by short BEGIN IMMEDIATE transactions, so  *)
(* each operator below is one atomic step of whoever calls it.             *)
(***************************************************************************)
EXTENDS Naturals

CONSTANT Jobs

VARIABLES
    state,      \* state[j]: column state
    number,     \* number[j]: column attempt_number; it also names the attempt,
                \* because every claim draws a fresh attempt_id with it
    retries     \* retries[j]: events "explicit_retry_authorized" of j

rows == <<state, number, retries>>

RowStates == {"pending", "running", "succeeded", "failed", "orphaned"}

RowsOK ==
    /\ state \in [Jobs -> RowStates]
    /\ number \in [Jobs -> Nat]
    /\ retries \in [Jobs -> Nat]

EmptyRows ==
    /\ state = [j \in Jobs |-> "pending"]
    /\ number = [j \in Jobs |-> 0]
    /\ retries = [j \in Jobs |-> 0]

InState(s) == {j \in Jobs : state[j] = s}

SetState(j, s) == state' = [state EXCEPT ![j] = s]

\* UPDATE ... WHERE state='pending': exactly one caller gets the row.
Claim(j) ==
    /\ state[j] = "pending"
    /\ SetState(j, "running")
    /\ number' = [number EXCEPT ![j] = @ + 1]
    /\ UNCHANGED retries

\* succeed and fail: WHERE state='running' AND attempt_id=?.
Finish(j, attempt, s) ==
    /\ state[j] = "running" /\ number[j] = attempt
    /\ SetState(j, s)
    /\ UNCHANGED <<number, retries>>

MarkOrphaned_Requeue(hidden) ==
    /\ state' = [j \in Jobs |->
                    IF state[j] = "running" /\ j \notin hidden THEN "pending" ELSE state[j]]
    /\ UNCHANGED <<number, retries>>

\* mark_orphaned quarantines the running rows whose heartbeat is older than
\* the caller's clock; "hidden" are the rows a clock set back leaves out.
MarkOrphaned(hidden) ==
    /\ state' = [j \in Jobs |->
                    IF state[j] = "running" /\ j \notin hidden THEN "orphaned" ELSE state[j]]
    /\ UNCHANGED <<number, retries>>

\* An orphan becomes a verified success or a known failure, never runnable.
Reconcile(j, s) ==
    /\ state[j] = "orphaned" /\ s \in {"succeeded", "failed"}
    /\ SetState(j, s)
    /\ UNCHANGED <<number, retries>>

RetryFailed(j) ==
    /\ state[j] = "failed"
    /\ SetState(j, "pending")
    /\ retries' = [retries EXCEPT ![j] = @ + 1]
    /\ UNCHANGED number

\* resume_plan: a recorded result that no longer verifies is quarantined.
Quarantine(corrupt) ==
    /\ state' = [j \in Jobs |->
                    IF state[j] = "succeeded" /\ j \in corrupt THEN "orphaned" ELSE state[j]]
    /\ UNCHANGED <<number, retries>>

=============================================================================
