--------------------------- MODULE OracleJournal ---------------------------
(***************************************************************************)
(* AuditedOracleExecutor and PreparedCalculatorBatch of mace_parallel.py   *)
(* with invoke_oracle and oracle_audit of benchmark_adapters.py: the       *)
(* oracles of one adapter evaluate batches of structures, mace on several  *)
(* threads, and keep a durable journal of every physical attempt.          *)
(*                                                                         *)
(* The threads and the splitting into chunks are MADE's own (external).    *)
(* Rows are written under the state lock, so a row and the counters that   *)
(* go with it are one step; the numerical work is not under any lock but   *)
(* the lifecycle lock of the whole batch.  Writing a row may raise, with   *)
(* nothing or all of it on disk, and the process may die anywhere.         *)
(***************************************************************************)
EXTENDS OracleAudit, SequencesExt

CONSTANTS
    Work,        \* bound: Work[k], the k-th batch: its oracle and number of structures
    MaxFaults,   \* bound: rows whose writing raises
    Nobody       \* the holder of a free lock

ASSUME JournalAssumption ==
    /\ Work \in Seq(SUBSET (Roles \X (Nat \ {0})))
    /\ MaxFaults \in Nat /\ Roles # {} /\ Nobody \notin Roles

VARIABLES
    journal,   \* oracle_attempts.jsonl
    sequence,  \* _audit_sequence: the number of the next row
    attempts,  \* _attempt_sequence: the number of the next attempt
    counts,    \* counts[r]: the attempts the adapter counts for an oracle
    pending,   \* _pending_oracle_attempts
    lifecycle, \* the holder of ORACLE_LIFECYCLE_LOCK
    pc,        \* pc[r]: where the calling thread of an oracle stands
    batch,     \* batch[r]: its batch, inputs, calculators constructed so far
    queue,     \* queue[r]: chunks no worker has taken
    spare,     \* spare[r]: calculators no thread has acquired
    thread,    \* thread[r][w]: the worker threads of the batch
    failed,    \* failed[r]: a chunk of the batch raised
    batches,   \* batches started so far
    calls,     \* calls[r]: numerical evaluations begun
    faults,    \* rows whose writing raised
    alive      \* the process has not died

ledger == <<attempts, counts, pending>>
work == <<queue, spare, thread, failed>>
vars == <<journal, sequence, ledger, lifecycle, pc, batch, work, batches, calls, faults, alive>>

Threads == 1 .. Max({Workers[r] : r \in Roles})

MaxBatches == Len(Work)

Outcomes == {"written", "lost", "doubled"}

IdleThread == [at |-> "idle", item |-> 0, last |-> 0, calculator |-> -1, attempt |-> -1]
NoBatch == [id |-> 0, size |-> 0, slot |-> 0]

Init ==
    /\ journal = <<>> /\ sequence = 0
    /\ attempts = 0 /\ counts = [r \in Roles |-> 0] /\ pending = {}
    /\ lifecycle = Nobody
    /\ pc = [r \in Roles |-> "absent"]
    /\ batch = [r \in Roles |-> NoBatch]
    /\ queue = [r \in Roles |-> <<>>] /\ spare = [r \in Roles |-> <<>>]
    /\ thread = [r \in Roles |-> [w \in Threads |-> IdleThread]]
    /\ failed = [r \in Roles |-> FALSE]
    /\ batches = 0 /\ calls = [r \in Roles |-> 0] /\ faults = 0 /\ alive = TRUE

---------------------------------------------------------------------------
(* oracle_audit: the row is durable before the sequence number advances. *)

Row(kind, r, index, attempt, stage) ==
    [kind |-> kind, sequence |-> sequence, role |-> r, batch |-> batch[r].id,
     index |-> index, attempt |-> attempt, stage |-> stage]

\* o is "written", or writing raised and left "lost" or "doubled": nothing,
\* or a row whose number the next one has as well.
Write(row, o) ==
    /\ o # "written" => faults < MaxFaults
    /\ journal' = IF o = "lost" THEN journal ELSE Append(journal, row)
    /\ sequence' = IF o = "written" THEN sequence + 1 ELSE sequence
    /\ faults' = IF o = "written" THEN faults ELSE faults + 1
    /\ UNCHANGED alive

Plain(kind, r) == Row(kind, r, -1, -1, "")

---------------------------------------------------------------------------
(* _make_oracle *)

BeginOracle(r, o) ==
    /\ pc[r] = "absent" /\ lifecycle = Nobody
    /\ Write(Plain("oracle_constructor_started", r), o)
    /\ IF o = "written" THEN pc' = [pc EXCEPT ![r] = "making"] /\ lifecycle' = r
                        ELSE pc' = [pc EXCEPT ![r] = "gone"] /\ UNCHANGED lifecycle
    /\ UNCHANGED <<ledger, batch, work, batches, calls>>

\* ok: the constructor returned and the guard found the FX globals restored.
EndOracle(r, ok, o) ==
    /\ pc[r] = "making"
    /\ Write(Plain(IF ok THEN "oracle_constructor_finished" ELSE "oracle_constructor_exception", r), o)
    /\ pc' = [pc EXCEPT ![r] = IF ok /\ o = "written" THEN "idle" ELSE "gone"]
    /\ lifecycle' = Nobody
    /\ UNCHANGED <<ledger, batch, work, batches, calls>>

---------------------------------------------------------------------------
(* batch_evaluate up to the evaluation *)

LockFree_Shared == TRUE
LockFree == lifecycle = Nobody

BeginBatch(r, size, o) ==
    /\ pc[r] = "idle" /\ LockFree
    /\ batches < MaxBatches /\ <<r, size>> \in Work[batches + 1]
    /\ batches' = batches + 1
    /\ Write([Row("oracle_batch_started", r, size, -1, "") EXCEPT !.batch = batches + 1], o)
    /\ IF o = "written"
       THEN /\ pc' = [pc EXCEPT ![r] = "identity"] /\ lifecycle' = r
            /\ batch' = [batch EXCEPT ![r] = [id |-> batches + 1, size |-> size, slot |-> 0]]
       ELSE UNCHANGED <<pc, lifecycle, batch>>
    /\ UNCHANGED <<ledger, work, calls>>

\* The identity of an input cannot be computed.
IdentityRaises(r) ==
    /\ pc[r] = "identity"
    /\ pc' = [pc EXCEPT ![r] = "raising-identity"]
    /\ UNCHANGED <<journal, sequence, ledger, lifecycle, batch, work, batches, calls, faults, alive>>

Prepared(r) == IF Workers[r] = 1 THEN 0 ELSE ChunkCount(batch[r].size, Workers[r])

BeginCalculator(r, o) ==
    /\ pc[r] \in {"identity", "preparing"} /\ batch[r].slot < Prepared(r)
    /\ Write(Row("calculator_constructor_started", r, batch[r].slot, -1, ""), o)
    /\ pc' = [pc EXCEPT ![r] = IF o = "written" THEN "constructing" ELSE "raising-construction"]
    /\ UNCHANGED <<ledger, lifecycle, batch, work, batches, calls>>

\* ok: the object is private and the guard finds the FX globals restored.
EndCalculator(r, ok, o) ==
    /\ pc[r] = "constructing"
    /\ Write(Row(IF ok THEN "calculator_constructor_finished" ELSE "calculator_constructor_exception",
                 r, batch[r].slot, -1, ""), o)
    /\ pc' = [pc EXCEPT ![r] = IF ok /\ o = "written" THEN "preparing" ELSE "raising-construction"]
    /\ batch' = [batch EXCEPT ![r].slot = @ + 1]
    /\ UNCHANGED <<ledger, lifecycle, work, batches, calls>>

Chunks(r) ==
    LET step == ChunkSize(batch[r].size, Workers[r])
    IN  [k \in 1 .. ChunkCount(batch[r].size, Workers[r]) |->
            <<(k - 1) * step, Smaller(k * step, batch[r].size) - 1>>]

StartEvaluation(r) ==
    /\ pc' = [pc EXCEPT ![r] = "evaluating"]
    /\ queue' = [queue EXCEPT ![r] = Chunks(r)]
    /\ spare' = [spare EXCEPT ![r] = [k \in 1 .. Prepared(r) |-> k - 1]]
    /\ UNCHANGED <<thread, failed>>

\* all_calculators_ready; one worker keeps the calculator of the oracle.
CalculatorsReady(r, o) ==
    /\ pc[r] = "preparing" /\ batch[r].slot = Prepared(r)
    /\ Write(Row("all_calculators_ready", r, Prepared(r), -1, ""), o)
    /\ IF o = "written" THEN StartEvaluation(r)
       ELSE pc' = [pc EXCEPT ![r] = "raising-construction"] /\ UNCHANGED work
    /\ UNCHANGED <<ledger, lifecycle, batch, batches, calls>>

EvaluateSerially(r) ==
    /\ pc[r] = "identity" /\ Workers[r] = 1
    /\ StartEvaluation(r)
    /\ UNCHANGED <<journal, sequence, ledger, lifecycle, batch, batches, calls, faults, alive>>

---------------------------------------------------------------------------
(* The worker threads, and invoke_oracle in each of them. *)

Working(r) == pc[r] = "evaluating"

SetThread(r, w, state) == thread' = [thread EXCEPT ![r][w] = state]

\* A thread of the pool takes the next chunk (external).  Threads that have
\* done nothing yet are alike: the least of them is taken.
TakeChunk(r, w) ==
    /\ Working(r) /\ queue[r] # <<>>
    /\ w <= ChunkCount(batch[r].size, Workers[r]) /\ thread[r][w].at = "idle"
    /\ thread[r][w] = IdleThread => \A v \in 1 .. w - 1 : thread[r][v] # IdleThread
    /\ SetThread(r, w, [thread[r][w] EXCEPT !.at = "item", !.item = Head(queue[r])[1],
                                            !.last = Head(queue[r])[2]])
    /\ queue' = [queue EXCEPT ![r] = Tail(@)]
    /\ UNCHANGED <<journal, sequence, ledger, lifecycle, pc, batch, spare, failed,
                   batches, calls, faults, alive>>

\* The exception ends the chunk; other chunks go on.
ChunkRaises(r, w) ==
    /\ SetThread(r, w, [thread[r][w] EXCEPT !.at = "idle"])
    /\ failed' = [failed EXCEPT ![r] = TRUE]

Counted(r) ==
    /\ attempts' = attempts + 1
    /\ counts' = [counts EXCEPT ![r] = @ + 1]
    /\ pending' = pending \cup {attempts}

\* Faulty: the counters advance before the row is on disk.
CountAttempt_Early(r, w, o) ==
    /\ thread[r][w].at = "item"
    /\ Write(Row("oracle_attempt_started", r, thread[r][w].item, attempts, ""), o)
    /\ Counted(r)
    /\ IF o = "written"
       THEN /\ SetThread(r, w, [thread[r][w] EXCEPT !.at = "counted", !.attempt = attempts])
            /\ UNCHANGED failed
       ELSE ChunkRaises(r, w)
    /\ UNCHANGED <<lifecycle, pc, batch, queue, spare, batches, calls>>

CountAttempt(r, w, o) ==
    /\ thread[r][w].at = "item"
    /\ Write(Row("oracle_attempt_started", r, thread[r][w].item, attempts, ""), o)
    /\ IF o = "written"
       THEN /\ Counted(r)
            /\ SetThread(r, w, [thread[r][w] EXCEPT !.at = "counted", !.attempt = attempts])
            /\ UNCHANGED failed
       ELSE ChunkRaises(r, w) /\ UNCHANGED ledger
    /\ UNCHANGED <<lifecycle, pc, batch, queue, spare, batches, calls>>

Evaluates(r, w, calculator) ==
    /\ SetThread(r, w, [thread[r][w] EXCEPT !.at = "calling", !.calculator = calculator])
    /\ calls' = [calls EXCEPT ![r] = @ + 1]

\* A thread that has its calculator, or the serial one, enters the evaluation.
Call(r, w) ==
    /\ thread[r][w].at = "counted"
    /\ Workers[r] = 1 \/ thread[r][w].calculator # -1
    /\ Evaluates(r, w, thread[r][w].calculator)
    /\ UNCHANGED <<journal, sequence, ledger, lifecycle, pc, batch, queue, spare, failed,
                   batches, faults, alive>>

Popped_Kept(s) == s
Popped(s) == Tail(s)

\* acquire: the first evaluation of a thread takes a prepared calculator.
Acquire(r, w, o) ==
    /\ thread[r][w].at = "counted" /\ Workers[r] > 1 /\ thread[r][w].calculator = -1
    /\ spare[r] # <<>>
    /\ spare' = [spare EXCEPT ![r] = Popped(@)]
    /\ Write(Row("calculator_assigned", r, Head(spare[r]), -1, ""), o)
    /\ IF o = "written" THEN Evaluates(r, w, Head(spare[r]))
       ELSE /\ SetThread(r, w, [thread[r][w] EXCEPT !.at = "raised", !.calculator = Head(spare[r])])
            /\ UNCHANGED calls
    /\ UNCHANGED <<ledger, lifecycle, pc, batch, queue, failed, batches>>

NextItem(t) == IF t.item < t.last THEN [t EXCEPT !.at = "item", !.item = @ + 1]
                                  ELSE [t EXCEPT !.at = "idle"]

Resolve(r, w, kind, o) ==
    /\ Write(Row(kind, r, thread[r][w].item, thread[r][w].attempt, ""), o)
    /\ pending' = IF o = "written" THEN pending \ {thread[r][w].attempt} ELSE pending
    /\ UNCHANGED <<attempts, counts, lifecycle, pc, batch, queue, spare, batches, calls>>

Return(r, w, o) ==
    /\ thread[r][w].at = "calling"
    /\ Resolve(r, w, "oracle_attempt_returned", o)
    /\ IF o = "written" THEN SetThread(r, w, NextItem(thread[r][w])) /\ UNCHANGED failed
                        ELSE ChunkRaises(r, w)

\* The evaluation raises, or acquire did before it.
Except(r, w, o) ==
    /\ thread[r][w].at \in {"calling", "raised"}
    /\ Resolve(r, w, "oracle_attempt_exception", o)
    /\ ChunkRaises(r, w)

\* Chunks that no thread has taken are not started after a failure (external).
CancelChunks(r) ==
    /\ Working(r) /\ failed[r] /\ queue[r] # <<>>
    /\ queue' = [queue EXCEPT ![r] = <<>>]
    /\ UNCHANGED <<journal, sequence, ledger, lifecycle, pc, batch, spare, thread, failed,
                   batches, calls, faults, alive>>

---------------------------------------------------------------------------
(* The end of a batch: every worker has been joined. *)

Joined_First(r) == Working(r) /\ \E w \in Threads : thread[r][w].at = "idle" /\ failed[r]
Joined(r) == Working(r) /\ queue[r] = <<>> /\ \A w \in Threads : thread[r][w].at = "idle"

Released(r) == lifecycle' = Nobody

EndBatch(r) ==
    /\ Released(r)
    /\ pc' = [pc EXCEPT ![r] = "idle"]
    /\ batch' = [batch EXCEPT ![r] = NoBatch]
    /\ queue' = [queue EXCEPT ![r] = <<>>] /\ spare' = [spare EXCEPT ![r] = <<>>]
    /\ thread' = [thread EXCEPT ![r] = [w \in Threads |-> IdleThread]]
    /\ failed' = [failed EXCEPT ![r] = FALSE]

FinishBatch(r, o) ==
    /\ Joined(r) /\ ~failed[r]
    /\ Write(Row("oracle_batch_finished", r, batch[r].size, -1, ""), o)
    /\ EndBatch(r)
    /\ UNCHANGED <<ledger, batches, calls>>

RaiseBatch(r, stage, o) ==
    /\ CASE stage = "input_identity" -> pc[r] = "raising-identity"
         [] stage = "calculator_construction" -> pc[r] = "raising-construction"
         [] stage = "evaluation" -> Joined(r) /\ failed[r]
    /\ Write(Row("oracle_batch_exception", r, -1, -1, stage), o)
    /\ EndBatch(r)
    /\ UNCHANGED <<ledger, batches, calls>>

Stages == {"input_identity", "calculator_construction", "evaluation"}

---------------------------------------------------------------------------
\* The process dies inside a row.  A death between two rows leaves the journal
\* of the state it happens in, which every invariant reads as it is.
Die ==
    /\ alive' = FALSE
    /\ journal' = Append(journal, Plain("torn", CHOOSE r \in Roles : TRUE))
    /\ UNCHANGED <<sequence, ledger, lifecycle, pc, batch, work, batches, calls, faults>>

OracleStep(r) ==
    \/ \E o \in Outcomes :
        \/ BeginOracle(r, o)
        \/ \E ok \in BOOLEAN : EndOracle(r, ok, o) \/ EndCalculator(r, ok, o)
        \/ \E size \in {b[2] : b \in UNION Range(Work)} : BeginBatch(r, size, o)
        \/ BeginCalculator(r, o) \/ CalculatorsReady(r, o)
        \/ FinishBatch(r, o)
        \/ \E stage \in Stages : RaiseBatch(r, stage, o)
    \/ IdentityRaises(r) \/ EvaluateSerially(r) \/ CancelChunks(r)

ThreadStep(r, w) ==
    \/ TakeChunk(r, w) \/ Call(r, w)
    \/ \E o \in Outcomes :
        CountAttempt(r, w, o) \/ Acquire(r, w, o) \/ Return(r, w, o) \/ Except(r, w, o)

\* Nothing is left to do: the caller has no further batch, or the process is dead.
Rest ==
    /\ alive => lifecycle = Nobody /\ \A r \in Roles : pc[r] = "gone" \/ (pc[r] = "idle" /\ batches = MaxBatches)
    /\ UNCHANGED vars

Next ==
    \/ alive /\ \E r \in Roles : OracleStep(r) \/ \E w \in Threads : ThreadStep(r, w)
    \/ alive /\ Die
    \/ Rest

Spec == Init /\ [][Next]_vars

---------------------------------------------------------------------------
(* Properties *)

Constructing(r) == pc[r] \in {"making", "constructing"}
Forward(r, w) == thread[r][w].at = "calling"

TypeOK ==
    /\ DOMAIN journal = 1 .. Len(journal) /\ sequence \in 0 .. Len(journal)
    /\ counts \in [Roles -> Nat] /\ calls \in [Roles -> Nat]
    /\ pending \subseteq 0 .. attempts - 1
    /\ lifecycle \in Roles \cup {Nobody}
    /\ batches \in 0 .. MaxBatches /\ faults \in 0 .. MaxFaults

\* The journal never reports fewer calls of an oracle than were begun.  One
\* the audit calls closed was left by an adapter with nothing in progress and
\* reports exactly what the adapter counted; one it calls successful, exactly
\* what was evaluated.  This holds for journals of failures and deaths too.
AuditIsTruthful == TypeOK /\
    /\ \A r \in Roles : calls[r] <= Counts(journal, r)
    /\ Closed(journal) =>
        /\ \A r \in Roles : ~Constructing(r) /\ Counts(journal, r) = counts[r]
        /\ \A r \in Roles, w \in Threads : ~Forward(r, w)
    /\ Successful(journal) => \A r \in Roles : counts[r] = calls[r]

\* Without a write that raises, whatever fails in the constructors and the
\* evaluations of whichever threads, the journal is one the audit accepts at
\* every moment, and it is closed whenever no batch is in progress.
HonestJournalAccepted ==
    faults = 0 /\ Rows(journal, {"torn"}) = {} =>
        Valid(journal) /\ (lifecycle = Nobody => Closed(journal))

\* No oracle evaluates while any of them constructs a calculator, and two
\* evaluating threads never share one.
ForwardsArePrivate ==
    \A r \in Roles, w \in Threads : Forward(r, w) =>
        /\ \A s \in Roles : ~Constructing(s)
        /\ \A v \in Threads : Forward(r, v) /\ thread[r][v].calculator = thread[r][w].calculator => v = w

=============================================================================
