---------------------------- MODULE OracleAudit ----------------------------
(***************************************************************************)
(* audit_oracle_attempt_journal of mace_parallel.py: what a reader accepts *)
(* of a journal of oracle attempts, as a predicate of the journal alone.   *)
(* A row is a record with the fields                                       *)
(*   kind, sequence, role, batch,                                          *)
(*   index    the slot of a calculator, the index of an input, or a count, *)
(*   attempt  the number of an attempt,                                    *)
(*   stage    where a batch raised.                                        *)
(* The last row of a process that died while writing is "torn".            *)
(***************************************************************************)
EXTENDS Integers, Sequences, FiniteSets

CONSTANTS
    Roles,    \* the oracles of one adapter: mace and orb
    Workers   \* Workers[r]: num_workers of an oracle

ASSUME WorkersAssumption == Workers \in [Roles -> Nat \ {0}]

Smaller(a, b) == IF a <= b THEN a ELSE b

Ceiling(a, b) == (a + b - 1) \div b

\* official_chunk_count and the rule behind it: inputs per chunk, chunks.
ChunkSize(size, workers) == Ceiling(size, Smaller(workers, size))
ChunkCount(size, workers) == IF size = 0 THEN 0 ELSE Ceiling(size, ChunkSize(size, workers))

Kinds == {"oracle_constructor_started", "oracle_constructor_finished", "oracle_constructor_exception",
          "oracle_batch_started", "oracle_batch_finished", "oracle_batch_exception",
          "calculator_constructor_started", "calculator_constructor_finished",
          "calculator_constructor_exception", "all_calculators_ready", "calculator_assigned",
          "oracle_attempt_started", "oracle_attempt_returned", "oracle_attempt_exception"}

Rows(j, kinds) == {i \in DOMAIN j : j[i].kind \in kinds}

AttemptStarts(j) == Rows(j, {"oracle_attempt_started"})
AttemptEnds(j) == Rows(j, {"oracle_attempt_returned", "oracle_attempt_exception"})
BatchStarts(j) == Rows(j, {"oracle_batch_started"})
BatchEnds(j) == Rows(j, {"oracle_batch_finished", "oracle_batch_exception"})
OracleStarts(j) == Rows(j, {"oracle_constructor_started"})
OracleEnds(j) == Rows(j, {"oracle_constructor_finished", "oracle_constructor_exception"})
SlotStarts(j) == Rows(j, {"calculator_constructor_started"})
SlotEnds(j) == Rows(j, {"calculator_constructor_finished", "calculator_constructor_exception"})

SameAttempt(a, b) == a.attempt = b.attempt /\ a.role = b.role /\ a.batch = b.batch /\ a.index = b.index
SameBatch(a, b) == a.batch = b.batch /\ a.role = b.role
SameOracle(a, b) == a.role = b.role
SameSlot(a, b) == a.batch = b.batch /\ a.index = b.index

\* No duplicate start, no duplicate terminal, every terminal after its start.
Paired(j, starts, ends, Same(_, _)) ==
    /\ \A S \in {starts, ends} : \A a, b \in S : Same(j[a], j[b]) => a = b
    /\ \A e \in ends : \E s \in starts : s < e /\ Same(j[s], j[e])

Resolved(j, starts, ends, Same(_, _)) == \A s \in starts : \E e \in ends : Same(j[s], j[e])

KnownRows(j) == \A i \in DOMAIN j : j[i].kind \in Kinds /\ j[i].sequence = i - 1

\* Attempts are numbered in the order of their starts, and every start is of
\* an input of a batch whose start is on record, at most once.
AttemptsIdentified(j) ==
    \A s \in AttemptStarts(j) :
        /\ j[s].attempt = Cardinality({t \in AttemptStarts(j) : t < s})
        /\ \E b \in BatchStarts(j) : SameBatch(j[b], j[s]) /\ j[s].index \in 0 .. j[b].index - 1
        /\ \A t \in AttemptStarts(j) : SameBatch(j[s], j[t]) /\ j[s].index = j[t].index => s = t

\* Slots and the mark that all are ready belong to a batch started before;
\* there is one such mark.
SlotsIdentified(j) ==
    LET ready == Rows(j, {"all_calculators_ready"})
    IN  /\ \A i \in ready \cup SlotStarts(j) \cup SlotEnds(j) :
            \E b \in BatchStarts(j) : b < i /\ j[b].batch = j[i].batch
        /\ \A m, n \in ready : j[m].batch = j[n].batch => m = n

\* A batch ends after the outcome of its last attempt; a finished one has
\* returned every input, one that failed before the evaluation has none.
BatchesJoined(j) ==
    \A b \in BatchStarts(j), e \in BatchEnds(j) : SameBatch(j[b], j[e]) =>
        LET started == {s \in AttemptStarts(j) : j[s].batch = j[b].batch}
        IN  /\ \A s \in started : \E t \in AttemptEnds(j) : t < e /\ SameAttempt(j[s], j[t])
            /\ j[e].kind = "oracle_batch_finished" =>
                /\ j[e].index = j[b].index /\ Cardinality(started) = j[b].index
                /\ \A s \in started : \E t \in AttemptEnds(j) :
                    SameAttempt(j[s], j[t]) /\ j[t].kind = "oracle_attempt_returned"
            /\ j[e].kind = "oracle_batch_exception" /\ j[e].stage # "evaluation" => started = {}

\* In a parallel batch every calculator is constructed before the first attempt.
PhasesApart(j) ==
    \A b \in BatchStarts(j) :
        LET started == {s \in AttemptStarts(j) : j[s].batch = j[b].batch}
            finished == {i \in Rows(j, {"calculator_constructor_finished"}) : j[i].batch = j[b].batch}
            chunks == ChunkCount(j[b].index, Workers[j[b].role])
        IN  Workers[j[b].role] > 1 /\ started # {} =>
                \E m \in Rows(j, {"all_calculators_ready"}) :
                    /\ j[m].batch = j[b].batch
                    /\ j[m].index = chunks /\ Cardinality(finished) = chunks
                    /\ \A i \in finished : i < m
                    /\ \A s \in started : m < s

Valid(j) ==
    /\ KnownRows(j)
    /\ Paired(j, BatchStarts(j), BatchEnds(j), SameBatch)
    /\ Paired(j, OracleStarts(j), OracleEnds(j), SameOracle)
    /\ Paired(j, SlotStarts(j), SlotEnds(j), SameSlot)
    /\ Paired(j, AttemptStarts(j), AttemptEnds(j), SameAttempt)
    /\ AttemptsIdentified(j)
    /\ SlotsIdentified(j)
    /\ BatchesJoined(j)
    /\ PhasesApart(j)

Closed(j) ==
    /\ Resolved(j, AttemptStarts(j), AttemptEnds(j), SameAttempt)
    /\ Resolved(j, SlotStarts(j), SlotEnds(j), SameSlot)
    /\ Resolved(j, OracleStarts(j), OracleEnds(j), SameOracle)
    /\ Resolved(j, BatchStarts(j), BatchEnds(j), SameBatch)
    /\ Valid(j)

Successful(j) ==
    /\ Rows(j, {"oracle_attempt_exception", "oracle_batch_exception", "oracle_constructor_exception",
                "calculator_constructor_exception"}) = {}
    /\ Closed(j)

\* counts: the physical calls the journal reports of an oracle.
Counts(j, r) == Cardinality({s \in AttemptStarts(j) : j[s].role = r})

=============================================================================
