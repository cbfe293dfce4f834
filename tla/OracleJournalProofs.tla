------------------------- MODULE OracleJournalProofs -------------------------
(***************************************************************************)
(* Proofs about the journal of physical oracle attempts: the numerical     *)
(* work stays private to one thread and one calculator, and what           *)
(* oracle_audit says of a journal is what happened.                        *)
(*                                                                         *)
(* Writing a row may raise with the row on disk or not, and the process    *)
(* may die, leaving a torn last row.  So a counter of the adapter and its  *)
(* rows may disagree, but only by such a row, and a journal that has one   *)
(* is not numbered in order to its end (Numbered).  What was begun and has *)
(* no outcome is on record without one (AttemptRows, ConstructorRows).     *)
(*                                                                         *)
(* The second half is about journals of which no write raised: there the   *)
(* two agree, and the audit accepts the journal after every row, whatever  *)
(* the constructors and the evaluations did (HonestInv).                   *)
(***************************************************************************)
EXTENDS OracleJournal, FiniteSetTheorems, TLAPS

\* What is assumed of the constants.
Premises == WorkersAssumption /\ JournalAssumption

-----------------------------------------------------------------------------
(* The inductive invariant *)

\* Where the calling thread of an oracle stands while it has a batch.
InBatch ==
    {"identity", "preparing", "constructing", "evaluating", "raising-identity", "raising-construction"}

\* A thread that holds an attempt which has no outcome yet.
Attempting(r, w) == thread[r][w].at \in {"counted", "calling", "raised"}

\* What the torn row is filled with.
TornRole == CHOOSE r \in Roles : TRUE

\* The rows there can be; a torn one has an arbitrary oracle.
JournalRows ==
    [kind : Kinds \cup {"torn"}, sequence : Nat, role : Roles \cup {TornRole},
     batch : Nat, index : Int, attempt : Int, stage : {""} \cup Stages]

\* What a worker thread is.
ThreadStates ==
    [at : {"idle", "item", "counted", "calling", "raised"}, item : Int, last : Int,
     calculator : Int, attempt : Int]

\* The types of the variables, with the bounds that hold between them.
JournalTyped ==
    /\ journal \in Seq(JournalRows) /\ sequence \in 0 .. Len(journal)
    /\ attempts \in Nat /\ counts \in [Roles -> Nat] /\ pending \subseteq 0 .. attempts - 1
    /\ lifecycle \in Roles \cup {Nobody}
    /\ pc \in [Roles -> {"absent", "gone", "idle", "making"} \cup InBatch]
    /\ batch \in [Roles -> [id : Nat, size : Nat, slot : Nat]]
    /\ queue \in [Roles -> Seq(Int \X Int)] /\ spare \in [Roles -> Seq(Nat)]
    /\ thread \in [Roles -> [Threads -> ThreadStates]] /\ failed \in [Roles -> BOOLEAN]
    /\ batches \in 0 .. MaxBatches /\ calls \in [Roles -> Nat] /\ faults \in 0 .. MaxFaults

\* Whoever constructs or evaluates holds the lifecycle lock, and its batch is
\* the last one that was begun.
LockHeld ==
    \A r \in Roles :
        /\ pc[r] \in InBatch \cup {"making"} => lifecycle = r
        /\ pc[r] \in InBatch => batch[r].size # 0 /\ batch[r].id = batches

\* No two threads of a batch hold the same calculator, and none of them is spare.
Pool(r) ==
    /\ \A w \in Threads :
        thread[r][w] # IdleThread => w <= ChunkCount(batch[r].size, Workers[r])
    /\ Workers[r] > 1 =>
        /\ \A w \in Threads : thread[r][w].at = "calling" => thread[r][w].calculator # -1
        /\ \A v, w \in Threads : thread[r][v].calculator = thread[r][w].calculator =>
                                 v = w \/ thread[r][v].calculator = -1
        /\ \A i \in DOMAIN spare[r], w \in Threads : spare[r][i] # thread[r][w].calculator
        /\ \A i, k \in DOMAIN spare[r] : spare[r][i] = spare[r][k] => i = k

Pools ==
    \A r \in Roles : IF Working(r) THEN Pool(r) ELSE thread[r] = [w \in Threads |-> IdleThread]

\* What the journal j says of an attempt, a slot of a batch and an oracle.
AttemptStarted(j, r, a) == \E s \in AttemptStarts(j) : j[s].role = r /\ j[s].attempt = a
AttemptEnded(j, a) == \E e \in AttemptEnds(j) : j[e].attempt = a
AttemptReturned(j, a) == \E e \in Rows(j, {"oracle_attempt_returned"}) : j[e].attempt = a
SlotStarted(j, b, i) == \E s \in SlotStarts(j) : j[s].batch = b /\ j[s].index = i
SlotEnded(j, b, i) == \E e \in SlotEnds(j) : j[e].batch = b /\ j[e].index = i
OracleStarted(j, r) == \E s \in OracleStarts(j) : j[s].role = r
OracleEnded(j, r) == \E e \in OracleEnds(j) : j[e].role = r

\* An attempt of a thread is on record, without an outcome, and no other's.
AttemptRows ==
    /\ \A a : AttemptEnded(journal, a) => a \in 0 .. attempts - 1
    /\ \A r \in Roles, w \in Threads : Attempting(r, w) =>
        /\ thread[r][w].attempt \in 0 .. attempts - 1
        /\ AttemptStarted(journal, r, thread[r][w].attempt)
        /\ ~AttemptEnded(journal, thread[r][w].attempt)
    /\ \A r, s \in Roles, v, w \in Threads :
        Attempting(r, v) /\ Attempting(s, w) /\ thread[r][v].attempt = thread[s][w].attempt =>
            r = s /\ v = w

\* What is being constructed is on record, without an outcome.
ConstructorRows ==
    /\ \A b, i : SlotEnded(journal, b, i) => b \in 0 .. batches
    /\ \A r \in Roles : pc[r] \in InBatch =>
        \A i : SlotEnded(journal, batches, i) => i < batch[r].slot
    /\ \A r \in Roles : pc[r] = "constructing" => SlotStarted(journal, batches, batch[r].slot)
    /\ \A r \in Roles : pc[r] \in {"absent", "making"} => ~OracleEnded(journal, r)
    /\ \A r \in Roles : pc[r] = "making" => OracleStarted(journal, r)

\* U: the attempts of r that were counted and not evaluated.
Uncalled(r, U) ==
    /\ U \subseteq 0 .. attempts - 1 /\ counts[r] = calls[r] + Cardinality(U)
    /\ \A a \in U : AttemptStarted(journal, r, a) /\ ~AttemptReturned(journal, a)
    /\ \A s \in Roles, w \in Threads : Attempting(s, w) =>
        (thread[s][w].attempt \in U <=> s = r /\ thread[s][w].at # "calling")

\* What the adapter counted is on record, and what is not evaluated is known.
Tallied ==
    \A r \in Roles : /\ counts[r] <= Counts(journal, r)
                     /\ \E U \in SUBSET (0 .. attempts - 1) : Uncalled(r, U)

\* A row whose writing raised and that is on disk is the last one of a journal
\* whose rows are numbered in order, and an attempt it begins is not counted.
Numbered ==
    KnownRows(journal) =>
        \/ Len(journal) = sequence /\ \A r \in Roles : Counts(journal, r) = counts[r]
        \/ /\ Len(journal) = sequence + 1
           /\ IF journal[Len(journal)].kind = "oracle_attempt_started"
              THEN journal[Len(journal)].attempt = attempts
              ELSE \A r \in Roles : Counts(journal, r) = counts[r]

JournalInv ==
    /\ JournalTyped /\ LockHeld /\ Pools
    /\ AttemptRows /\ ConstructorRows
    /\ Tallied /\ Numbered

-----------------------------------------------------------------------------
\* One worker has one chunk.
LEMMA OneChunk == ASSUME NEW s \in Nat \ {0} PROVE ChunkCount(s, 1) = 1
<1>1. Smaller(1, s) = 1
  BY DEF Smaller
<1>2. ChunkSize(s, 1) = s
  BY <1>1 DEF ChunkSize, Ceiling
<1>3. (s + s - 1) \div s = 1
  <2>1. s + s - 1 = s * 1 + (s - 1) /\ s - 1 \in 0 .. s - 1
    OBVIOUS
  <2> QED BY <2>1
<1> QED BY <1>2, <1>3 DEF ChunkCount, Ceiling

\* Threads are numbered from 1.
LEMMA ThreadFacts ==
    ASSUME NEW w \in Threads PROVE w \in Nat \ {0}
  BY DEF Threads

\* u is j with one more row.
Longer(j, row, u) ==
    /\ j \in Seq(JournalRows) /\ u \in Seq(JournalRows) /\ Len(j) \in Nat /\ Len(u) = Len(j) + 1
    /\ DOMAIN j = 1 .. Len(j) /\ DOMAIN u = 1 .. Len(u)
    /\ u[Len(u)] = row /\ \A i \in 1 .. Len(j) : u[i] = j[i]

\* Append makes a journal one row longer.
LEMMA AppendedRow ==
    ASSUME NEW j \in Seq(JournalRows), NEW row \in JournalRows
    PROVE  Longer(j, row, Append(j, row))
  BY DEF Longer

\* Which rows of the kinds in K a longer journal has.
LEMMA RowsAppended ==
    ASSUME NEW j, NEW row, NEW u, Longer(j, row, u), NEW K
    PROVE  /\ Rows(u, K) = IF row.kind \in K THEN Rows(j, K) \cup {Len(u)} ELSE Rows(j, K)
           /\ Len(u) \notin Rows(j, K) /\ u[Len(u)] = row
           /\ \A i \in Rows(j, K) : u[i] = j[i]
  BY DEF Rows, Longer

\* Sets of rows of a journal can be counted.
LEMMA JournalFinite ==
    ASSUME NEW j \in Seq(JournalRows), NEW K, NEW S, S \subseteq Rows(j, K)
    PROVE  IsFiniteSet(S) /\ Cardinality(S) \in Nat
<1>1. Rows(j, K) \subseteq 1 .. Len(j) /\ Len(j) \in Nat
  BY DEF Rows
<1>2. IsFiniteSet(1 .. Len(j))
  BY <1>1, FS_Interval
<1> QED BY <1>1, <1>2, FS_Subset, FS_CardinalityType

\* Only a row that starts an attempt changes what oracle_audit counts for its oracle.
LEMMA CountsAppended ==
    ASSUME NEW j, NEW row, NEW u, Longer(j, row, u), NEW r
    PROVE  /\ Counts(j, r) \in Nat
           /\ Counts(u, r) = IF row.kind = "oracle_attempt_started" /\ row.role = r
                             THEN Counts(j, r) + 1 ELSE Counts(j, r)
<1> DEFINE S == {s \in AttemptStarts(j) : j[s].role = r}
           T == {s \in AttemptStarts(u) : u[s].role = r}
<1>1. IsFiniteSet(S) /\ Cardinality(S) \in Nat
  BY JournalFinite DEF AttemptStarts, Longer
<1>2. /\ AttemptStarts(u) = IF row.kind = "oracle_attempt_started"
                            THEN AttemptStarts(j) \cup {Len(u)} ELSE AttemptStarts(j)
      /\ Len(u) \notin AttemptStarts(j) /\ u[Len(u)] = row
      /\ \A i \in AttemptStarts(j) : u[i] = j[i]
  <2>1. PICK K : K = {"oracle_attempt_started"}
    OBVIOUS
  <2>2. /\ Rows(u, K) = IF row.kind \in K THEN Rows(j, K) \cup {Len(u)} ELSE Rows(j, K)
        /\ Len(u) \notin Rows(j, K) /\ u[Len(u)] = row
        /\ \A i \in Rows(j, K) : u[i] = j[i]
    BY RowsAppended
  <2>3. row.kind \in K <=> row.kind = "oracle_attempt_started"
    BY <2>1
  <2> QED BY <2>1, <2>2, <2>3 DEF AttemptStarts
<1>3. /\ row.kind = "oracle_attempt_started" /\ row.role = r => T = S \cup {Len(u)}
      /\ ~(row.kind = "oracle_attempt_started" /\ row.role = r) => T = S
  <2>1. CASE row.kind = "oracle_attempt_started"
    <3>1. AttemptStarts(u) = AttemptStarts(j) \cup {Len(u)}
      BY <1>2, <2>1
    <3> QED BY <1>2, <2>1, <3>1
  <2>2. CASE row.kind # "oracle_attempt_started"
    BY <1>2, <2>2
  <2> QED BY <2>1, <2>2
<1>4. Len(u) \notin S
  BY <1>2
<1>5. Cardinality(S \cup {Len(u)}) = Cardinality(S) + 1
  BY <1>1, <1>4, FS_AddElement
<1> HIDE DEF S, T
<1>6. Cardinality(T) = IF row.kind = "oracle_attempt_started" /\ row.role = r
                       THEN Cardinality(S) + 1 ELSE Cardinality(S)
  <2>1. CASE row.kind = "oracle_attempt_started" /\ row.role = r
    BY <1>3, <1>5, <2>1
  <2>2. CASE ~(row.kind = "oracle_attempt_started" /\ row.role = r)
    <3>1. T = S
      BY <1>3, <2>2
    <3> QED BY <2>2, <3>1
  <2> QED BY <2>1, <2>2
<1> QED BY <1>1, <1>6 DEF Counts, S, T

\* The audit accepts no row behind one it refuses.
LEMMA KnownAppended ==
    ASSUME NEW j, NEW row, NEW u, Longer(j, row, u), KnownRows(u)
    PROVE  KnownRows(j) /\ row.kind \in Kinds /\ row.sequence = Len(j)
  BY DEF KnownRows, Longer

\* What a step leaves of the rows that speak of attempts, when it ends those in E and
\* those in R have returned.
AttemptsGrow(E, R) ==
    /\ \A a : AttemptEnded(journal', a) => AttemptEnded(journal, a) \/ a \in E
    /\ \A a : AttemptReturned(journal', a) => AttemptReturned(journal, a) \/ a \in R
    /\ \A r, a : AttemptStarted(journal, r, a) => AttemptStarted(journal', r, a)
    /\ \A r : Counts(journal, r) \in Nat /\ Counts(journal', r) \in Nat
    /\ \A r : Counts(journal, r) <= Counts(journal', r)

\* The same of constructors, when it ends the slots S of the last batch and the oracles O.
ConstructorsGrow(S, O) ==
    /\ \A b, i : SlotEnded(journal', b, i) => SlotEnded(journal, b, i) \/ (b = batches /\ i \in S)
    /\ \A b, i : SlotStarted(journal, b, i) => SlotStarted(journal', b, i)
    /\ \A r : OracleEnded(journal', r) => OracleEnded(journal, r) \/ r \in O
    /\ \A r : OracleStarted(journal, r) => OracleStarted(journal', r)

\* The rows that end an attempt, a slot and an oracle construction.
AttemptEndKinds == {"oracle_attempt_returned", "oracle_attempt_exception"}
SlotEndKinds == {"calculator_constructor_finished", "calculator_constructor_exception"}
OracleEndKinds == {"oracle_constructor_finished", "oracle_constructor_exception"}

\* oracle_audit counts the attempts of an oracle.
LEMMA CountsType == ASSUME NEW j \in Seq(JournalRows), NEW r PROVE Counts(j, r) \in Nat
  BY JournalFinite DEF AttemptStarts, Counts

\* A journal that stays as it is says the same.
LEMMA Unwritten == ASSUME JournalTyped, journal' = journal PROVE AttemptsGrow({}, {}) /\ ConstructorsGrow({}, {})
<1>1. \A r : Counts(journal, r) \in Nat
  BY CountsType DEF JournalTyped
<1>2. AttemptsGrow({}, {})
  BY <1>1 DEF AttemptsGrow
<1> QED BY <1>2 DEF ConstructorsGrow

\* What one more row changes in what a journal says of attempts.
LEMMA AttemptsAppended ==
    ASSUME NEW j, NEW row, NEW u, Longer(j, row, u)
    PROVE  /\ \A a : AttemptEnded(u, a) =>
                     AttemptEnded(j, a) \/ (row.kind \in AttemptEndKinds /\ a = row.attempt)
           /\ \A a : AttemptReturned(u, a) =>
                     AttemptReturned(j, a) \/ (row.kind = "oracle_attempt_returned" /\ a = row.attempt)
           /\ \A r, a : AttemptStarted(j, r, a) => AttemptStarted(u, r, a)
           /\ row.kind = "oracle_attempt_started" => AttemptStarted(u, row.role, row.attempt)
<1>1. \A a : AttemptEnded(u, a) => AttemptEnded(j, a) \/ (row.kind \in AttemptEndKinds /\ a = row.attempt)
  BY RowsAppended DEF AttemptEnded, AttemptEnds, AttemptEndKinds
<1>2. \A a : AttemptReturned(u, a) =>
             AttemptReturned(j, a) \/ (row.kind = "oracle_attempt_returned" /\ a = row.attempt)
  BY RowsAppended DEF AttemptReturned
<1>3. \A r, a : AttemptStarted(j, r, a) => AttemptStarted(u, r, a)
  BY RowsAppended DEF AttemptStarted, AttemptStarts
<1>4. row.kind = "oracle_attempt_started" => AttemptStarted(u, row.role, row.attempt)
  BY RowsAppended DEF AttemptStarted, AttemptStarts
<1> QED BY <1>1, <1>2, <1>3, <1>4

\* The same for what it says of constructors.
LEMMA ConstructorsAppended ==
    ASSUME NEW j, NEW row, NEW u, Longer(j, row, u)
    PROVE  /\ \A b, i : SlotEnded(u, b, i) =>
                 SlotEnded(j, b, i) \/ (row.kind \in SlotEndKinds /\ b = row.batch /\ i = row.index)
           /\ \A b, i : SlotStarted(j, b, i) => SlotStarted(u, b, i)
           /\ \A r : OracleEnded(u, r) => OracleEnded(j, r) \/ (row.kind \in OracleEndKinds /\ r = row.role)
           /\ \A r : OracleStarted(j, r) => OracleStarted(u, r)
           /\ row.kind = "calculator_constructor_started" => SlotStarted(u, row.batch, row.index)
           /\ row.kind = "oracle_constructor_started" => OracleStarted(u, row.role)
<1>1. \A b, i : SlotEnded(u, b, i) =>
          SlotEnded(j, b, i) \/ (row.kind \in SlotEndKinds /\ b = row.batch /\ i = row.index)
  BY RowsAppended DEF SlotEnded, SlotEnds, SlotEndKinds
<1>2. \A r : OracleEnded(u, r) => OracleEnded(j, r) \/ (row.kind \in OracleEndKinds /\ r = row.role)
  BY RowsAppended DEF OracleEnded, OracleEnds, OracleEndKinds
<1>3. /\ \A b, i : SlotStarted(j, b, i) => SlotStarted(u, b, i)
      /\ row.kind = "calculator_constructor_started" => SlotStarted(u, row.batch, row.index)
  BY RowsAppended DEF SlotStarted, SlotStarts
<1>4. /\ \A r : OracleStarted(j, r) => OracleStarted(u, r)
      /\ row.kind = "oracle_constructor_started" => OracleStarted(u, row.role)
  BY RowsAppended DEF OracleStarted, OracleStarts
<1> QED BY <1>1, <1>2, <1>3, <1>4

\* What writing a row makes of the journal, whether it raises or not.
LEMMA Wrote ==
    ASSUME JournalTyped, NEW row \in JournalRows, row.sequence = sequence, NEW o \in Outcomes,
           Write(row, o), Premises
    PROVE  /\ journal' \in Seq(JournalRows) /\ sequence' \in 0 .. Len(journal') /\ faults' \in 0 .. MaxFaults
           /\ AttemptsGrow(IF row.kind \in AttemptEndKinds THEN {row.attempt} ELSE {},
                        IF row.kind = "oracle_attempt_returned" THEN {row.attempt} ELSE {})
           /\ ConstructorsGrow(IF row.kind \in SlotEndKinds /\ row.batch = batches THEN {row.index} ELSE {},
                               IF row.kind \in OracleEndKinds THEN {row.role} ELSE {})
              \/ (row.kind \in SlotEndKinds /\ row.batch # batches)
           /\ o # "lost" => Longer(journal, row, journal')
<1>1. CASE o = "lost"
  <2>1. journal' = journal /\ sequence' = sequence /\ faults' = faults + 1 /\ faults < MaxFaults
    BY <1>1 DEF Write
  <2>2. AttemptsGrow({}, {}) /\ ConstructorsGrow({}, {})
    BY <2>1, Unwritten
  <2> QED BY <1>1, <2>1, <2>2 DEF JournalTyped, AttemptsGrow, ConstructorsGrow, Premises, JournalAssumption
<1>2. CASE o # "lost"
  <2>1. /\ journal' = Append(journal, row) /\ sequence' \in {sequence, sequence + 1}
        /\ faults' = faults \/ (faults' = faults + 1 /\ faults < MaxFaults)
    BY <1>2 DEF Write
  <2>2. /\ Longer(journal, row, journal') /\ journal' \in Seq(JournalRows) /\ journal \in Seq(JournalRows)
        /\ Len(journal') = Len(journal) + 1
    BY <2>1, AppendedRow DEF JournalTyped, Longer
  <2>3. AttemptsGrow(IF row.kind \in AttemptEndKinds THEN {row.attempt} ELSE {},
                        IF row.kind = "oracle_attempt_returned" THEN {row.attempt} ELSE {})
    <3>1. \A r : /\ Counts(journal, r) \in Nat /\ Counts(journal', r) \in Nat
                 /\ Counts(journal, r) <= Counts(journal', r)
      BY <2>2, CountsAppended
    <3> QED BY <2>2, <3>1, AttemptsAppended DEF AttemptsGrow
  <2>4. ConstructorsGrow(IF row.kind \in SlotEndKinds /\ row.batch = batches THEN {row.index} ELSE {},
                         IF row.kind \in OracleEndKinds THEN {row.role} ELSE {})
              \/ (row.kind \in SlotEndKinds /\ row.batch # batches)
    BY <2>2, ConstructorsAppended DEF ConstructorsGrow
  <2>5. faults' \in 0 .. MaxFaults /\ sequence' \in 0 .. Len(journal')
    <3>1. MaxFaults \in Nat
      BY DEF Premises, JournalAssumption
    <3>2. faults \in 0 .. MaxFaults /\ sequence \in 0 .. Len(journal) /\ Len(journal) \in Nat
      BY DEF JournalTyped
    <3> QED BY <2>1, <2>2, <3>1, <3>2
  <2> QED BY <1>2, <2>1, <2>2, <2>3, <2>4, <2>5
<1> QED BY <1>1, <1>2

\* A row that begins no attempt leaves the numbers in order.
LEMMA NumberedStays ==
    ASSUME JournalTyped, Numbered, NEW row \in JournalRows, row.sequence = sequence, NEW o \in Outcomes,
           Write(row, o), Premises, row.kind # "oracle_attempt_started", UNCHANGED <<attempts, counts>>
    PROVE  Numbered'
<1>1. CASE o = "lost"
  BY <1>1 DEF Write, Numbered
<1>2. CASE o # "lost"
  <2> SUFFICES ASSUME KnownRows(journal')
               PROVE  /\ \A r \in Roles : Counts(journal', r) = counts[r]
                      /\ IF o = "written" THEN Len(journal') = sequence' ELSE Len(journal') = sequence' + 1
                      /\ journal'[Len(journal')].kind # "oracle_attempt_started"
    BY DEF Numbered
  <2>1. Longer(journal, row, journal') /\ sequence \in Nat
    BY <1>2, AppendedRow DEF JournalTyped, Write
  <2>2. /\ KnownRows(journal) /\ sequence = Len(journal)
        /\ Len(journal') = Len(journal) + 1 /\ journal'[Len(journal')] = row
        /\ Len(journal) \in Nat
    BY <2>1, KnownAppended DEF Longer
  <2>3. \A r \in Roles : Counts(journal, r) = counts[r]
    BY <2>2 DEF Numbered
  <2>4. \A r \in Roles : Counts(journal', r) = counts[r]
    BY <2>1, <2>3, CountsAppended
  <2>5. sequence' = IF o = "written" THEN sequence + 1 ELSE sequence
    BY <1>2 DEF Write
  <2> QED BY <2>1, <2>2, <2>4, <2>5
<1> QED BY <1>1, <1>2

\* Numbered is about these four only.
LEMMA NumberedSame ==
    ASSUME Numbered, UNCHANGED <<journal, sequence, attempts, counts>>
    PROVE  Numbered'
  BY DEF Numbered

\* No attempt begins: those in progress keep their place, or have ended.
LEMMA AttemptsStay ==
    ASSUME JournalTyped, AttemptRows, Tallied, UNCHANGED <<attempts, counts, calls>>,
           NEW E \in SUBSET (0 .. attempts - 1), NEW R, AttemptsGrow(E, R),
           \A r \in Roles, w \in Threads : Attempting(r, w)' =>
               /\ Attempting(r, w) /\ thread'[r][w].attempt = thread[r][w].attempt
               /\ thread'[r][w].at = "calling" <=> thread[r][w].at = "calling"
               /\ thread[r][w].attempt \notin E,
           \A a \in R : \E r \in Roles, w \in Threads :
               Attempting(r, w) /\ thread[r][w].attempt = a /\ thread[r][w].at = "calling"
    PROVE  AttemptRows' /\ Tallied'
<1>1. AttemptRows'
  <2>1. \A a : AttemptEnded(journal', a) => a \in 0 .. attempts - 1
    BY DEF AttemptRows, AttemptsGrow
  <2>2. ASSUME NEW r \in Roles, NEW w \in Threads, Attempting(r, w)'
        PROVE  /\ thread'[r][w].attempt \in 0 .. attempts - 1
               /\ AttemptStarted(journal', r, thread'[r][w].attempt)
               /\ ~AttemptEnded(journal', thread'[r][w].attempt)
    <3>1. /\ Attempting(r, w) /\ thread'[r][w].attempt = thread[r][w].attempt
          /\ thread[r][w].attempt \notin E
      BY <2>2
    <3> QED BY <3>1 DEF AttemptRows, AttemptsGrow
  <2>3. \A r, s \in Roles, v, w \in Threads :
          Attempting(r, v)' /\ Attempting(s, w)' /\ thread'[r][v].attempt = thread'[s][w].attempt =>
              r = s /\ v = w
    BY DEF AttemptRows
  <2> QED BY <2>1, <2>2, <2>3 DEF AttemptRows
<1>2. ASSUME NEW r \in Roles, NEW U, Uncalled(r, U)
      PROVE  Uncalled(r, U)'
  <2>1. \A a \in U : AttemptStarted(journal', r, a) /\ ~AttemptReturned(journal', a)
    <3> TAKE a \in U
    <3>1. AttemptStarted(journal, r, a) /\ ~AttemptReturned(journal, a)
      BY <1>2 DEF Uncalled
    <3>2. a \notin R
      BY <1>2 DEF Uncalled
    <3> QED BY <3>1, <3>2 DEF AttemptsGrow
  <2>2. \A s \in Roles, w \in Threads : Attempting(s, w)' =>
          (thread'[s][w].attempt \in U <=> s = r /\ thread'[s][w].at # "calling")
    BY <1>2 DEF Uncalled
  <2> QED BY <1>2, <2>1, <2>2 DEF Uncalled
<1>3. ASSUME NEW r \in Roles
      PROVE  (counts[r] <= Counts(journal, r))' /\ \E U \in SUBSET (0 .. attempts' - 1) : Uncalled(r, U)'
  <2>1. counts[r] <= Counts(journal, r) /\ counts[r] \in Nat
    BY DEF Tallied, JournalTyped
  <2>2. Counts(journal, r) \in Nat /\ Counts(journal', r) \in Nat /\ Counts(journal, r) <= Counts(journal', r)
    BY DEF AttemptsGrow
  <2>3. PICK U \in SUBSET (0 .. attempts - 1) : Uncalled(r, U)
    BY DEF Tallied
  <2>4. Uncalled(r, U)'
    BY <1>2, <2>3
  <2> QED BY <2>1, <2>2, <2>3, <2>4
<1> QED BY <1>1, <1>3 DEF Tallied

\* No thread moves and no batch starts or ends: the calculators stay where they are.
LEMMA PoolsStay ==
    ASSUME Pools, thread' = thread, \A r \in Roles : Working(r)' <=> Working(r),
           \A r \in Roles : Working(r) => batch'[r].size = batch[r].size /\ spare'[r] = spare[r]
    PROVE  Pools'
<1> SUFFICES ASSUME NEW r \in Roles
             PROVE  (IF Working(r) THEN Pool(r) ELSE thread[r] = [w \in Threads |-> IdleThread])'
  BY DEF Pools
<1>1. CASE Working(r)
  <2>1. Pool(r)'
    BY <1>1 DEF Pools, Pool
  <2> QED BY <1>1, <2>1
<1>2. CASE ~Working(r)
  BY <1>2 DEF Pools
<1> QED BY <1>1, <1>2

\* Nothing is constructed that was not before.
LEMMA ConstructorsStay ==
    ASSUME JournalTyped, ConstructorRows, ConstructorsGrow({}, {}), UNCHANGED batches,
           \A r \in Roles : pc'[r] \in InBatch => pc[r] \in InBatch /\ batch'[r].slot = batch[r].slot,
           \A r \in Roles : pc'[r] = "constructing" => pc[r] = "constructing",
           \A r \in Roles : pc'[r] \in {"absent", "making"} => pc[r] = pc'[r]
    PROVE  ConstructorRows'
<1>1. \A b, i : SlotEnded(journal', b, i) => b \in 0 .. batches
  BY DEF ConstructorRows, ConstructorsGrow
<1>2. \A r \in Roles : pc'[r] \in InBatch => \A i : SlotEnded(journal', batches, i) => i < batch'[r].slot
  BY DEF ConstructorRows, ConstructorsGrow
<1>3. \A r \in Roles : pc'[r] = "constructing" => SlotStarted(journal', batches, batch'[r].slot)
  BY DEF ConstructorRows, ConstructorsGrow, InBatch
<1>4. \A r \in Roles : pc'[r] \in {"absent", "making"} => ~OracleEnded(journal', r)
  BY DEF ConstructorRows, ConstructorsGrow
<1>5. \A r \in Roles : pc'[r] = "making" => OracleStarted(journal', r)
  BY DEF ConstructorRows, ConstructorsGrow
<1> QED BY <1>1, <1>2, <1>3, <1>4, <1>5 DEF ConstructorRows

\* Dividing up is division of positive numbers.
LEMMA DivideUp ==
    ASSUME NEW a \in Nat \ {0}, NEW b \in Nat \ {0} PROVE Ceiling(a, b) \in Nat \ {0}
<1>1. a + b - 1 >= b /\ a + b - 1 \in Nat
  OBVIOUS
<1>2. \A x \in Nat : x >= b => x \div b \in Nat \ {0}
  OBVIOUS
<1> QED BY <1>1, <1>2 DEF Ceiling

\* A batch has at least one chunk, of at least one structure.
LEMMA ChunkTypes ==
    ASSUME NEW size \in Nat \ {0}, NEW workers \in Nat \ {0}
    PROVE  ChunkSize(size, workers) \in Nat \ {0} /\ ChunkCount(size, workers) \in Nat \ {0}
<1>1. Smaller(workers, size) \in Nat \ {0}
  BY DEF Smaller
<1>2. ChunkSize(size, workers) \in Nat \ {0}
  BY <1>1, DivideUp DEF ChunkSize
<1> QED BY <1>2, DivideUp DEF ChunkCount

\* What TypeOK says of the batch of an oracle.
LEMMA RoleState ==
    ASSUME JournalTyped, NEW r \in Roles
    PROVE  /\ sequence \in Nat /\ batches \in Nat /\ batch[r] \in [id : Nat, size : Nat, slot : Nat]
           /\ batch[r].id \in Nat /\ batch[r].size \in Nat /\ batch[r].slot \in Nat
<1>1. Len(journal) \in Nat /\ sequence \in 0 .. Len(journal)
  BY DEF JournalTyped
<1>2. batch[r] \in [id : Nat, size : Nat, slot : Nat] /\ batches \in Nat
  BY DEF JournalTyped
<1> QED BY <1>1, <1>2

\* row is the next row of the journal, with this content.
Fields(row, kind, r, b, index, attempt) ==
    /\ row \in JournalRows /\ row.sequence = sequence /\ row.kind = kind /\ row.role = r
    /\ row.batch = b /\ row.index = index /\ row.attempt = attempt

\* A record with the next number is the next row.
LEMMA RecordFields ==
    ASSUME NEW k \in Kinds, NEW r \in Roles, NEW b \in Nat, NEW i \in Int, NEW a \in Int,
           NEW s \in {""} \cup Stages, sequence \in Nat
    PROVE  Fields([kind |-> k, sequence |-> sequence, role |-> r, batch |-> b, index |-> i, attempt |-> a,
                   stage |-> s], k, r, b, i, a)
  BY DEF JournalRows, Fields

\* Row makes the next row, of the batch of the oracle.
LEMMA RowFields ==
    ASSUME JournalTyped, NEW r \in Roles, NEW kind \in Kinds, NEW index \in Int, NEW attempt \in Int,
           NEW stage \in {""} \cup Stages
    PROVE  Fields(Row(kind, r, index, attempt, stage), kind, r, batch[r].id, index, attempt)
<1>1. sequence \in Nat /\ batch[r].id \in Nat
  BY RoleState
<1> QED BY <1>1, RecordFields DEF Row

\* Setting the batch of a row changes nothing else of it.
LEMMA FieldsExcept ==
    ASSUME NEW row, NEW k, NEW r, NEW b, NEW c \in Nat, NEW i, NEW a, Fields(row, k, r, b, i, a)
    PROVE  Fields([row EXCEPT !.batch = c], k, r, c, i, a)
  BY DEF Fields, JournalRows

\* A row that names another batch.
LEMMA RowOfBatch ==
    ASSUME JournalTyped, NEW r \in Roles, NEW kind \in Kinds, NEW index \in Int, NEW attempt \in Int,
           NEW stage \in {""} \cup Stages, NEW b \in Nat
    PROVE  Fields([Row(kind, r, index, attempt, stage) EXCEPT !.batch = b], kind, r, b, index, attempt)
  BY RowFields, FieldsExcept

\* Writing a row that speaks of no attempt, or none; S, O are the slots and
\* oracles whose construction it ends.
Unspoken(S, O) ==
    /\ journal' \in Seq(JournalRows) /\ sequence' \in 0 .. Len(journal') /\ faults' \in 0 .. MaxFaults
    /\ AttemptsGrow({}, {}) /\ ConstructorsGrow(S, O) /\ Numbered'

\* Writing a row that neither begins nor ends an attempt.
LEMMA ConstructorWritten ==
    ASSUME JournalInv, Premises, NEW row \in JournalRows, row.sequence = sequence,
           row.kind \notin AttemptEndKinds, row.kind # "oracle_attempt_started",
           row.kind \in SlotEndKinds => row.batch = batches,
           NEW o \in Outcomes, Write(row, o), UNCHANGED <<attempts, counts>>
    PROVE  /\ Unspoken(IF row.kind \in SlotEndKinds THEN {row.index} ELSE {},
                       IF row.kind \in OracleEndKinds THEN {row.role} ELSE {})
           /\ o # "lost" => Longer(journal, row, journal')
<1>1. row.kind # "oracle_attempt_returned"
  BY DEF AttemptEndKinds
<1>2. JournalTyped /\ Numbered
  BY DEF JournalInv
<1>3. Numbered'
  BY <1>2, NumberedStays
<1>4. /\ journal' \in Seq(JournalRows) /\ sequence' \in 0 .. Len(journal') /\ faults' \in 0 .. MaxFaults
      /\ AttemptsGrow({}, {})
      /\ ConstructorsGrow(IF row.kind \in SlotEndKinds /\ row.batch = batches THEN {row.index} ELSE {},
                          IF row.kind \in OracleEndKinds THEN {row.role} ELSE {})
      /\ o # "lost" => Longer(journal, row, journal')
  BY <1>1, <1>2, Wrote
<1> QED BY <1>3, <1>4 DEF Unspoken

\* A row of an oracle whose kind speaks of no attempt and ends no constructor.
Other == Kinds \ (AttemptEndKinds \cup SlotEndKinds \cup OracleEndKinds \cup {"oracle_attempt_started"})

\* Writing a row that begins or ends nothing.
LEMMA OtherWritten ==
    ASSUME JournalInv, Premises, NEW row \in JournalRows, row.sequence = sequence, row.kind \in Other,
           NEW o \in Outcomes, Write(row, o), UNCHANGED <<attempts, counts>>
    PROVE  Unspoken({}, {}) /\ (o # "lost" => Longer(journal, row, journal'))
<1>1. /\ row.kind \notin AttemptEndKinds /\ row.kind \notin SlotEndKinds /\ row.kind \notin OracleEndKinds
      /\ row.kind # "oracle_attempt_started"
  BY DEF Other
<1> QED BY <1>1, ConstructorWritten

\* Writing nothing.
LEMMA NothingWritten ==
    ASSUME JournalInv, UNCHANGED <<journal, sequence, attempts, counts, faults>>
    PROVE  Unspoken({}, {})
<1>1. JournalTyped /\ Numbered
  BY DEF JournalInv
<1> QED BY <1>1, Unwritten, NumberedSame DEF Unspoken, JournalTyped

\* Where an oracle stands: what the lifecycle lock allows.
OracleState(r) ==
    /\ pc[r] \in {"absent", "gone", "idle", "making"} \cup InBatch
    /\ (pc[r] \in InBatch \cup {"making"} => lifecycle = r)
    /\ (pc[r] \in InBatch => batch[r].size # 0 /\ batch[r].id = batches)
    /\ (\A s \in Roles : pc[s] \in InBatch \cup {"making"} /\ lifecycle = r => s = r)

\* That is what the invariant says of it.
LEMMA OracleFacts == ASSUME JournalInv, NEW r \in Roles PROVE OracleState(r)
  BY DEF JournalInv, JournalTyped, LockHeld, OracleState

\* A step in which no thread moves.
LEMMA ThreadsRest ==
    ASSUME JournalInv, NEW S, NEW O, Unspoken(S, O), UNCHANGED <<attempts, counts, calls, thread>>,
           JournalTyped', LockHeld', ConstructorRows',
           \A r \in Roles : Working(r)' <=> Working(r),
           \A r \in Roles : Working(r) => batch'[r].size = batch[r].size /\ spare'[r] = spare[r]
    PROVE  JournalInv'
<1>1. JournalTyped /\ AttemptRows /\ Tallied /\ Pools
  BY DEF JournalInv
<1>2. AttemptRows' /\ Tallied'
  <2>1. {} \in SUBSET (0 .. attempts - 1) /\ AttemptsGrow({}, {})
    BY DEF Unspoken
  <2>2. \A r \in Roles, w \in Threads : Attempting(r, w)' =>
               /\ Attempting(r, w) /\ thread'[r][w].attempt = thread[r][w].attempt
               /\ thread'[r][w].at = "calling" <=> thread[r][w].at = "calling"
               /\ thread[r][w].attempt \notin {}
    BY DEF Attempting
  <2> QED BY <1>1, <2>1, <2>2, AttemptsStay
<1>3. Pools'
  BY <1>1, PoolsStay
<1> QED BY <1>2, <1>3 DEF JournalInv, Unspoken

\* What Row writes.
LEMMA RowWritten ==
    ASSUME JournalInv, NEW r \in Roles, NEW kind \in Kinds, NEW index \in Int, NEW attempt \in Int,
           NEW stage \in {""} \cup Stages, NEW o, Write(Row(kind, r, index, attempt, stage), o)
    PROVE  \E row : Fields(row, kind, r, batch[r].id, index, attempt) /\ Write(row, o)
<1>1. Fields(Row(kind, r, index, attempt, stage), kind, r, batch[r].id, index, attempt)
  BY RowFields DEF JournalInv
<1> WITNESS Row(kind, r, index, attempt, stage)
<1> QED BY <1>1

\* What Plain writes, a row of no structure and no attempt.
LEMMA PlainWritten ==
    ASSUME JournalInv, NEW r \in Roles, NEW kind \in Kinds, NEW o, Write(Plain(kind, r), o)
    PROVE  \E row : Fields(row, kind, r, batch[r].id, -1, -1) /\ Write(row, o)
<1>1. PICK m \in Int : m = -1
  OBVIOUS
<1>2. Write(Row(kind, r, m, m, ""), o)
  BY <1>1 DEF Plain
<1>3. \E row : Fields(row, kind, r, batch[r].id, m, m) /\ Write(row, o)
  BY <1>2, RowWritten
<1> QED BY <1>1, <1>3

\* Beginning to construct an oracle keeps the invariant.
LEMMA BeginOracleKeeps ==
    ASSUME JournalInv, Premises, NEW r \in Roles, NEW o \in Outcomes, BeginOracle(r, o)
    PROVE  JournalInv'
<1>1. /\ pc[r] = "absent" /\ lifecycle = Nobody
      /\ IF o = "written" THEN pc' = [pc EXCEPT ![r] = "making"] /\ lifecycle' = r
                          ELSE pc' = [pc EXCEPT ![r] = "gone"] /\ lifecycle' = lifecycle
      /\ UNCHANGED <<attempts, counts, pending, batch, queue, spare, thread, failed, batches, calls>>
  BY DEF BeginOracle, ledger, work
<1>2. PICK row : Fields(row, "oracle_constructor_started", r, batch[r].id, -1, -1) /\ Write(row, o)
  BY PlainWritten DEF BeginOracle, Kinds
<1>3. Unspoken({}, {}) /\ (o # "lost" => Longer(journal, row, journal'))
  <2>1. row.kind \in Other
    BY <1>2 DEF Fields, Other, Kinds, AttemptEndKinds, SlotEndKinds, OracleEndKinds
  <2> QED BY <1>1, <1>2, <2>1, OtherWritten DEF Fields
<1>4. JournalTyped /\ pc \in [Roles -> {"absent", "gone", "idle", "making"} \cup InBatch]
  BY DEF JournalInv, JournalTyped
<1>5. JournalTyped'
  BY <1>1, <1>3, <1>4 DEF JournalTyped, Unspoken
<1>6. Nobody \notin Roles
  BY DEF Premises, JournalAssumption
<1>7. LockHeld'
  BY <1>1, <1>4, <1>6 DEF JournalInv, LockHeld, InBatch
<1>8. ConstructorRows'
  <2>1. ConstructorRows /\ ConstructorsGrow({}, {})
    BY <1>3 DEF JournalInv, Unspoken
  <2>2. o = "written" => OracleStarted(journal', r)
    BY <1>2, <1>3, ConstructorsAppended DEF Fields
  <2>3. ~OracleEnded(journal', r)
    BY <1>1, <2>1 DEF ConstructorRows, ConstructorsGrow
  <2>4. \A s \in Roles : s # r => pc'[s] = pc[s]
    BY <1>1, <1>4
  <2>5. pc'[r] = IF o = "written" THEN "making" ELSE "gone"
    BY <1>1, <1>4
  <2> QED BY <1>1, <2>1, <2>2, <2>3, <2>4, <2>5 DEF ConstructorRows, ConstructorsGrow, InBatch
<1>9. \A s \in Roles : Working(s)' <=> Working(s)
  BY <1>1, <1>4 DEF Working
<1> QED BY <1>1, <1>3, <1>5, <1>7, <1>8, <1>9, ThreadsRest

\* The end of its construction keeps it: its outcome is written, or it stays begun.
LEMMA EndOracleKeeps ==
    ASSUME JournalInv, Premises, NEW r \in Roles, NEW ok \in BOOLEAN, NEW o \in Outcomes, EndOracle(r, ok, o)
    PROVE  JournalInv'
<1> DEFINE kind == IF ok THEN "oracle_constructor_finished" ELSE "oracle_constructor_exception"
<1>1. /\ pc[r] = "making" /\ lifecycle' = Nobody
      /\ pc' = [pc EXCEPT ![r] = IF ok /\ o = "written" THEN "idle" ELSE "gone"]
      /\ UNCHANGED <<attempts, counts, pending, batch, queue, spare, thread, failed, batches, calls>>
      /\ Write(Plain(kind, r), o)
  BY DEF EndOracle, ledger, work
<1>2. kind \in Kinds /\ kind \in OracleEndKinds
  BY DEF Kinds, OracleEndKinds
<1> HIDE DEF kind
<1>3. PICK row : Fields(row, kind, r, batch[r].id, -1, -1) /\ Write(row, o)
  BY <1>1, <1>2, PlainWritten
<1>4. Unspoken({}, {r})
  <2>1. /\ row.kind \notin AttemptEndKinds /\ row.kind # "oracle_attempt_started"
        /\ row.kind \notin SlotEndKinds /\ row.kind \in OracleEndKinds
        /\ row \in JournalRows /\ row.sequence = sequence /\ row.role = r
    BY <1>2, <1>3 DEF Fields, AttemptEndKinds, SlotEndKinds, OracleEndKinds
  <2> QED BY <1>1, <1>3, <2>1, ConstructorWritten
<1>5. JournalTyped /\ pc \in [Roles -> {"absent", "gone", "idle", "making"} \cup InBatch]
  BY DEF JournalInv, JournalTyped
<1>6. JournalTyped'
  BY <1>1, <1>4, <1>5 DEF JournalTyped, Unspoken
<1>7. \A s \in Roles : s # r => pc'[s] = pc[s] /\ pc[s] \notin InBatch \cup {"making"}
  BY <1>1, <1>5, OracleFacts DEF OracleState
<1>8. pc'[r] \in {"idle", "gone"}
  BY <1>1, <1>5
<1>9. LockHeld'
  BY <1>1, <1>7, <1>8 DEF LockHeld, InBatch
<1>10. ConstructorRows'
  <2>1. ConstructorRows /\ ConstructorsGrow({}, {r})
    BY <1>4 DEF JournalInv, Unspoken
  <2> QED BY <1>1, <1>7, <1>8, <2>1 DEF ConstructorRows, ConstructorsGrow, InBatch
<1>11. \A s \in Roles : Working(s)' <=> Working(s)
  BY <1>1, <1>7, <1>8 DEF Working
<1> QED BY <1>1, <1>4, <1>6, <1>9, <1>10, <1>11, ThreadsRest

\* What the next batch of Work is.
LEMMA WorkFacts ==
    ASSUME Premises, NEW n \in Nat, n < MaxBatches
    PROVE  /\ n + 1 \in 1 .. MaxBatches /\ MaxBatches \in Nat
           /\ \A r, size : <<r, size>> \in Work[n + 1] => r \in Roles /\ size \in Nat \ {0}
<1>1. Work \in Seq(SUBSET (Roles \X (Nat \ {0})))
  BY DEF Premises, JournalAssumption
<1>2. MaxBatches \in Nat /\ n + 1 \in 1 .. Len(Work)
  BY <1>1 DEF MaxBatches
<1>3. Work[n + 1] \subseteq Roles \X (Nat \ {0})
  BY <1>1, <1>2
<1> QED BY <1>2, <1>3 DEF MaxBatches

\* A new batch keeps it: no row speaks of its number yet.
LEMMA BeginBatchKeeps ==
    ASSUME JournalInv, Premises, NEW r \in Roles, NEW size, NEW o \in Outcomes, BeginBatch(r, size, o)
    PROVE  JournalInv'
<1>1. /\ pc[r] = "idle" /\ lifecycle = Nobody /\ batches < MaxBatches /\ <<r, size>> \in Work[batches + 1]
      /\ batches' = batches + 1
      /\ Write([Row("oracle_batch_started", r, size, -1, "") EXCEPT !.batch = batches + 1], o)
      /\ IF o = "written"
         THEN /\ pc' = [pc EXCEPT ![r] = "identity"] /\ lifecycle' = r
              /\ batch' = [batch EXCEPT ![r] = [id |-> batches + 1, size |-> size, slot |-> 0]]
         ELSE pc' = pc /\ lifecycle' = lifecycle /\ batch' = batch
      /\ UNCHANGED <<attempts, counts, pending, queue, spare, thread, failed, calls>>
  BY DEF BeginBatch, LockFree, ledger, work
<1>2. JournalTyped /\ batches \in Nat /\ Nobody \notin Roles
  BY RoleState DEF JournalInv, Premises, JournalAssumption
<1>3. size \in Nat \ {0} /\ batches + 1 \in 0 .. MaxBatches /\ batches + 1 \in Nat
  <2>1. /\ batches + 1 \in 1 .. MaxBatches /\ MaxBatches \in Nat
        /\ \A q, n : <<q, n>> \in Work[batches + 1] => q \in Roles /\ n \in Nat \ {0}
    BY <1>1, <1>2, WorkFacts
  <2>2. size \in Nat \ {0}
    BY <1>1, <2>1
  <2> QED BY <1>2, <2>1, <2>2
<1>4. PICK row : Fields(row, "oracle_batch_started", r, batches + 1, size, -1) /\ Write(row, o)
  <2>1. PICK m \in Int : m = -1
    OBVIOUS
  <2>2. "oracle_batch_started" \in Kinds /\ size \in Int /\ "" \in {""} \cup Stages
    BY <1>3 DEF Kinds
  <2>3. Fields([Row("oracle_batch_started", r, size, m, "") EXCEPT !.batch = batches + 1],
               "oracle_batch_started", r, batches + 1, size, m)
    BY <1>2, <1>3, <2>2, RowOfBatch
  <2> QED BY <1>1, <2>1, <2>3
<1>5. Unspoken({}, {})
  <2>1. row.kind \in Other
    BY <1>4 DEF Fields, Other, Kinds, AttemptEndKinds, SlotEndKinds, OracleEndKinds
  <2> QED BY <1>1, <1>4, <2>1, OtherWritten DEF Fields
<1>6. \A s \in Roles : pc[s] \notin InBatch \cup {"making"}
  BY <1>1, <1>2, OracleFacts DEF OracleState
<1>7. /\ pc \in [Roles -> {"absent", "gone", "idle", "making"} \cup InBatch]
      /\ batch \in [Roles -> [id : Nat, size : Nat, slot : Nat]]
  BY <1>2 DEF JournalTyped
<1>8. /\ \A s \in Roles : s # r => pc'[s] = pc[s] /\ batch'[s] = batch[s]
      /\ o = "written" => /\ pc'[r] = "identity" /\ batch'[r].id = batches + 1
                          /\ batch'[r].size = size /\ batch'[r].slot = 0
      /\ o # "written" => pc'[r] = "idle"
  <2>1. CASE o = "written"
    <3>1. batch'[r] = [id |-> batches + 1, size |-> size, slot |-> 0]
      BY <1>1, <1>7, <2>1
    <3>2. batch'[r].id = batches + 1 /\ batch'[r].size = size /\ batch'[r].slot = 0
      BY <3>1
    <3>3. /\ \A s \in Roles : s # r => pc'[s] = pc[s] /\ batch'[s] = batch[s]
          /\ pc'[r] = "identity"
      BY <1>1, <1>7, <2>1
    <3> QED BY <2>1, <3>2, <3>3
  <2>2. CASE o # "written"
    BY <1>1, <1>7, <2>2
  <2> QED BY <2>1, <2>2
<1>9. JournalTyped'
  <2>1. [id |-> batches + 1, size |-> size, slot |-> 0] \in [id : Nat, size : Nat, slot : Nat]
    BY <1>3
  <2>2. /\ pc' \in [Roles -> {"absent", "gone", "idle", "making"} \cup InBatch]
        /\ batch' \in [Roles -> [id : Nat, size : Nat, slot : Nat]] /\ lifecycle' \in Roles \cup {Nobody}
    BY <1>1, <1>7, <2>1 DEF InBatch
  <2> QED BY <1>1, <1>2, <1>3, <1>5, <2>2 DEF JournalTyped, Unspoken
<1>10. LockHeld'
  BY <1>1, <1>3, <1>6, <1>8 DEF LockHeld, InBatch
<1>11. ConstructorRows'
  <2>1. ConstructorRows /\ ConstructorsGrow({}, {})
    BY <1>5 DEF JournalInv, Unspoken
  <2>2. \A b, i : SlotEnded(journal', b, i) => b \in 0 .. batches /\ b # batches + 1
    BY <1>2, <2>1 DEF ConstructorRows, ConstructorsGrow
  <2>3. \A s \in Roles : pc'[s] \notin {"making", "constructing"}
    BY <1>6, <1>8 DEF InBatch
  <2>4. \A b, i : SlotEnded(journal', b, i) => b \in 0 .. batches'
    <3> SUFFICES ASSUME NEW b, NEW i, SlotEnded(journal', b, i) PROVE b \in 0 .. batches + 1
      BY <1>1
    <3>1. b \in 0 .. batches
      BY <2>2
    <3> QED BY <1>2, <3>1
  <2>5. \A s \in Roles : pc'[s] \in InBatch => \A i : SlotEnded(journal', batches', i) => i < batch'[s].slot
    BY <1>1, <2>2
  <2>6. \A s \in Roles : pc'[s] = "absent" => pc[s] = "absent"
    BY <1>8
  <2>7. \A s \in Roles : pc'[s] = "absent" => ~OracleEnded(journal', s)
    BY <2>1, <2>6 DEF ConstructorRows, ConstructorsGrow
  <2> QED BY <2>3, <2>4, <2>5, <2>7 DEF ConstructorRows
<1>12. \A s \in Roles : ~Working(s)' /\ ~Working(s)
  BY <1>6, <1>8 DEF Working, InBatch
<1> QED BY <1>1, <1>5, <1>9, <1>10, <1>11, <1>12, ThreadsRest

\* The types of the invariant, one by one.
LEMMA TypedArrays ==
    ASSUME JournalInv
    PROVE  /\ pc \in [Roles -> {"absent", "gone", "idle", "making"} \cup InBatch]
           /\ batch \in [Roles -> [id : Nat, size : Nat, slot : Nat]]
           /\ queue \in [Roles -> Seq(Int \X Int)] /\ spare \in [Roles -> Seq(Nat)]
           /\ thread \in [Roles -> [Threads -> ThreadStates]] /\ failed \in [Roles -> BOOLEAN]
           /\ counts \in [Roles -> Nat] /\ calls \in [Roles -> Nat]
           /\ JournalTyped /\ batches \in Nat /\ attempts \in Nat /\ sequence \in Nat
<1>1. JournalTyped
  BY DEF JournalInv
<1>2. Len(journal) \in Nat
  BY <1>1 DEF JournalTyped
<1>3. batches \in Nat /\ attempts \in Nat /\ sequence \in Nat
  BY <1>1, <1>2 DEF JournalTyped
<1> QED BY <1>1, <1>3 DEF JournalTyped

\* The place of one oracle changes inside its batch.
LEMMA InBatchKeeps ==
    ASSUME JournalInv, NEW r \in Roles, pc[r] \in InBatch \ {"evaluating"},
           NEW p \in InBatch \ {"evaluating", "constructing"}, pc' = [pc EXCEPT ![r] = p],
           Unspoken({}, {}), UNCHANGED <<ledger, lifecycle, batch, work, batches, calls>>
    PROVE  JournalInv'
<1>1. UNCHANGED <<attempts, counts, pending, queue, spare, thread, failed>>
  BY DEF ledger, work
<1>2. /\ pc' \in [Roles -> {"absent", "gone", "idle", "making"} \cup InBatch]
      /\ pc'[r] = p /\ \A s \in Roles : s # r => pc'[s] = pc[s]
  BY TypedArrays
<1>3. JournalTyped'
  BY <1>1, <1>2, TypedArrays DEF JournalTyped, Unspoken
<1>4. LockHeld'
  BY <1>2 DEF JournalInv, LockHeld
<1>5. \A s \in Roles : Working(s)' <=> Working(s)
  BY <1>2 DEF Working
<1>6. ConstructorRows'
  <2>1. JournalTyped /\ ConstructorRows /\ ConstructorsGrow({}, {})
    BY DEF JournalInv, Unspoken
  <2>2. /\ \A s \in Roles : pc'[s] \in InBatch => pc[s] \in InBatch /\ batch'[s].slot = batch[s].slot
        /\ \A s \in Roles : pc'[s] = "constructing" => pc[s] = "constructing"
        /\ \A s \in Roles : pc'[s] \in {"absent", "making"} => pc[s] = pc'[s]
    BY <1>2 DEF InBatch
  <2> QED BY <2>1, <2>2, ConstructorsStay
<1> QED BY <1>1, <1>3, <1>4, <1>5, <1>6, ThreadsRest

\* An input whose identity cannot be computed keeps it.
LEMMA IdentityRaisesKeeps ==
    ASSUME JournalInv, NEW r \in Roles, IdentityRaises(r)
    PROVE  JournalInv'
<1>1. Unspoken({}, {})
  BY NothingWritten DEF IdentityRaises, ledger
<1>2. pc[r] \in InBatch \ {"evaluating"} /\ "raising-identity" \in InBatch \ {"evaluating", "constructing"}
  BY DEF IdentityRaises, InBatch
<1> QED BY <1>1, <1>2, InBatchKeeps DEF IdentityRaises

\* Beginning to construct a calculator keeps it.
LEMMA BeginCalculatorKeeps ==
    ASSUME JournalInv, Premises, NEW r \in Roles, NEW o \in Outcomes, BeginCalculator(r, o)
    PROVE  JournalInv'
<1>1. /\ pc[r] \in {"identity", "preparing"}
      /\ Write(Row("calculator_constructor_started", r, batch[r].slot, -1, ""), o)
      /\ pc' = [pc EXCEPT ![r] = IF o = "written" THEN "constructing" ELSE "raising-construction"]
      /\ UNCHANGED <<ledger, lifecycle, batch, work, batches, calls>>
  BY DEF BeginCalculator
<1>2. PICK row : Fields(row, "calculator_constructor_started", r, batch[r].id, batch[r].slot, -1) /\ Write(row, o)
  <2>1. PICK m \in Int : m = -1
    OBVIOUS
  <2>2. batch[r].slot \in Int /\ "calculator_constructor_started" \in Kinds /\ "" \in {""} \cup Stages
    BY RoleState DEF JournalInv, Kinds
  <2> QED BY <1>1, <2>1, <2>2, RowWritten
<1>3. Unspoken({}, {}) /\ (o # "lost" => Longer(journal, row, journal'))
  <2>1. row.kind \in Other
    BY <1>2 DEF Fields, Other, Kinds, AttemptEndKinds, SlotEndKinds, OracleEndKinds
  <2> QED BY <1>1, <1>2, <2>1, OtherWritten DEF Fields, ledger
<1>4. CASE o # "written"
  <2>1. pc[r] \in InBatch \ {"evaluating"} /\ "raising-construction" \in InBatch \ {"evaluating", "constructing"}
    BY <1>1 DEF InBatch
  <2> QED BY <1>1, <1>3, <1>4, <2>1, InBatchKeeps
<1>5. CASE o = "written"
  <2>1. /\ pc' \in [Roles -> {"absent", "gone", "idle", "making"} \cup InBatch]
        /\ pc'[r] = "constructing" /\ \A s \in Roles : s # r => pc'[s] = pc[s]
    BY <1>1, <1>5, TypedArrays DEF InBatch
  <2>2. UNCHANGED <<attempts, counts, pending, queue, spare, thread, failed>>
    BY <1>1 DEF ledger, work
  <2>3. JournalTyped'
    BY <1>1, <1>3, <2>1, <2>2, TypedArrays DEF JournalTyped, Unspoken
  <2>4. LockHeld'
    BY <1>1, <2>1 DEF JournalInv, LockHeld, InBatch
  <2>5. \A s \in Roles : Working(s)' <=> Working(s)
    BY <1>1, <2>1 DEF Working
  <2>6. SlotStarted(journal', batches, batch[r].slot)
    <3>1. batch[r].id = batches
      BY <1>1, OracleFacts DEF OracleState, InBatch
    <3> QED BY <1>2, <1>3, <1>5, <3>1, ConstructorsAppended DEF Fields
  <2>7. ConstructorRows'
    <3>1. ConstructorRows /\ ConstructorsGrow({}, {}) /\ pc[r] \in InBatch
      BY <1>1, <1>3 DEF JournalInv, Unspoken, InBatch
    <3> QED BY <1>1, <2>1, <2>6, <3>1 DEF ConstructorRows, ConstructorsGrow
  <2> QED BY <1>1, <1>3, <2>2, <2>3, <2>4, <2>5, <2>7, ThreadsRest
<1> QED BY <1>4, <1>5

\* Its end keeps it: the next slot is constructed only when this one is written.
LEMMA EndCalculatorKeeps ==
    ASSUME JournalInv, Premises, NEW r \in Roles, NEW ok \in BOOLEAN, NEW o \in Outcomes, EndCalculator(r, ok, o)
    PROVE  JournalInv'
<1> DEFINE kind == IF ok THEN "calculator_constructor_finished" ELSE "calculator_constructor_exception"
           slot == batch[r].slot
<1>1. /\ pc[r] = "constructing"
      /\ Write(Row(kind, r, slot, -1, ""), o)
      /\ pc' = [pc EXCEPT ![r] = IF ok /\ o = "written" THEN "preparing" ELSE "raising-construction"]
      /\ batch' = [batch EXCEPT ![r].slot = slot + 1]
      /\ UNCHANGED <<ledger, lifecycle, work, batches, calls>>
  BY DEF EndCalculator
<1>2. kind \in Kinds /\ kind \in SlotEndKinds
  BY DEF Kinds, SlotEndKinds
<1>3. slot \in Nat /\ batch[r] \in [id : Nat, size : Nat, slot : Nat]
  BY RoleState DEF JournalInv
<1> HIDE DEF kind
<1>4. batch[r].id = batches
  BY <1>1, OracleFacts DEF OracleState, InBatch
<1>5. PICK row : Fields(row, kind, r, batches, slot, -1) /\ Write(row, o)
  <2>1. PICK m \in Int : m = -1
    OBVIOUS
  <2>2. slot \in Int /\ "" \in {""} \cup Stages
    BY <1>3
  <2> QED BY <1>1, <1>2, <1>4, <2>1, <2>2, RowWritten
<1>6. Unspoken({slot}, {})
  <2>1. /\ row.kind \notin AttemptEndKinds /\ row.kind # "oracle_attempt_started"
        /\ row.kind \notin OracleEndKinds /\ row.kind \in SlotEndKinds /\ row.batch = batches
        /\ row \in JournalRows /\ row.sequence = sequence /\ row.index = slot
    BY <1>2, <1>5 DEF Fields, AttemptEndKinds, SlotEndKinds, OracleEndKinds
  <2> QED BY <1>1, <1>5, <2>1, ConstructorWritten DEF ledger
<1>7. UNCHANGED <<attempts, counts, pending, queue, spare, thread, failed>>
  BY <1>1 DEF ledger, work
<1>8. /\ pc' \in [Roles -> {"absent", "gone", "idle", "making"} \cup InBatch]
      /\ pc'[r] \in {"preparing", "raising-construction"} /\ \A s \in Roles : s # r => pc'[s] = pc[s]
  BY <1>1, TypedArrays DEF InBatch
<1>9. /\ batch' \in [Roles -> [id : Nat, size : Nat, slot : Nat]]
      /\ batch'[r].slot = slot + 1 /\ batch'[r].id = batch[r].id /\ batch'[r].size = batch[r].size
      /\ \A s \in Roles : s # r => batch'[s] = batch[s]
  <2>1. batch \in [Roles -> [id : Nat, size : Nat, slot : Nat]] /\ slot + 1 \in Nat
    BY <1>3, TypedArrays
  <2>2. /\ batch'[r] = [batch[r] EXCEPT !.slot = slot + 1]
        /\ \A s \in Roles : s # r => batch'[s] = batch[s]
        /\ batch' = [batch EXCEPT ![r] = [batch[r] EXCEPT !.slot = slot + 1]]
    BY <1>1, <2>1
  <2>3. [batch[r] EXCEPT !.slot = slot + 1] \in [id : Nat, size : Nat, slot : Nat]
    BY <1>3, <2>1
  <2> QED BY <1>3, <2>1, <2>2, <2>3
<1>10. JournalTyped'
  BY <1>1, <1>6, <1>7, <1>8, <1>9, TypedArrays DEF JournalTyped, Unspoken
<1>11. LockHeld'
  BY <1>1, <1>8, <1>9 DEF JournalInv, LockHeld, InBatch
<1>12. \A s \in Roles : Working(s)' <=> Working(s)
  BY <1>1, <1>8 DEF Working
<1>13. ConstructorRows'
  <2>1. ConstructorRows /\ ConstructorsGrow({slot}, {}) /\ pc[r] \in InBatch
    BY <1>1, <1>6 DEF JournalInv, Unspoken, InBatch
  <2>2. \A b, i : SlotEnded(journal', b, i) => b \in 0 .. batches
    <3>1. batches \in Nat
      BY TypedArrays
    <3> QED BY <2>1, <3>1 DEF ConstructorRows, ConstructorsGrow
  <2>3. \A s \in Roles : s # r => pc'[s] \notin InBatch
    BY <1>1, <1>8, OracleFacts DEF OracleState, InBatch
  <2>4. \A i : SlotEnded(journal', batches, i) => i < batch'[r].slot
    <3> SUFFICES ASSUME NEW i, SlotEnded(journal', batches, i) PROVE i < slot + 1
      BY <1>9
    <3>1. CASE SlotEnded(journal, batches, i)
      <4>1. i < slot
        BY <2>1, <3>1 DEF ConstructorRows
      <4>2. i \in Int
        <5>1. journal \in Seq(JournalRows)
          BY DEF JournalInv, JournalTyped
        <5>2. PICK e \in DOMAIN journal : journal[e].index = i
          BY <3>1 DEF SlotEnded, SlotEnds, Rows
        <5>3. journal[e] \in JournalRows
          BY <5>1, <5>2
        <5> QED BY <5>2, <5>3 DEF JournalRows
      <4> QED BY <1>3, <4>1, <4>2
    <3>2. CASE i = slot
      BY <1>3, <3>2
    <3> QED BY <2>1, <3>1, <3>2 DEF ConstructorsGrow
  <2> QED BY <1>1, <1>8, <2>1, <2>2, <2>3, <2>4 DEF ConstructorRows, ConstructorsGrow, InBatch
<1> QED BY <1>1, <1>6, <1>7, <1>9, <1>10, <1>11, <1>12, <1>13, ThreadsRest

\* Every oracle has a worker.
LEMMA WorkersType == ASSUME Premises, NEW r \in Roles PROVE Workers[r] \in Nat \ {0}
  BY DEF Premises, WorkersAssumption

\* No thread moves, so no attempt does.
LEMMA SameAttempts ==
    ASSUME JournalInv, UNCHANGED <<attempts, counts, calls, thread>>, AttemptsGrow({}, {})
    PROVE  AttemptRows' /\ Tallied'
<1>1. {} \in SUBSET (0 .. attempts - 1) /\ JournalTyped /\ AttemptRows /\ Tallied
  BY DEF JournalInv
<1>2. \A q \in Roles, w \in Threads : Attempting(q, w)' =>
          /\ Attempting(q, w) /\ thread'[q][w].attempt = thread[q][w].attempt
          /\ thread'[q][w].at = "calling" <=> thread[q][w].at = "calling"
          /\ thread[q][w].attempt \notin {}
  BY DEF Attempting
<1> QED BY <1>1, <1>2, AttemptsStay

\* What the chunks of a batch are.
LEMMA ChunksTyped ==
    ASSUME JournalInv, Premises, NEW r \in Roles, batch[r].size # 0
    PROVE  Chunks(r) \in Seq(Int \X Int) /\ Prepared(r) \in Nat
<1>1. batch[r].size \in Nat \ {0} /\ Workers[r] \in Nat \ {0}
  BY RoleState, WorkersType DEF JournalInv
<1>2. PICK n, step : n = ChunkCount(batch[r].size, Workers[r]) /\ step = ChunkSize(batch[r].size, Workers[r])
  OBVIOUS
<1>3. n \in Nat /\ step \in Nat
  BY <1>1, <1>2, ChunkTypes
<1>4. \A k \in 1 .. n : <<(k - 1) * step, Smaller(k * step, batch[r].size) - 1>> \in Int \X Int
  BY <1>1, <1>3 DEF Smaller
<1>5. Chunks(r) = [k \in 1 .. n |-> <<(k - 1) * step, Smaller(k * step, batch[r].size) - 1>>]
  BY <1>2 DEF Chunks
<1>6. Chunks(r) \in Seq(Int \X Int)
  <2> HIDE DEF Chunks
  <2> DEFINE f == [k \in 1 .. n |-> <<(k - 1) * step, Smaller(k * step, batch[r].size) - 1>>]
  <2>1. f \in [1 .. n -> Int \X Int]
    BY <1>4
  <2> HIDE DEF f
  <2>2. f \in Seq(Int \X Int)
    BY <1>3, <2>1
  <2> QED BY <1>5, <2>2 DEF f
<1> QED BY <1>2, <1>3, <1>6 DEF Prepared

\* Handing out chunks keeps it: every calculator is spare and no thread works.
LEMMA EvaluationStarts ==
    ASSUME JournalInv, Premises, NEW r \in Roles, pc[r] \in {"identity", "preparing"}, StartEvaluation(r),
           Unspoken({}, {}), UNCHANGED <<ledger, lifecycle, batch, batches, calls>>
    PROVE  JournalInv'
<1>1. /\ pc' = [pc EXCEPT ![r] = "evaluating"] /\ queue' = [queue EXCEPT ![r] = Chunks(r)]
      /\ spare' = [spare EXCEPT ![r] = [k \in 1 .. Prepared(r) |-> k - 1]]
      /\ UNCHANGED <<attempts, counts, pending, thread, failed>>
  BY DEF StartEvaluation, ledger
<1>2. batch[r].size # 0 /\ pc[r] \in InBatch /\ pc[r] # "evaluating"
  BY OracleFacts DEF OracleState, InBatch
<1>3. PICK n \in Nat : n = Prepared(r)
  BY <1>2, ChunksTyped
<1>4. PICK new : new = [k \in 1 .. n |-> k - 1]
  OBVIOUS
<1>5. /\ new \in Seq(Nat) /\ DOMAIN new = 1 .. n /\ \A k \in 1 .. n : new[k] = k - 1
      /\ spare' = [spare EXCEPT ![r] = new]
  BY <1>1, <1>3, <1>4
<1>6. /\ pc' \in [Roles -> {"absent", "gone", "idle", "making"} \cup InBatch]
      /\ pc'[r] = "evaluating" /\ \A s \in Roles : s # r => pc'[s] = pc[s]
  BY <1>1, TypedArrays DEF InBatch
<1>7. /\ spare' \in [Roles -> Seq(Nat)] /\ spare'[r] = new /\ \A s \in Roles : s # r => spare'[s] = spare[s]
      /\ queue' \in [Roles -> Seq(Int \X Int)]
  BY <1>1, <1>2, <1>5, TypedArrays, ChunksTyped
<1>8. JournalTyped'
  BY <1>1, <1>6, <1>7, TypedArrays DEF JournalTyped, Unspoken
<1>9. LockHeld'
  BY <1>2, <1>6 DEF JournalInv, LockHeld, InBatch
<1>10. thread[r] = [w \in Threads |-> IdleThread]
  BY <1>2 DEF JournalInv, Pools, Working
<1>11. Pools'
  <2>1. Pool(r)'
    <3>1. \A w \in Threads : thread'[r][w] = IdleThread
      BY <1>1, <1>10
    <3>2. \A w \in Threads : thread'[r][w].calculator = -1 /\ thread'[r][w].at = "idle"
      BY <3>1 DEF IdleThread
    <3>3. \A k \in DOMAIN spare'[r] : spare'[r][k] = k - 1 /\ k \in Nat \ {0}
      BY <1>5, <1>7
    <3>4. \A i \in DOMAIN spare'[r], w \in Threads : spare'[r][i] # thread'[r][w].calculator
      BY <3>2, <3>3
    <3>5. \A i, k \in DOMAIN spare'[r] : spare'[r][i] = spare'[r][k] => i = k
      BY <3>3
    <3> QED BY <3>1, <3>2, <3>4, <3>5 DEF Pool
  <2>2. ASSUME NEW s \in Roles, s # r
        PROVE  IF Working(s)' THEN Pool(s)' ELSE thread'[s] = [w \in Threads |-> IdleThread]
    <3>1. Working(s)' <=> Working(s)
      BY <1>6, <2>2 DEF Working
    <3>2. CASE Working(s)
      <4>1. Pool(s)
        BY <3>2 DEF JournalInv, Pools
      <4>2. Pool(s)'
        BY <1>1, <1>7, <2>2, <4>1 DEF Pool
      <4> QED BY <3>1, <3>2, <4>2
    <3>3. CASE ~Working(s)
      BY <1>1, <3>1, <3>3 DEF JournalInv, Pools
    <3> QED BY <3>2, <3>3
  <2> QED BY <1>6, <2>1, <2>2 DEF Pools, Working
<1>12. AttemptRows' /\ Tallied'
  BY <1>1, SameAttempts DEF Unspoken
<1>13. ConstructorRows'
  <2>1. JournalTyped /\ ConstructorRows /\ ConstructorsGrow({}, {})
    BY DEF JournalInv, Unspoken
  <2>2. /\ \A s \in Roles : pc'[s] \in InBatch => pc[s] \in InBatch /\ batch'[s].slot = batch[s].slot
        /\ \A s \in Roles : pc'[s] = "constructing" => pc[s] = "constructing"
        /\ \A s \in Roles : pc'[s] \in {"absent", "making"} => pc[s] = pc'[s]
    BY <1>2, <1>6
  <2> QED BY <2>1, <2>2, ConstructorsStay
<1> QED BY <1>8, <1>9, <1>11, <1>12, <1>13 DEF JournalInv, Unspoken

\* The ready calculators of a batch keep it.
LEMMA CalculatorsReadyKeeps ==
    ASSUME JournalInv, Premises, NEW r \in Roles, NEW o \in Outcomes, CalculatorsReady(r, o)
    PROVE  JournalInv'
<1>1. /\ pc[r] = "preparing" /\ batch[r].slot = Prepared(r)
      /\ Write(Row("all_calculators_ready", r, Prepared(r), -1, ""), o)
      /\ UNCHANGED <<ledger, lifecycle, batch, batches, calls>>
  BY DEF CalculatorsReady
<1>2. PICK row : Fields(row, "all_calculators_ready", r, batch[r].id, Prepared(r), -1) /\ Write(row, o)
  <2>1. PICK m \in Int : m = -1
    OBVIOUS
  <2>2. Prepared(r) \in Nat
    BY <1>1, OracleFacts, ChunksTyped DEF OracleState, InBatch
  <2>3. Prepared(r) \in Int
    <3>1. \A n \in Nat : n \in Int
      OBVIOUS
    <3> QED BY <2>2, <3>1
  <2>4. "all_calculators_ready" \in Kinds /\ "" \in {""} \cup Stages
    BY DEF Kinds
  <2> QED BY <1>1, <2>1, <2>3, <2>4, RowWritten
<1>3. Unspoken({}, {})
  <2>1. row.kind \in Other
    BY <1>2 DEF Fields, Other, Kinds, AttemptEndKinds, SlotEndKinds, OracleEndKinds
  <2> QED BY <1>1, <1>2, <2>1, OtherWritten DEF Fields, ledger
<1>4. CASE o = "written"
  BY <1>1, <1>3, <1>4, EvaluationStarts DEF CalculatorsReady
<1>5. CASE o # "written"
  <2>1. pc[r] \in InBatch \ {"evaluating"} /\ "raising-construction" \in InBatch \ {"evaluating", "constructing"}
    BY <1>1 DEF InBatch
  <2>2. pc' = [pc EXCEPT ![r] = "raising-construction"] /\ UNCHANGED work
    BY <1>5 DEF CalculatorsReady
  <2> QED BY <1>1, <1>3, <2>1, <2>2, InBatchKeeps
<1> QED BY <1>4, <1>5

\* A batch of an oracle with one worker goes to its thread at once, and keeps it.
LEMMA EvaluateSeriallyKeeps ==
    ASSUME JournalInv, Premises, NEW r \in Roles, EvaluateSerially(r)
    PROVE  JournalInv'
<1>1. Unspoken({}, {})
  BY NothingWritten DEF EvaluateSerially, ledger
<1> QED BY <1>1, EvaluationStarts DEF EvaluateSerially

\* The thread w of the batch of r becomes t.
Moved(r, w, t) ==
    /\ thread' \in [Roles -> [Threads -> ThreadStates]] /\ thread'[r][w] = t
    /\ \A s \in Roles, v \in Threads : s # r \/ v # w => thread'[s][v] = thread[s][v]

\* SetThread moves one thread.
LEMMA ThreadMoved ==
    ASSUME JournalInv, NEW r \in Roles, NEW w \in Threads, NEW t \in ThreadStates, SetThread(r, w, t)
    PROVE  Moved(r, w, t)
<1>1. thread \in [Roles -> [Threads -> ThreadStates]]
  BY TypedArrays
<1>2. thread' = [thread EXCEPT ![r] = [thread[r] EXCEPT ![w] = t]]
  BY DEF SetThread
<1>3. PICK f : f = [thread[r] EXCEPT ![w] = t]
  OBVIOUS
<1>4. f \in [Threads -> ThreadStates] /\ f[w] = t /\ \A v \in Threads : v # w => f[v] = thread[r][v]
  BY <1>1, <1>3
<1>5. thread' = [thread EXCEPT ![r] = f]
  BY <1>2, <1>3
<1>6. /\ thread' \in [Roles -> [Threads -> ThreadStates]] /\ thread'[r] = f
      /\ \A s \in Roles : s # r => thread'[s] = thread[s]
  BY <1>1, <1>4, <1>5
<1> QED BY <1>4, <1>6 DEF Moved

\* What TypeOK says of a thread.
LEMMA ThreadType ==
    ASSUME JournalInv, NEW r \in Roles, NEW w \in Threads
    PROVE  /\ thread[r][w] \in ThreadStates
           /\ thread[r][w].item \in Int /\ thread[r][w].last \in Int /\ thread[r][w].calculator \in Int
           /\ thread[r][w].attempt \in Int
           /\ thread[r][w].at \in {"idle", "item", "counted", "calling", "raised"}
<1>1. thread[r][w] \in ThreadStates
  BY TypedArrays
<1> QED BY <1>1 DEF ThreadStates

\* Only the threads of a batch that is being evaluated do anything.
LEMMA BusyThread ==
    ASSUME JournalInv, NEW r \in Roles, NEW w \in Threads, thread[r][w].at # "idle"
    PROVE  Working(r) /\ Pool(r) /\ w <= ChunkCount(batch[r].size, Workers[r]) /\ pc[r] \in InBatch
<1>1. thread[r][w] # IdleThread
  BY DEF IdleThread
<1>2. Working(r) /\ Pool(r)
  BY <1>1 DEF JournalInv, Pools
<1> QED BY <1>1, <1>2 DEF Pool, Working, InBatch

\* Its calculator stays with the thread that moves.
LEMMA PoolsMove ==
    ASSUME JournalInv, NEW r \in Roles, NEW w \in Threads, NEW t, Moved(r, w, t),
           Working(r), w <= ChunkCount(batch[r].size, Workers[r]),
           t.calculator = thread[r][w].calculator,
           t.at = "calling" /\ Workers[r] > 1 => t.calculator # -1,
           UNCHANGED <<pc, batch, spare>>
    PROVE  Pools'
<1> SUFFICES ASSUME NEW s \in Roles
             PROVE  (IF Working(s) THEN Pool(s) ELSE thread[s] = [v \in Threads |-> IdleThread])'
  BY DEF Pools
<1>1. CASE s = r
  <2>1. Pool(r)
    BY DEF JournalInv, Pools
  <2>2. Pool(r)'
    <3>1. \A v \in Threads : thread'[r][v].calculator = thread[r][v].calculator
      BY DEF Moved
    <3>2. \A v \in Threads : thread'[r][v] # IdleThread => v <= ChunkCount(batch[r].size, Workers[r])
      BY <2>1 DEF Moved, Pool
    <3>3. Workers[r] > 1 => \A v \in Threads : thread'[r][v].at = "calling" => thread'[r][v].calculator # -1
      BY <2>1 DEF Moved, Pool
    <3> QED BY <2>1, <3>1, <3>2, <3>3 DEF Pool
  <2> QED BY <1>1, <2>2 DEF Working
<1>2. CASE s # r
  <2>1. Working(s)' <=> Working(s)
    BY DEF Working
  <2>2. thread \in [Roles -> [Threads -> ThreadStates]] /\ thread' \in [Roles -> [Threads -> ThreadStates]]
    BY TypedArrays DEF Moved
  <2>3. thread'[s] = thread[s]
    <3>1. \A v \in Threads : thread'[s][v] = thread[s][v]
      BY <1>2 DEF Moved
    <3>2. thread[s] \in [Threads -> ThreadStates] /\ thread'[s] \in [Threads -> ThreadStates]
      BY <2>2
    <3> QED BY <3>1, <3>2
  <2>4. CASE Working(s)
    <3>1. Pool(s)
      BY <2>4 DEF JournalInv, Pools
    <3>2. Pool(s)'
      BY <2>3, <3>1 DEF Pool
    <3> QED BY <2>1, <2>4, <3>2
  <2>5. CASE ~Working(s)
    BY <2>1, <2>3, <2>5 DEF JournalInv, Pools
  <2> QED BY <2>4, <2>5
<1> QED BY <1>1, <1>2

\* What a thread does concerns neither the lock nor a constructor.
LEMMA ThreadConstructs ==
    ASSUME JournalInv, UNCHANGED <<pc, batch, lifecycle, batches>>, ConstructorsGrow({}, {})
    PROVE  LockHeld' /\ ConstructorRows'
<1>1. LockHeld'
  BY DEF JournalInv, LockHeld
<1>2. JournalTyped /\ ConstructorRows
  BY DEF JournalInv
<1> QED BY <1>1, <1>2, ConstructorsStay

\* Cancelling the chunks nobody took keeps it.
LEMMA CancelChunksKeeps ==
    ASSUME JournalInv, NEW r \in Roles, CancelChunks(r)
    PROVE  JournalInv'
<1>1. /\ queue' = [queue EXCEPT ![r] = <<>>]
      /\ UNCHANGED <<journal, sequence, attempts, counts, pending, lifecycle, pc, batch, spare, thread, failed,
                     batches, calls, faults>>
  BY DEF CancelChunks, ledger
<1>2. Unspoken({}, {})
  BY <1>1, NothingWritten
<1>3. <<>> \in Seq(Int \X Int)
  OBVIOUS
<1>4. JournalTyped'
  BY <1>1, <1>2, <1>3, TypedArrays DEF JournalTyped, Unspoken
<1>5. LockHeld' /\ ConstructorRows'
  BY <1>1, <1>2, ThreadConstructs DEF Unspoken
<1>6. \A s \in Roles : Working(s)' <=> Working(s)
  BY <1>1 DEF Working
<1> QED BY <1>1, <1>2, <1>4, <1>5, <1>6, ThreadsRest

\* A thread is without an attempt after a step that resolves the one it had, if any.
LEMMA ThreadGoesOn ==
    ASSUME JournalInv, NEW r \in Roles, NEW w \in Threads, NEW t, Moved(r, w, t), t.at \in {"idle", "item"},
           UNCHANGED <<attempts, counts, calls>>, NEW E, NEW R, AttemptsGrow(E, R),
           Attempting(r, w) \/ (E = {} /\ R = {}),
           E \subseteq {thread[r][w].attempt}, R \subseteq {thread[r][w].attempt},
           R # {} => thread[r][w].at = "calling"
    PROVE  AttemptRows' /\ Tallied'
<1>1. JournalTyped /\ AttemptRows /\ Tallied
  BY DEF JournalInv
<1>2. E \in SUBSET (0 .. attempts - 1)
  BY <1>1 DEF AttemptRows
<1>3. \A s \in Roles, v \in Threads : Attempting(s, v)' =>
             /\ Attempting(s, v) /\ thread'[s][v].attempt = thread[s][v].attempt
             /\ thread'[s][v].at = "calling" <=> thread[s][v].at = "calling"
             /\ thread[s][v].attempt \notin E
  <2> TAKE s \in Roles, v \in Threads
  <2> HAVE Attempting(s, v)'
  <2>1. s # r \/ v # w
    BY DEF Moved, Attempting
  <2>2. thread'[s][v] = thread[s][v]
    BY <2>1 DEF Moved
  <2>3. Attempting(s, v)
    BY <2>2 DEF Attempting
  <2>4. Attempting(r, w) => thread[s][v].attempt # thread[r][w].attempt
    BY <1>1, <2>1, <2>3 DEF AttemptRows
  <2> QED BY <2>2, <2>3, <2>4
<1>4. \A a \in R : \E s \in Roles, v \in Threads :
             Attempting(s, v) /\ thread[s][v].attempt = a /\ thread[s][v].at = "calling"
  BY DEF Attempting
<1> QED BY <1>1, <1>2, <1>3, <1>4, AttemptsStay

\* Taking a chunk keeps it: the thread has no attempt.
LEMMA TakeChunkKeeps ==
    ASSUME JournalInv, NEW r \in Roles, NEW w \in Threads, TakeChunk(r, w)
    PROVE  JournalInv'
<1> DEFINE t == [thread[r][w] EXCEPT !.at = "item", !.item = Head(queue[r])[1], !.last = Head(queue[r])[2]]
<1>1. /\ Working(r) /\ queue[r] # <<>> /\ w <= ChunkCount(batch[r].size, Workers[r])
      /\ thread[r][w].at = "idle" /\ SetThread(r, w, t)
      /\ queue' = [queue EXCEPT ![r] = Tail(queue[r])]
      /\ UNCHANGED <<journal, sequence, attempts, counts, pending, lifecycle, pc, batch, spare, failed,
                     batches, calls, faults>>
  BY DEF TakeChunk, ledger
<1>2. queue[r] \in Seq(Int \X Int) /\ thread[r][w] \in ThreadStates
  BY TypedArrays
<1>3. Tail(queue[r]) \in Seq(Int \X Int) /\ Head(queue[r]) \in Int \X Int
  BY <1>1, <1>2
<1>4. t \in ThreadStates /\ t.at = "item" /\ t.calculator = thread[r][w].calculator
  BY <1>2, <1>3 DEF ThreadStates
<1> HIDE DEF t
<1>5. Moved(r, w, t)
  BY <1>1, <1>4, ThreadMoved
<1>6. Pools'
  BY <1>1, <1>4, <1>5, PoolsMove
<1>7. Unspoken({}, {})
  BY <1>1, NothingWritten
<1>8. JournalTyped'
  BY <1>1, <1>3, <1>5, <1>7, TypedArrays DEF JournalTyped, Unspoken, Moved
<1>9. LockHeld' /\ ConstructorRows'
  BY <1>1, <1>7, ThreadConstructs DEF Unspoken
<1>10. AttemptRows' /\ Tallied'
  <2>1. AttemptsGrow({}, {})
    BY <1>7 DEF Unspoken
  <2> QED BY <1>1, <1>4, <1>5, <2>1, ThreadGoesOn
<1> QED BY <1>6, <1>7, <1>8, <1>9, <1>10 DEF JournalInv, Unspoken

\* oracle_attempt_started is on disk: attempts is the number of a new attempt of r.
LEMMA NumberedAttempt ==
    ASSUME JournalInv, Premises, NEW r \in Roles, NEW b, NEW i, NEW o \in Outcomes, NEW row,
           Fields(row, "oracle_attempt_started", r, b, i, attempts), Write(row, o),
           IF o = "written" THEN attempts' = attempts + 1 /\ counts' = [counts EXCEPT ![r] = counts[r] + 1]
                            ELSE UNCHANGED <<attempts, counts>>
    PROVE  Numbered'
<1>1. row \in JournalRows /\ row.sequence = sequence /\ row.kind = "oracle_attempt_started" /\ row.role = r
  BY DEF Fields
<1>2. JournalTyped /\ Numbered /\ sequence \in Nat /\ attempts \in Nat /\ counts \in [Roles -> Nat]
  BY TypedArrays DEF JournalInv
<1>3. CASE o = "lost"
  BY <1>2, <1>3 DEF Write, Numbered
<1>4. CASE o # "lost"
  <2> SUFFICES ASSUME KnownRows(journal') PROVE Numbered'
    BY DEF Numbered
  <2>1. Longer(journal, row, journal')
    BY <1>1, <1>2, <1>4, AppendedRow DEF JournalTyped, Write
  <2>2. /\ KnownRows(journal) /\ sequence = Len(journal)
        /\ Len(journal') = Len(journal) + 1 /\ journal'[Len(journal')] = row
    BY <1>1, <2>1, KnownAppended DEF Longer
  <2>3. \A s \in Roles : Counts(journal, s) = counts[s]
    BY <1>2, <2>2 DEF Numbered
  <2>4. CASE o = "written"
    <3>1. sequence' = sequence + 1 /\ Len(journal') = sequence'
      BY <1>2, <2>2, <2>4 DEF Write
    <3>2. \A s \in Roles : Counts(journal', s) = counts'[s]
      BY <1>1, <1>2, <2>1, <2>3, <2>4, CountsAppended
    <3> QED BY <3>1, <3>2 DEF Numbered
  <2>5. CASE o # "written"
    <3>1. /\ Len(journal') = sequence' + 1 /\ attempts' = attempts
          /\ journal'[Len(journal')].kind = "oracle_attempt_started"
          /\ journal'[Len(journal')].attempt = attempts'
      BY <1>4, <2>2, <2>5 DEF Write, Fields
    <3> QED BY <3>1 DEF Numbered
  <2> QED BY <2>4, <2>5
<1> QED BY <1>3, <1>4

\* A new attempt of r, in progress in the thread w, is one that has not been evaluated.
LEMMA AttemptBegins ==
    ASSUME JournalInv, NEW r \in Roles, NEW w \in Threads, NEW t, Moved(r, w, t), t.at = "counted",
           t.attempt = attempts, attempts' = attempts + 1, calls' = calls,
           counts' = [counts EXCEPT ![r] = counts[r] + 1],
           AttemptsGrow({}, {}), AttemptStarted(journal', r, attempts),
           Counts(journal', r) = Counts(journal, r) + 1
    PROVE  AttemptRows' /\ Tallied'
<1>1. JournalTyped /\ AttemptRows /\ Tallied /\ attempts \in Nat /\ counts \in [Roles -> Nat]
  BY TypedArrays DEF JournalInv
<1>2. \A a : AttemptEnded(journal', a) => a \in 0 .. attempts - 1
  BY <1>1 DEF AttemptRows, AttemptsGrow
<1>3. ~AttemptEnded(journal', attempts) /\ ~AttemptReturned(journal', attempts)
  <2>1. ~AttemptEnded(journal', attempts)
    BY <1>1, <1>2
  <2>2. AttemptReturned(journal', attempts) => AttemptEnded(journal', attempts)
    BY DEF AttemptReturned, AttemptEnded, AttemptEnds, Rows
  <2> QED BY <2>1, <2>2
<1>4. \A s \in Roles, v \in Threads : s # r \/ v # w =>
          /\ thread'[s][v] = thread[s][v]
          /\ Attempting(s, v)' <=> Attempting(s, v)
          /\ Attempting(s, v) => thread[s][v].attempt \in 0 .. attempts - 1 /\ thread[s][v].attempt # attempts
  <2> TAKE s \in Roles, v \in Threads
  <2> HAVE s # r \/ v # w
  <2>1. thread'[s][v] = thread[s][v]
    BY DEF Moved
  <2>2. Attempting(s, v)' <=> Attempting(s, v)
    BY <2>1 DEF Attempting
  <2>3. Attempting(s, v) => thread[s][v].attempt \in 0 .. attempts - 1
    BY <1>1 DEF AttemptRows
  <2> QED BY <1>1, <2>1, <2>2, <2>3
<1>5. thread'[r][w].attempt = attempts /\ thread'[r][w].at = "counted"
  BY DEF Moved
<1>6. AttemptRows'
  <2>1. \A a : AttemptEnded(journal', a) => a \in 0 .. attempts' - 1
    <3> SUFFICES ASSUME NEW a, AttemptEnded(journal', a) PROVE a \in 0 .. attempts' - 1
      OBVIOUS
    <3>1. a \in 0 .. attempts - 1
      BY <1>2
    <3> QED BY <1>1, <3>1
  <2>2. ASSUME NEW s \in Roles, NEW v \in Threads, Attempting(s, v)'
        PROVE  /\ thread'[s][v].attempt \in 0 .. attempts' - 1
               /\ AttemptStarted(journal', s, thread'[s][v].attempt)
               /\ ~AttemptEnded(journal', thread'[s][v].attempt)
    <3>1. CASE s = r /\ v = w
      <4>1. attempts \in 0 .. attempts' - 1
        BY <1>1
      <4> QED BY <1>3, <1>5, <3>1, <4>1
    <3>2. CASE s # r \/ v # w
      <4>1. /\ thread'[s][v] = thread[s][v] /\ Attempting(s, v)
            /\ thread[s][v].attempt \in 0 .. attempts - 1
        BY <1>4, <2>2, <3>2
      <4>2. AttemptStarted(journal, s, thread[s][v].attempt) /\ ~AttemptEnded(journal, thread[s][v].attempt)
        BY <1>1, <4>1 DEF AttemptRows
      <4>3. thread[s][v].attempt \in 0 .. attempts' - 1
        BY <1>1, <4>1
      <4> QED BY <4>1, <4>2, <4>3 DEF AttemptsGrow
    <3> QED BY <3>1, <3>2
  <2>3. ASSUME NEW q \in Roles, NEW s \in Roles, NEW u \in Threads, NEW v \in Threads,
               Attempting(q, u)', Attempting(s, v)', thread'[q][u].attempt = thread'[s][v].attempt
        PROVE  q = s /\ u = v
    <3>1. CASE (q # r \/ u # w) /\ (s # r \/ v # w)
      <4>1. Attempting(q, u) /\ Attempting(s, v) /\ thread[q][u].attempt = thread[s][v].attempt
        BY <1>4, <2>3, <3>1
      <4> QED BY <1>1, <4>1 DEF AttemptRows
    <3>2. CASE q = r /\ u = w
      BY <1>4, <1>5, <2>3, <3>2
    <3>3. CASE s = r /\ v = w
      BY <1>4, <1>5, <2>3, <3>3
    <3> QED BY <3>1, <3>2, <3>3
  <2> QED BY <2>1, <2>2, <2>3 DEF AttemptRows
<1>7. ASSUME NEW s \in Roles
      PROVE  (counts[s] <= Counts(journal, s))' /\ \E U \in SUBSET (0 .. attempts' - 1) : Uncalled(s, U)'
  <2>1. PICK U \in SUBSET (0 .. attempts - 1) : Uncalled(s, U)
    BY <1>1 DEF Tallied
  <2>2. /\ counts[s] <= Counts(journal, s) /\ counts[s] \in Nat
        /\ Counts(journal, s) \in Nat /\ Counts(journal', s) \in Nat /\ Counts(journal, s) <= Counts(journal', s)
    BY <1>1 DEF Tallied, AttemptsGrow
  <2>3. U \in SUBSET (0 .. attempts' - 1) /\ IsFiniteSet(U) /\ Cardinality(U) \in Nat /\ attempts \notin U
    <3>1. IsFiniteSet(0 .. attempts - 1)
      BY <1>1, FS_Interval
    <3>2. IsFiniteSet(U) /\ Cardinality(U) \in Nat
      BY <3>1, FS_Subset, FS_CardinalityType
    <3> QED BY <1>1, <3>2
  <2>4. \A a \in U : AttemptStarted(journal', s, a) /\ ~AttemptReturned(journal', a)
    BY <2>1 DEF Uncalled, AttemptsGrow
  <2>5. calls[s] \in Nat /\ counts[s] = calls[s] + Cardinality(U)
    BY <2>1, TypedArrays DEF Uncalled
  <2>6. CASE s = r
    <3>1. counts'[r] = counts[r] + 1
      BY <1>1
    <3>2. Cardinality(U \cup {attempts}) = Cardinality(U) + 1
      BY <2>3, FS_AddElement
    <3>3. U \cup {attempts} \in SUBSET (0 .. attempts' - 1)
      BY <1>1, <2>3
    <3>4. counts'[r] = calls'[r] + Cardinality(U \cup {attempts})
      <4>1. PICK n \in Nat : n = Cardinality(U)
        BY <2>3
      <4> QED BY <2>2, <2>5, <2>6, <3>1, <3>2, <4>1
    <3>5. \A q \in Roles, v \in Threads : Attempting(q, v)' =>
            (thread'[q][v].attempt \in U \cup {attempts} <=> q = r /\ thread'[q][v].at # "calling")
      <4> TAKE q \in Roles, v \in Threads
      <4> HAVE Attempting(q, v)'
      <4>1. CASE q = r /\ v = w
        BY <1>5, <4>1
      <4>2. CASE q # r \/ v # w
        <5>1. thread'[q][v] = thread[q][v] /\ Attempting(q, v) /\ thread[q][v].attempt # attempts
          BY <1>4, <4>2
        <5>2. thread[q][v].attempt \in U <=> q = r /\ thread[q][v].at # "calling"
          BY <2>1, <2>6, <5>1 DEF Uncalled
        <5> QED BY <5>1, <5>2
      <4> QED BY <4>1, <4>2
    <3>6. \A a \in U \cup {attempts} : AttemptStarted(journal', r, a) /\ ~AttemptReturned(journal', a)
      BY <1>3, <2>4, <2>6
    <3>7. PICK V : V = U \cup {attempts}
      OBVIOUS
    <3>8. Uncalled(r, V)'
      BY <3>3, <3>4, <3>5, <3>6, <3>7 DEF Uncalled
    <3>9. counts'[r] <= Counts(journal', r)
      BY <2>2, <2>6, <3>1
    <3>10. V \in SUBSET (0 .. attempts' - 1)
      BY <3>3, <3>7
    <3> QED BY <2>6, <3>8, <3>9, <3>10
  <2>7. CASE s # r
    <3>1. counts'[s] = counts[s]
      BY <1>1, <2>7
    <3>2. \A q \in Roles, v \in Threads : Attempting(q, v)' =>
            (thread'[q][v].attempt \in U <=> q = s /\ thread'[q][v].at # "calling")
      <4> TAKE q \in Roles, v \in Threads
      <4> HAVE Attempting(q, v)'
      <4>1. CASE q = r /\ v = w
        BY <1>5, <2>3, <2>7, <4>1
      <4>2. CASE q # r \/ v # w
        <5>1. thread'[q][v] = thread[q][v] /\ Attempting(q, v)
          BY <1>4, <4>2
        <5>2. thread[q][v].attempt \in U <=> q = s /\ thread[q][v].at # "calling"
          BY <2>1, <5>1 DEF Uncalled
        <5> QED BY <5>1, <5>2
      <4> QED BY <4>1, <4>2
    <3>3. Uncalled(s, U)'
      BY <2>1, <2>3, <2>4, <3>1, <3>2 DEF Uncalled
    <3> QED BY <2>2, <2>3, <3>1, <3>3
  <2> QED BY <2>6, <2>7
<1> QED BY <1>6, <1>7 DEF Tallied

\* Counting an attempt keeps it: its row is written, and its number is new.
LEMMA CountAttemptKeeps ==
    ASSUME JournalInv, Premises, NEW r \in Roles, NEW w \in Threads, NEW o \in Outcomes, CountAttempt(r, w, o)
    PROVE  JournalInv'
<1>1. /\ thread[r][w].at = "item"
      /\ Write(Row("oracle_attempt_started", r, thread[r][w].item, attempts, ""), o)
      /\ UNCHANGED <<lifecycle, pc, batch, queue, spare, batches, calls>>
  BY DEF CountAttempt
<1>2. /\ Working(r) /\ w <= ChunkCount(batch[r].size, Workers[r])
      /\ thread[r][w] \in ThreadStates /\ attempts \in Nat /\ thread[r][w].item \in Int
  BY <1>1, BusyThread, ThreadType, TypedArrays
<1>3. PICK row : /\ Fields(row, "oracle_attempt_started", r, batch[r].id, thread[r][w].item, attempts)
                 /\ Write(row, o)
  <2>1. "oracle_attempt_started" \in Kinds /\ "" \in {""} \cup Stages /\ attempts \in Int
    BY <1>2 DEF Kinds
  <2> QED BY <1>1, <1>2, <2>1, RowWritten
<1>4. /\ row \in JournalRows /\ row.sequence = sequence /\ row.kind = "oracle_attempt_started"
      /\ row.role = r /\ row.attempt = attempts /\ JournalTyped
  BY <1>3 DEF Fields, JournalInv
<1>5. /\ journal' \in Seq(JournalRows) /\ sequence' \in 0 .. Len(journal') /\ faults' \in 0 .. MaxFaults
      /\ AttemptsGrow({}, {}) /\ ConstructorsGrow({}, {})
      /\ o # "lost" => Longer(journal, row, journal')
  <2>1. /\ row.kind \notin AttemptEndKinds /\ row.kind # "oracle_attempt_returned"
        /\ row.kind \notin SlotEndKinds /\ row.kind \notin OracleEndKinds
    BY <1>4 DEF AttemptEndKinds, SlotEndKinds, OracleEndKinds
  <2> QED BY <1>3, <1>4, <2>1, Wrote
<1>6. LockHeld' /\ ConstructorRows'
  BY <1>1, <1>5, ThreadConstructs
<1>7. CASE o = "written"
  <2> DEFINE t == [thread[r][w] EXCEPT !.at = "counted", !.attempt = attempts]
  <2>1. /\ attempts' = attempts + 1 /\ counts' = [counts EXCEPT ![r] = counts[r] + 1]
        /\ pending' = pending \cup {attempts} /\ SetThread(r, w, t) /\ failed' = failed
    BY <1>7 DEF CountAttempt, Counted
  <2>2. /\ t \in ThreadStates /\ t.at = "counted" /\ t.attempt = attempts
        /\ t.calculator = thread[r][w].calculator
    <3>1. attempts \in Int
      BY <1>2
    <3> QED BY <1>2, <3>1 DEF ThreadStates
  <2> HIDE DEF t
  <2>3. Moved(r, w, t)
    BY <2>1, <2>2, ThreadMoved
  <2>4. Pools'
    BY <1>1, <1>2, <2>2, <2>3, PoolsMove
  <2>5. AttemptRows' /\ Tallied'
    <3>1. Longer(journal, row, journal')
      BY <1>5, <1>7
    <3>2. AttemptStarted(journal', r, attempts)
      BY <1>4, <3>1, AttemptsAppended
    <3>3. Counts(journal', r) = Counts(journal, r) + 1
      BY <1>4, <3>1, CountsAppended
    <3> QED BY <1>1, <1>5, <2>1, <2>2, <2>3, <3>2, <3>3, AttemptBegins
  <2>6. Numbered'
    BY <1>3, <1>7, <2>1, NumberedAttempt
  <2>7. JournalTyped'
    <3>1. pending \subseteq 0 .. attempts - 1
      BY <1>4 DEF JournalTyped
    <3>2. pending' \subseteq 0 .. attempts' - 1 /\ attempts' \in Nat
      BY <1>2, <2>1, <3>1
    <3>3. counts' \in [Roles -> Nat]
      BY <2>1, TypedArrays
    <3> QED BY <1>1, <1>4, <1>5, <2>1, <2>3, <3>2, <3>3, TypedArrays DEF JournalTyped, Moved
  <2> QED BY <1>6, <2>4, <2>5, <2>6, <2>7 DEF JournalInv
<1>8. CASE o # "written"
  <2> DEFINE t == [thread[r][w] EXCEPT !.at = "idle"]
  <2>1. /\ UNCHANGED <<attempts, counts, pending>> /\ SetThread(r, w, t)
        /\ failed' = [failed EXCEPT ![r] = TRUE]
    BY <1>8 DEF CountAttempt, ChunkRaises, ledger
  <2>2. t \in ThreadStates /\ t.at = "idle" /\ t.calculator = thread[r][w].calculator
    BY <1>2 DEF ThreadStates
  <2> HIDE DEF t
  <2>3. Moved(r, w, t)
    BY <2>1, <2>2, ThreadMoved
  <2>4. Pools'
    BY <1>1, <1>2, <2>2, <2>3, PoolsMove
  <2>5. AttemptRows' /\ Tallied'
    BY <1>1, <1>5, <2>1, <2>2, <2>3, ThreadGoesOn
  <2>6. Numbered'
    BY <1>3, <1>8, <2>1, NumberedAttempt
  <2>7. JournalTyped'
    BY <1>1, <1>4, <1>5, <2>1, <2>3, TypedArrays DEF JournalTyped, Moved
  <2> QED BY <1>6, <2>4, <2>5, <2>6, <2>7 DEF JournalInv
<1> QED BY <1>7, <1>8

\* The attempt of the thread w goes on: it is evaluated now, or will not be.
LEMMA AttemptGoesOn ==
    ASSUME JournalInv, NEW r \in Roles, NEW w \in Threads, NEW t, Moved(r, w, t),
           thread[r][w].at = "counted", t.attempt = thread[r][w].attempt,
           UNCHANGED <<attempts, counts>>, AttemptsGrow({}, {}),
           \/ t.at = "raised" /\ calls' = calls
           \/ t.at = "calling" /\ calls' = [calls EXCEPT ![r] = calls[r] + 1]
    PROVE  AttemptRows' /\ Tallied'
<1>1. JournalTyped /\ AttemptRows /\ Tallied /\ attempts \in Nat
  BY TypedArrays DEF JournalInv
<1>2. \A s \in Roles, v \in Threads :
          /\ thread'[s][v].attempt = thread[s][v].attempt
          /\ Attempting(s, v)' <=> Attempting(s, v)
          /\ s # r \/ v # w => thread'[s][v].at = thread[s][v].at
  <2> TAKE s \in Roles, v \in Threads
  <2>1. CASE s = r /\ v = w
    BY <2>1 DEF Moved, Attempting
  <2>2. CASE s # r \/ v # w
    <3>1. thread'[s][v] = thread[s][v]
      BY <2>2 DEF Moved
    <3> QED BY <2>2, <3>1 DEF Attempting
  <2> QED BY <2>1, <2>2
<1>3. thread'[r][w].at = t.at
  BY DEF Moved
<1>4. AttemptRows'
  <2>1. \A a : AttemptEnded(journal', a) => a \in 0 .. attempts - 1
    BY <1>1 DEF AttemptRows, AttemptsGrow
  <2>2. ASSUME NEW s \in Roles, NEW v \in Threads, Attempting(s, v)'
        PROVE  /\ thread'[s][v].attempt \in 0 .. attempts - 1
               /\ AttemptStarted(journal', s, thread'[s][v].attempt)
               /\ ~AttemptEnded(journal', thread'[s][v].attempt)
    BY <1>1, <1>2, <2>2 DEF AttemptRows, AttemptsGrow
  <2>3. \A q, s \in Roles, u, v \in Threads :
          Attempting(q, u)' /\ Attempting(s, v)' /\ thread'[q][u].attempt = thread'[s][v].attempt =>
              q = s /\ u = v
    BY <1>1, <1>2 DEF AttemptRows
  <2> QED BY <2>1, <2>2, <2>3 DEF AttemptRows
<1>5. ASSUME NEW s \in Roles
      PROVE  (counts[s] <= Counts(journal, s))' /\ \E U \in SUBSET (0 .. attempts' - 1) : Uncalled(s, U)'
  <2>1. PICK U \in SUBSET (0 .. attempts - 1) : Uncalled(s, U)
    BY <1>1 DEF Tallied
  <2>2. counts'[s] <= Counts(journal', s)
    <3>1. counts[s] <= Counts(journal, s) /\ counts[s] \in Nat
      BY <1>1 DEF Tallied, JournalTyped
    <3>2. Counts(journal, s) \in Nat /\ Counts(journal', s) \in Nat /\ Counts(journal, s) <= Counts(journal', s)
      BY DEF AttemptsGrow
    <3> QED BY <3>1, <3>2
  <2>3. \A a \in U : AttemptStarted(journal', s, a) /\ ~AttemptReturned(journal', a)
    BY <2>1 DEF Uncalled, AttemptsGrow
  <2>4. counts[s] = calls[s] + Cardinality(U) /\ calls[s] \in Nat
    BY <2>1, TypedArrays DEF Uncalled
  <2>5. CASE s = r /\ t.at = "calling"
    <3>1. PICK a : a = thread[r][w].attempt
      OBVIOUS
    <3>2. a \in U
      BY <2>1, <2>5, <3>1 DEF Uncalled, Attempting
    <3>3. IsFiniteSet(U)
      <4>1. IsFiniteSet(0 .. attempts - 1)
        BY <1>1, FS_Interval
      <4> QED BY <4>1, FS_Subset
    <3>4. PICK V : V = U \ {a}
      OBVIOUS
    <3>5. Cardinality(V) = Cardinality(U) - 1 /\ Cardinality(U) \in Nat
      BY <3>2, <3>3, <3>4, FS_RemoveElement, FS_CardinalityType
    <3>6. calls'[s] = calls[s] + 1
      BY <2>5, TypedArrays
    <3>7. counts'[s] = calls'[s] + Cardinality(V)
      <4>1. PICK n \in Nat : n = Cardinality(U)
        BY <3>5
      <4> QED BY <2>4, <3>5, <3>6, <4>1
    <3>8. \A q \in Roles, v \in Threads : Attempting(q, v)' =>
            (thread'[q][v].attempt \in V <=> q = s /\ thread'[q][v].at # "calling")
      <4> TAKE q \in Roles, v \in Threads
      <4> HAVE Attempting(q, v)'
      <4>1. CASE q = r /\ v = w
        BY <1>2, <1>3, <2>5, <3>1, <3>4, <4>1
      <4>2. CASE q # r \/ v # w
        <5>1. /\ thread'[q][v].attempt = thread[q][v].attempt /\ thread'[q][v].at = thread[q][v].at
              /\ Attempting(q, v)
          BY <1>2, <4>2
        <5>2. thread[q][v].attempt # a
          <6>1. Attempting(r, w)
            BY DEF Attempting
          <6> QED BY <1>1, <3>1, <4>2, <5>1, <6>1 DEF AttemptRows
        <5>3. thread[q][v].attempt \in U <=> q = s /\ thread[q][v].at # "calling"
          BY <2>1, <5>1 DEF Uncalled
        <5> QED BY <3>4, <5>1, <5>2, <5>3
      <4> QED BY <4>1, <4>2
    <3>9. \A b \in V : AttemptStarted(journal', s, b) /\ ~AttemptReturned(journal', b)
      BY <2>3, <3>4
    <3>10. V \in SUBSET (0 .. attempts' - 1)
      BY <3>4
    <3>11. Uncalled(s, V)'
      BY <3>7, <3>8, <3>9, <3>10 DEF Uncalled
    <3> QED BY <2>2, <3>10, <3>11
  <2>6. CASE ~(s = r /\ t.at = "calling")
    <3>1. calls'[s] = calls[s]
      BY <2>6, TypedArrays
    <3>2. \A q \in Roles, v \in Threads : Attempting(q, v)' =>
            (thread'[q][v].attempt \in U <=> q = s /\ thread'[q][v].at # "calling")
      <4> TAKE q \in Roles, v \in Threads
      <4> HAVE Attempting(q, v)'
      <4>1. CASE q = r /\ v = w
        <5>1. thread[q][v].attempt \in U <=> q = s /\ thread[q][v].at # "calling"
          BY <2>1, <4>1 DEF Uncalled, Attempting
        <5> QED BY <1>2, <1>3, <2>6, <4>1, <5>1
      <4>2. CASE q # r \/ v # w
        <5>1. /\ thread'[q][v].attempt = thread[q][v].attempt /\ thread'[q][v].at = thread[q][v].at
              /\ Attempting(q, v)
          BY <1>2, <4>2
        <5>2. thread[q][v].attempt \in U <=> q = s /\ thread[q][v].at # "calling"
          BY <2>1, <5>1 DEF Uncalled
        <5> QED BY <5>1, <5>2
      <4> QED BY <4>1, <4>2
    <3>3. Uncalled(s, U)'
      BY <2>1, <2>3, <2>4, <3>1, <3>2 DEF Uncalled
    <3> QED BY <2>2, <3>3
  <2> QED BY <2>5, <2>6
<1> QED BY <1>4, <1>5 DEF Tallied

\* The numerical call keeps it: a counted attempt becomes an evaluated one.
LEMMA CallKeeps ==
    ASSUME JournalInv, NEW r \in Roles, NEW w \in Threads, Call(r, w), Premises
    PROVE  JournalInv'
<1> DEFINE t == [thread[r][w] EXCEPT !.at = "calling", !.calculator = thread[r][w].calculator]
<1>1. /\ thread[r][w].at = "counted" /\ (Workers[r] = 1 \/ thread[r][w].calculator # -1)
      /\ SetThread(r, w, t) /\ calls' = [calls EXCEPT ![r] = calls[r] + 1]
      /\ UNCHANGED <<journal, sequence, attempts, counts, pending, lifecycle, pc, batch, queue, spare, failed,
                     batches, faults>>
  BY DEF Call, Evaluates, ledger
<1>2. /\ Working(r) /\ w <= ChunkCount(batch[r].size, Workers[r])
      /\ thread[r][w] \in ThreadStates /\ thread[r][w].calculator \in Int
  BY <1>1, BusyThread, ThreadType
<1>3. /\ t \in ThreadStates /\ t.at = "calling" /\ t.attempt = thread[r][w].attempt
      /\ t.calculator = thread[r][w].calculator
  BY <1>2 DEF ThreadStates
<1> HIDE DEF t
<1>4. Moved(r, w, t)
  BY <1>1, <1>3, ThreadMoved
<1>5. Pools'
  <2>1. t.at = "calling" /\ Workers[r] > 1 => t.calculator # -1
    BY <1>1, <1>3
  <2> QED BY <1>1, <1>2, <1>3, <1>4, <2>1, PoolsMove
<1>6. Unspoken({}, {})
  BY <1>1, NothingWritten
<1>7. JournalTyped'
  <2>1. calls' \in [Roles -> Nat]
    BY <1>1, TypedArrays
  <2> QED BY <1>1, <1>4, <1>6, <2>1, TypedArrays DEF JournalTyped, Unspoken, Moved
<1>8. LockHeld' /\ ConstructorRows'
  BY <1>1, <1>6, ThreadConstructs DEF Unspoken
<1>9. AttemptRows' /\ Tallied'
  <2>1. AttemptsGrow({}, {})
    BY <1>6 DEF Unspoken
  <2> QED BY <1>1, <1>3, <1>4, <2>1, AttemptGoesOn
<1> QED BY <1>5, <1>6, <1>7, <1>8, <1>9 DEF JournalInv, Unspoken

\* The head of a sequence and what is left of it.
LEMMA Taken ==
    ASSUME NEW s \in Seq(Nat), s # <<>>
    PROVE  /\ Tail(s) \in Seq(Nat) /\ Head(s) \in Nat /\ Head(s) = s[1] /\ 1 \in DOMAIN s
           /\ \A i \in DOMAIN Tail(s) : i + 1 \in DOMAIN s /\ Tail(s)[i] = s[i + 1] /\ i \in Nat \ {0}
<1>1. Len(s) \in Nat \ {0} /\ DOMAIN s = 1 .. Len(s)
  OBVIOUS
<1>2. Tail(s) \in Seq(Nat) /\ Len(Tail(s)) = Len(s) - 1
  OBVIOUS
<1>3. DOMAIN Tail(s) = 1 .. Len(s) - 1
  BY <1>1, <1>2
<1>4. \A i \in 1 .. Len(s) - 1 : Tail(s)[i] = s[i + 1] /\ i + 1 \in 1 .. Len(s) /\ i \in Nat \ {0}
  BY <1>1
<1> QED BY <1>1, <1>2, <1>3, <1>4

\* The thread w takes the first spare calculator.
LEMMA CalculatorTaken ==
    ASSUME JournalInv, NEW r \in Roles, NEW w \in Threads, NEW t, Moved(r, w, t),
           thread[r][w].at # "idle", Workers[r] > 1, spare[r] # <<>>,
           t.calculator = Head(spare[r]), spare' = [spare EXCEPT ![r] = Tail(spare[r])],
           UNCHANGED <<pc, batch>>
    PROVE  Pools' /\ spare' \in [Roles -> Seq(Nat)]
<1>1. spare \in [Roles -> Seq(Nat)] /\ spare[r] \in Seq(Nat)
  BY TypedArrays
<1>2. PICK s : s = spare[r]
  OBVIOUS
<1>3. /\ Tail(s) \in Seq(Nat) /\ Head(s) \in Nat /\ Head(s) = s[1] /\ 1 \in DOMAIN s
      /\ \A i \in DOMAIN Tail(s) : i + 1 \in DOMAIN s /\ Tail(s)[i] = s[i + 1] /\ i \in Nat \ {0}
  BY <1>1, <1>2, Taken
<1>4. PICK u : u = Tail(s)
  OBVIOUS
<1>5. /\ spare' = [spare EXCEPT ![r] = u] /\ u \in Seq(Nat)
      /\ \A i \in DOMAIN u : i + 1 \in DOMAIN s /\ u[i] = s[i + 1] /\ i \in Nat \ {0}
      /\ t.calculator = s[1] /\ s[1] \in Nat /\ 1 \in DOMAIN s
  BY <1>2, <1>3, <1>4
<1>6. spare' \in [Roles -> Seq(Nat)] /\ spare'[r] = u /\ \A q \in Roles : q # r => spare'[q] = spare[q]
  BY <1>1, <1>5
<1>7. Working(r) /\ Pool(r) /\ w <= ChunkCount(batch[r].size, Workers[r])
  BY BusyThread
<1>8. /\ \A v \in Threads : thread[r][v].at = "calling" => thread[r][v].calculator # -1
      /\ \A v, x \in Threads : thread[r][v].calculator = thread[r][x].calculator =>
                               v = x \/ thread[r][v].calculator = -1
      /\ \A i \in DOMAIN s, v \in Threads : s[i] # thread[r][v].calculator
      /\ \A i, k \in DOMAIN s : s[i] = s[k] => i = k
      /\ \A v \in Threads : thread[r][v] # IdleThread => v <= ChunkCount(batch[r].size, Workers[r])
  BY <1>2, <1>7 DEF Pool
<1>9. /\ thread'[r][w].calculator = s[1]
      /\ \A v \in Threads : v # w => thread'[r][v] = thread[r][v]
  BY <1>5 DEF Moved
<1>10. Pool(r)'
  <2>1. \A v \in Threads : thread'[r][v] # IdleThread => v <= ChunkCount(batch[r].size, Workers[r])
    BY <1>7, <1>8, <1>9
  <2>2. \A v \in Threads : thread'[r][v].at = "calling" => thread'[r][v].calculator # -1
    <3>1. s[1] # -1
      BY <1>5
    <3> QED BY <1>8, <1>9, <3>1
  <2>3. \A v, x \in Threads : thread'[r][v].calculator = thread'[r][x].calculator =>
                              v = x \/ thread'[r][v].calculator = -1
    BY <1>5, <1>8, <1>9
  <2>4. \A i \in DOMAIN u, v \in Threads : u[i] # thread'[r][v].calculator
    <3> TAKE i \in DOMAIN u, v \in Threads
    <3>1. i + 1 \in DOMAIN s /\ u[i] = s[i + 1] /\ i + 1 # 1
      BY <1>5
    <3>2. CASE v = w
      BY <1>5, <1>8, <1>9, <3>1, <3>2
    <3>3. CASE v # w
      BY <1>8, <1>9, <3>1, <3>3
    <3> QED BY <3>2, <3>3
  <2>5. \A i, k \in DOMAIN u : u[i] = u[k] => i = k
    <3> TAKE i, k \in DOMAIN u
    <3> HAVE u[i] = u[k]
    <3>1. /\ i + 1 \in DOMAIN s /\ k + 1 \in DOMAIN s /\ s[i + 1] = s[k + 1]
          /\ i \in Nat /\ k \in Nat
      BY <1>5
    <3>2. i + 1 = k + 1
      BY <1>8, <3>1
    <3> QED BY <3>1, <3>2
  <2> QED BY <1>6, <2>1, <2>2, <2>3, <2>4, <2>5 DEF Pool
<1>11. ASSUME NEW q \in Roles, q # r
       PROVE  (IF Working(q) THEN Pool(q) ELSE thread[q] = [v \in Threads |-> IdleThread])'
  <2>1. Working(q)' <=> Working(q)
    BY DEF Working
  <2>2. thread \in [Roles -> [Threads -> ThreadStates]] /\ thread' \in [Roles -> [Threads -> ThreadStates]]
    BY TypedArrays DEF Moved
  <2>3. thread'[q] = thread[q]
    <3>1. \A v \in Threads : thread'[q][v] = thread[q][v]
      BY <1>11 DEF Moved
    <3>2. thread[q] \in [Threads -> ThreadStates] /\ thread'[q] \in [Threads -> ThreadStates]
      BY <2>2
    <3> QED BY <3>1, <3>2
  <2>4. CASE Working(q)
    <3>1. Pool(q)
      BY <2>4 DEF JournalInv, Pools
    <3>2. Pool(q)'
      BY <1>6, <1>11, <2>3, <3>1 DEF Pool
    <3> QED BY <2>1, <2>4, <3>2
  <2>5. CASE ~Working(q)
    BY <2>1, <2>3, <2>5 DEF JournalInv, Pools
  <2> QED BY <2>4, <2>5
<1>12. Working(r)'
  BY <1>7 DEF Working
<1> QED BY <1>6, <1>10, <1>11, <1>12 DEF Pools

\* Acquiring a calculator keeps it.
LEMMA AcquireKeeps ==
    ASSUME JournalInv, Premises, NEW r \in Roles, NEW w \in Threads, NEW o \in Outcomes, Acquire(r, w, o)
    PROVE  JournalInv'
<1> DEFINE c == Head(spare[r])
           t == [thread[r][w] EXCEPT !.at = IF o = "written" THEN "calling" ELSE "raised", !.calculator = c]
<1>1. /\ thread[r][w].at = "counted" /\ Workers[r] > 1 /\ spare[r] # <<>>
      /\ spare' = [spare EXCEPT ![r] = Tail(spare[r])]
      /\ Write(Row("calculator_assigned", r, c, -1, ""), o)
      /\ UNCHANGED <<attempts, counts, pending, lifecycle, pc, batch, queue, failed, batches>>
  BY DEF Acquire, Popped, ledger
<1>2. SetThread(r, w, t) /\ calls' = IF o = "written" THEN [calls EXCEPT ![r] = calls[r] + 1] ELSE calls
  BY DEF Acquire, Evaluates
<1>3. thread[r][w] \in ThreadStates /\ spare[r] \in Seq(Nat) /\ calls \in [Roles -> Nat]
  BY TypedArrays
<1>4. c \in Nat /\ c \in Int
  <2>1. c \in Nat
    BY <1>1, <1>3, Taken
  <2>2. \A n \in Nat : n \in Int
    OBVIOUS
  <2> QED BY <2>1, <2>2
<1>5. /\ t \in ThreadStates /\ t.attempt = thread[r][w].attempt /\ t.calculator = c
      /\ t.at = IF o = "written" THEN "calling" ELSE "raised"
  <2>1. (IF o = "written" THEN "calling" ELSE "raised") \in {"idle", "item", "counted", "calling", "raised"}
    OBVIOUS
  <2> QED BY <1>3, <1>4, <2>1 DEF ThreadStates
<1> HIDE DEF t
<1>6. Moved(r, w, t)
  BY <1>2, <1>5, ThreadMoved
<1>7. Pools' /\ spare' \in [Roles -> Seq(Nat)]
  BY <1>1, <1>5, <1>6, CalculatorTaken
<1>8. Unspoken({}, {})
  <2>1. PICK m \in Int : m = -1
    OBVIOUS
  <2>2. "calculator_assigned" \in Kinds /\ "" \in {""} \cup Stages
    BY DEF Kinds
  <2>3. PICK row : Fields(row, "calculator_assigned", r, batch[r].id, c, m) /\ Write(row, o)
    BY <1>1, <1>4, <2>1, <2>2, RowWritten
  <2>4. row.kind \in Other /\ row \in JournalRows /\ row.sequence = sequence
    BY <2>3 DEF Fields, Other, Kinds, AttemptEndKinds, SlotEndKinds, OracleEndKinds
  <2> QED BY <1>1, <2>3, <2>4, OtherWritten
<1>9. JournalTyped'
  <2>1. calls' \in [Roles -> Nat]
    BY <1>2, <1>3
  <2> QED BY <1>1, <1>6, <1>7, <1>8, <2>1, TypedArrays DEF JournalTyped, Unspoken, Moved
<1>10. LockHeld' /\ ConstructorRows'
  BY <1>1, <1>8, ThreadConstructs DEF Unspoken
<1>11. AttemptRows' /\ Tallied'
  <2>1. AttemptsGrow({}, {})
    BY <1>8 DEF Unspoken
  <2>2. \/ t.at = "raised" /\ calls' = calls
        \/ t.at = "calling" /\ calls' = [calls EXCEPT ![r] = calls[r] + 1]
    BY <1>2, <1>5
  <2> QED BY <1>1, <1>5, <1>6, <2>1, <2>2, AttemptGoesOn
<1> QED BY <1>7, <1>8, <1>9, <1>10, <1>11 DEF JournalInv, Unspoken

\* The row of an outcome, whether its write raises or not.
LEMMA OutcomeWritten ==
    ASSUME JournalInv, Premises, NEW r \in Roles, NEW w \in Threads, NEW kind \in AttemptEndKinds,
           NEW o \in Outcomes, Resolve(r, w, kind, o)
    PROVE  /\ journal' \in Seq(JournalRows) /\ sequence' \in 0 .. Len(journal') /\ faults' \in 0 .. MaxFaults
           /\ pending' \subseteq 0 .. attempts - 1
           /\ AttemptsGrow({thread[r][w].attempt},
                           IF kind = "oracle_attempt_returned" THEN {thread[r][w].attempt} ELSE {})
           /\ ConstructorsGrow({}, {}) /\ Numbered'
<1>1. /\ Write(Row(kind, r, thread[r][w].item, thread[r][w].attempt, ""), o)
      /\ pending' = IF o = "written" THEN pending \ {thread[r][w].attempt} ELSE pending
      /\ UNCHANGED <<attempts, counts>>
  BY DEF Resolve
<1>2. /\ thread[r][w].item \in Int /\ thread[r][w].attempt \in Int /\ kind \in Kinds /\ "" \in {""} \cup Stages
      /\ JournalTyped /\ Numbered
  BY ThreadType DEF JournalInv, AttemptEndKinds, Kinds
<1>3. PICK row : /\ Fields(row, kind, r, batch[r].id, thread[r][w].item, thread[r][w].attempt)
                 /\ Write(row, o)
  BY <1>1, <1>2, RowWritten
<1>4. /\ row \in JournalRows /\ row.sequence = sequence /\ row.kind = kind
      /\ row.attempt = thread[r][w].attempt
  BY <1>3 DEF Fields
<1>5. /\ row.kind # "oracle_attempt_started" /\ row.kind \notin SlotEndKinds /\ row.kind \notin OracleEndKinds
      /\ row.kind \in AttemptEndKinds
  BY <1>4 DEF AttemptEndKinds, SlotEndKinds, OracleEndKinds
<1>6. Numbered'
  BY <1>1, <1>2, <1>3, <1>4, <1>5, NumberedStays
<1>7. /\ journal' \in Seq(JournalRows) /\ sequence' \in 0 .. Len(journal') /\ faults' \in 0 .. MaxFaults
      /\ AttemptsGrow({thread[r][w].attempt},
                      IF row.kind = "oracle_attempt_returned" THEN {thread[r][w].attempt} ELSE {})
      /\ ConstructorsGrow({}, {})
  BY <1>2, <1>3, <1>4, <1>5, Wrote
<1>8. pending' \subseteq 0 .. attempts - 1
  BY <1>1, <1>2 DEF JournalTyped
<1> QED BY <1>4, <1>6, <1>7, <1>8

\* An attempt ends in the thread w, which goes on as t.
LEMMA OutcomeKeeps ==
    ASSUME JournalInv, Premises, NEW r \in Roles, NEW w \in Threads, NEW kind \in AttemptEndKinds,
           NEW o \in Outcomes, Resolve(r, w, kind, o), NEW t \in ThreadStates, SetThread(r, w, t),
           t.at \in {"idle", "item"}, t.calculator = thread[r][w].calculator, Attempting(r, w),
           kind = "oracle_attempt_returned" => thread[r][w].at = "calling",
           failed' \in [Roles -> BOOLEAN]
    PROVE  JournalInv'
<1>1. UNCHANGED <<attempts, counts, lifecycle, pc, batch, queue, spare, batches, calls>>
  BY DEF Resolve
<1>2. /\ journal' \in Seq(JournalRows) /\ sequence' \in 0 .. Len(journal') /\ faults' \in 0 .. MaxFaults
      /\ pending' \subseteq 0 .. attempts - 1
      /\ AttemptsGrow({thread[r][w].attempt},
                      IF kind = "oracle_attempt_returned" THEN {thread[r][w].attempt} ELSE {})
      /\ ConstructorsGrow({}, {}) /\ Numbered'
  BY OutcomeWritten
<1>3. Moved(r, w, t)
  BY ThreadMoved
<1>4. Working(r) /\ w <= ChunkCount(batch[r].size, Workers[r])
  BY BusyThread DEF Attempting
<1>5. Pools'
  BY <1>1, <1>3, <1>4, PoolsMove
<1>6. AttemptRows' /\ Tallied'
  <2>1. PICK E, R : /\ E = {thread[r][w].attempt}
                    /\ R = IF kind = "oracle_attempt_returned" THEN {thread[r][w].attempt} ELSE {}
    OBVIOUS
  <2>2. /\ AttemptsGrow(E, R) /\ E \subseteq {thread[r][w].attempt} /\ R \subseteq {thread[r][w].attempt}
        /\ R # {} => thread[r][w].at = "calling"
    BY <1>2, <2>1
  <2> QED BY <1>1, <1>3, <2>2, ThreadGoesOn
<1>7. LockHeld' /\ ConstructorRows'
  BY <1>1, <1>2, ThreadConstructs
<1>8. JournalTyped'
  BY <1>1, <1>2, <1>3, TypedArrays DEF JournalTyped, Moved
<1> QED BY <1>2, <1>5, <1>6, <1>7, <1>8 DEF JournalInv

\* A chunk that raises leaves its thread idle, with its calculator.
LEMMA RaisedChunk ==
    ASSUME JournalInv, NEW r \in Roles, NEW w \in Threads, ChunkRaises(r, w)
    PROVE  /\ failed' \in [Roles -> BOOLEAN]
           /\ \E t \in ThreadStates : SetThread(r, w, t) /\ t.at = "idle" /\ t.calculator = thread[r][w].calculator
<1> DEFINE t == [thread[r][w] EXCEPT !.at = "idle"]
<1>1. SetThread(r, w, t) /\ failed' = [failed EXCEPT ![r] = TRUE]
  BY DEF ChunkRaises
<1>2. t \in ThreadStates /\ t.at = "idle" /\ t.calculator = thread[r][w].calculator
  BY ThreadType DEF ThreadStates
<1>3. failed' \in [Roles -> BOOLEAN]
  BY <1>1, TypedArrays
<1> HIDE DEF t
<1> QED BY <1>1, <1>2, <1>3

\* An attempt that raised keeps it.
LEMMA ExceptKeeps ==
    ASSUME JournalInv, Premises, NEW r \in Roles, NEW w \in Threads, NEW o \in Outcomes, Except(r, w, o)
    PROVE  JournalInv'
<1>1. PICK kind \in AttemptEndKinds : kind = "oracle_attempt_exception"
  BY DEF AttemptEndKinds
<1>2. Attempting(r, w) /\ Resolve(r, w, kind, o) /\ ChunkRaises(r, w) /\ kind # "oracle_attempt_returned"
  BY <1>1 DEF Except, Attempting
<1>3. PICK t \in ThreadStates : SetThread(r, w, t) /\ t.at = "idle" /\ t.calculator = thread[r][w].calculator
  BY <1>2, RaisedChunk
<1>4. failed' \in [Roles -> BOOLEAN] /\ t.at \in {"idle", "item"}
  BY <1>2, <1>3, RaisedChunk
<1> QED BY <1>2, <1>3, <1>4, OutcomeKeeps

\* An attempt that returned keeps it.
LEMMA ReturnKeeps ==
    ASSUME JournalInv, Premises, NEW r \in Roles, NEW w \in Threads, NEW o \in Outcomes, Return(r, w, o)
    PROVE  JournalInv'
<1>1. PICK kind \in AttemptEndKinds : kind = "oracle_attempt_returned"
  BY DEF AttemptEndKinds
<1>2. Attempting(r, w) /\ Resolve(r, w, kind, o) /\ thread[r][w].at = "calling"
  BY <1>1 DEF Return, Attempting
<1>3. CASE o = "written"
  <2>1. SetThread(r, w, NextItem(thread[r][w])) /\ failed' \in [Roles -> BOOLEAN]
    BY <1>3, TypedArrays DEF Return
  <2>2. PICK u : u = thread[r][w]
    OBVIOUS
  <2>3. u \in ThreadStates /\ u.item \in Int /\ u.last \in Int
    BY <2>2, ThreadType
  <2>4. /\ NextItem(u) \in ThreadStates /\ NextItem(u).at \in {"idle", "item"}
        /\ NextItem(u).calculator = u.calculator
    <3>1. CASE u.item < u.last
      <4>1. u.item + 1 \in Int
        BY <2>3
      <4>2. NextItem(u) = [u EXCEPT !.at = "item", !.item = u.item + 1]
        BY <3>1 DEF NextItem
      <4> QED BY <2>3, <4>1, <4>2 DEF ThreadStates
    <3>2. CASE ~(u.item < u.last)
      <4>1. NextItem(u) = [u EXCEPT !.at = "idle"]
        BY <3>2 DEF NextItem
      <4> QED BY <2>3, <4>1 DEF ThreadStates
    <3> QED BY <3>1, <3>2
  <2>5. PICK t \in ThreadStates : t = NextItem(u)
    BY <2>4
  <2>6. SetThread(r, w, t) /\ t.at \in {"idle", "item"} /\ t.calculator = thread[r][w].calculator
    BY <2>1, <2>2, <2>4, <2>5
  <2> QED BY <1>2, <2>1, <2>6, OutcomeKeeps
<1>4. CASE o # "written"
  <2>1. ChunkRaises(r, w)
    BY <1>4 DEF Return
  <2>2. PICK t \in ThreadStates : SetThread(r, w, t) /\ t.at = "idle" /\ t.calculator = thread[r][w].calculator
    BY <2>1, RaisedChunk
  <2>3. failed' \in [Roles -> BOOLEAN] /\ t.at \in {"idle", "item"}
    BY <2>1, <2>2, RaisedChunk
  <2> QED BY <1>2, <2>2, <2>3, OutcomeKeeps
<1> QED BY <1>3, <1>4

\* The end of a batch, every thread of which is joined.
LEMMA EndBatchKeeps ==
    ASSUME JournalInv, NEW r \in Roles, pc[r] \in InBatch, EndBatch(r), Unspoken({}, {}),
           \A w \in Threads : ~Attempting(r, w), UNCHANGED <<attempts, counts, pending, batches, calls>>
    PROVE  JournalInv'
<1>1. /\ lifecycle' = Nobody /\ pc' = [pc EXCEPT ![r] = "idle"] /\ batch' = [batch EXCEPT ![r] = NoBatch]
      /\ queue' = [queue EXCEPT ![r] = <<>>] /\ spare' = [spare EXCEPT ![r] = <<>>]
      /\ thread' = [thread EXCEPT ![r] = [w \in Threads |-> IdleThread]]
      /\ failed' = [failed EXCEPT ![r] = FALSE]
  BY DEF EndBatch, Released
<1>2. PICK none : none = [w \in Threads |-> IdleThread]
  OBVIOUS
<1>3. none \in [Threads -> ThreadStates] /\ \A w \in Threads : none[w].at = "idle"
  <2>1. IdleThread \in ThreadStates /\ IdleThread.at = "idle"
    BY DEF IdleThread, ThreadStates
  <2> QED BY <1>2, <2>1
<1>4. /\ thread' \in [Roles -> [Threads -> ThreadStates]] /\ thread'[r] = none
      /\ \A s \in Roles : s # r => thread'[s] = thread[s]
  BY <1>1, <1>2, <1>3, TypedArrays
<1>5. /\ pc' \in [Roles -> {"absent", "gone", "idle", "making"} \cup InBatch]
      /\ pc'[r] = "idle" /\ \A s \in Roles : s # r => pc'[s] = pc[s]
  BY <1>1, TypedArrays
<1>6. /\ batch' \in [Roles -> [id : Nat, size : Nat, slot : Nat]]
      /\ \A s \in Roles : s # r => batch'[s] = batch[s]
  BY <1>1, TypedArrays DEF NoBatch
<1>7. /\ queue' \in [Roles -> Seq(Int \X Int)] /\ spare' \in [Roles -> Seq(Nat)]
      /\ failed' \in [Roles -> BOOLEAN] /\ \A s \in Roles : s # r => spare'[s] = spare[s]
  <2>1. <<>> \in Seq(Int \X Int) /\ <<>> \in Seq(Nat)
    OBVIOUS
  <2> QED BY <1>1, <2>1, TypedArrays
<1>8. JournalTyped'
  BY <1>1, <1>4, <1>5, <1>6, <1>7, TypedArrays DEF JournalTyped, Unspoken
<1>9. \A s \in Roles : s # r => pc'[s] \notin InBatch \cup {"making"}
  BY <1>5, OracleFacts DEF OracleState
<1>10. LockHeld'
  BY <1>5, <1>9 DEF LockHeld, InBatch
<1>11. Pools'
  <2>1. ~Working(r)' /\ \A s \in Roles : s # r => Working(s)' = Working(s) /\ ~Working(s)
    BY <1>5, <1>9 DEF Working, InBatch
  <2>2. \A s \in Roles : s # r => thread[s] = [w \in Threads |-> IdleThread]
    BY <2>1 DEF JournalInv, Pools
  <2>3. \A s \in Roles : thread'[s] = [w \in Threads |-> IdleThread]
    BY <1>2, <1>4, <2>2
  <2>4. \A s \in Roles : ~Working(s)'
    BY <2>1
  <2> QED BY <2>3, <2>4 DEF Pools
<1>12. AttemptRows' /\ Tallied'
  <2>1. /\ {} \in SUBSET (0 .. attempts - 1) /\ AttemptsGrow({}, {}) /\ JournalTyped /\ AttemptRows /\ Tallied
        /\ UNCHANGED <<attempts, counts, calls>>
    BY DEF Unspoken, JournalInv
  <2>2. \A s \in Roles, w \in Threads : Attempting(s, w)' =>
               /\ Attempting(s, w) /\ thread'[s][w].attempt = thread[s][w].attempt
               /\ thread'[s][w].at = "calling" <=> thread[s][w].at = "calling"
               /\ thread[s][w].attempt \notin {}
    BY <1>3, <1>4 DEF Attempting
  <2> QED BY <2>1, <2>2, AttemptsStay
<1>13. ConstructorRows'
  <2>1. JournalTyped /\ ConstructorRows /\ ConstructorsGrow({}, {})
    BY DEF JournalInv, Unspoken
  <2>2. /\ \A s \in Roles : pc'[s] \in InBatch => pc[s] \in InBatch /\ batch'[s].slot = batch[s].slot
        /\ \A s \in Roles : pc'[s] = "constructing" => pc[s] = "constructing"
        /\ \A s \in Roles : pc'[s] \in {"absent", "making"} => pc[s] = pc'[s]
    BY <1>5, <1>9 DEF InBatch
  <2> QED BY <2>1, <2>2, ConstructorsStay
<1> QED BY <1>8, <1>10, <1>11, <1>12, <1>13 DEF JournalInv, Unspoken

\* Writing the row that ends a batch.
LEMMA BatchRowWritten ==
    ASSUME JournalInv, Premises, NEW r \in Roles, NEW o \in Outcomes, NEW kind \in {"oracle_batch_finished",
           "oracle_batch_exception"}, NEW index \in Int, NEW m \in Int, NEW stage \in {""} \cup Stages,
           Write(Row(kind, r, index, m, stage), o), UNCHANGED <<attempts, counts>>
    PROVE  Unspoken({}, {})
<1>1. kind \in Kinds
  BY DEF Kinds
<1>2. PICK row : Fields(row, kind, r, batch[r].id, index, m) /\ Write(row, o)
  BY <1>1, RowWritten
<1>3. row.kind \in Other /\ row \in JournalRows /\ row.sequence = sequence
  BY <1>2 DEF Fields, Other, Kinds, AttemptEndKinds, SlotEndKinds, OracleEndKinds
<1> QED BY <1>2, <1>3, OtherWritten

\* Finishing a batch keeps it: no attempt is left without an outcome in a thread.
LEMMA FinishBatchKeeps ==
    ASSUME JournalInv, Premises, NEW r \in Roles, NEW o \in Outcomes, FinishBatch(r, o)
    PROVE  JournalInv'
<1>1. /\ Joined(r) /\ Write(Row("oracle_batch_finished", r, batch[r].size, -1, ""), o) /\ EndBatch(r)
      /\ UNCHANGED <<attempts, counts, pending, batches, calls>>
  BY DEF FinishBatch, ledger
<1>2. pc[r] \in InBatch /\ \A w \in Threads : ~Attempting(r, w)
  BY <1>1 DEF Joined, Working, InBatch, Attempting
<1>3. batch[r].size \in Int
  <2>1. batch[r].size \in Nat
    BY RoleState DEF JournalInv
  <2> QED BY <2>1
<1>4. Unspoken({}, {})
  <2>1. PICK m \in Int : m = -1
    OBVIOUS
  <2> QED BY <1>1, <1>3, <2>1, BatchRowWritten
<1> QED BY <1>1, <1>2, <1>4, EndBatchKeeps

\* A batch that raises keeps it.
LEMMA RaiseBatchKeeps ==
    ASSUME JournalInv, Premises, NEW r \in Roles, NEW o \in Outcomes, NEW stage \in Stages,
           RaiseBatch(r, stage, o)
    PROVE  JournalInv'
<1>1. /\ \/ pc[r] \in {"raising-identity", "raising-construction"}
         \/ Joined(r)
      /\ Write(Row("oracle_batch_exception", r, -1, -1, stage), o) /\ EndBatch(r)
      /\ UNCHANGED <<attempts, counts, pending, batches, calls>>
  BY DEF RaiseBatch, ledger, Stages
<1>2. pc[r] \in InBatch
  BY <1>1 DEF Joined, Working, InBatch
<1>3. \A w \in Threads : ~Attempting(r, w)
  <2>1. CASE Joined(r)
    BY <2>1 DEF Joined, Attempting
  <2>2. CASE pc[r] \in {"raising-identity", "raising-construction"}
    BY <2>2, BusyThread DEF Attempting, Working
  <2> QED BY <1>1, <2>1, <2>2
<1>4. Unspoken({}, {})
  <2>1. PICK m \in Int : m = -1
    OBVIOUS
  <2>2. Write(Row("oracle_batch_exception", r, m, m, stage), o)
    BY <1>1, <2>1
  <2> QED BY <1>1, <2>2, BatchRowWritten
<1> QED BY <1>1, <1>2, <1>3, <1>4, EndBatchKeeps

\* The process dies inside a row: no reader accepts the journal any more.
LEMMA DieKeeps ==
    ASSUME JournalInv, Premises, Die
    PROVE  JournalInv'
<1>1. PICK r \in Roles : r = CHOOSE q \in Roles : TRUE
  BY DEF Premises, JournalAssumption
<1>2. PICK row : row = Plain("torn", r)
  OBVIOUS
<1>3. /\ journal' = Append(journal, row)
      /\ UNCHANGED <<sequence, attempts, counts, pending, lifecycle, pc, batch, queue, spare, thread, failed,
                     batches, calls, faults>>
  BY <1>1, <1>2 DEF Die, ledger, work
<1>4. row \in JournalRows /\ row.kind = "torn"
  <2>1. PICK b \in Nat : b = batch[r].id
    BY RoleState DEF JournalInv
  <2>2. PICK m \in Int : m = -1
    OBVIOUS
  <2>3. row = [kind |-> "torn", sequence |-> sequence, role |-> r, batch |-> b, index |-> m, attempt |-> m,
               stage |-> ""]
    BY <1>2, <2>1, <2>2 DEF Plain, Row
  <2>4. sequence \in Nat
    BY TypedArrays
  <2> QED BY <2>3, <2>4 DEF JournalRows
<1>5. Longer(journal, row, journal') /\ journal' \in Seq(JournalRows)
  BY <1>3, <1>4, AppendedRow DEF JournalInv, JournalTyped, Longer
<1>6. AttemptsGrow({}, {})
  <2>1. row.kind \notin AttemptEndKinds /\ row.kind # "oracle_attempt_returned"
    BY <1>4 DEF AttemptEndKinds
  <2>2. \A q : /\ Counts(journal, q) \in Nat /\ Counts(journal', q) \in Nat
               /\ Counts(journal, q) <= Counts(journal', q)
    BY <1>5, CountsAppended
  <2> QED BY <1>5, <2>1, <2>2, AttemptsAppended DEF AttemptsGrow
<1>7. ConstructorsGrow({}, {})
  <2>1. row.kind \notin SlotEndKinds /\ row.kind \notin OracleEndKinds
    BY <1>4 DEF SlotEndKinds, OracleEndKinds
  <2> QED BY <1>5, <2>1, ConstructorsAppended DEF ConstructorsGrow
<1>8. Numbered'
  <2>1. ~KnownRows(journal')
    BY <1>4, <1>5, KnownAppended DEF Kinds
  <2> QED BY <2>1 DEF Numbered
<1>9. sequence' \in 0 .. Len(journal') /\ faults' \in 0 .. MaxFaults
  <2>1. sequence \in 0 .. Len(journal) /\ Len(journal) \in Nat /\ faults \in 0 .. MaxFaults
    BY DEF JournalInv, JournalTyped
  <2>2. Len(journal') = Len(journal) + 1
    BY <1>5 DEF Longer
  <2> QED BY <1>3, <2>1, <2>2
<1>10. Unspoken({}, {})
  BY <1>5, <1>6, <1>7, <1>8, <1>9 DEF Unspoken
<1>11. JournalTyped'
  BY <1>3, <1>10, TypedArrays DEF JournalTyped, Unspoken
<1>12. LockHeld' /\ ConstructorRows'
  BY <1>3, <1>7, ThreadConstructs
<1>13. \A s \in Roles : Working(s)' <=> Working(s)
  BY <1>3 DEF Working
<1> QED BY <1>3, <1>10, <1>11, <1>12, <1>13, ThreadsRest

\* The invariant is about the variables only.
LEMMA RestKeeps == ASSUME JournalInv, UNCHANGED vars PROVE JournalInv'
<1>1. UNCHANGED <<journal, sequence, attempts, counts, pending, lifecycle, pc, batch, queue, spare, thread, failed,
                  batches, calls, faults>>
  BY DEF vars, ledger, work
<1>2. Unspoken({}, {})
  BY <1>1, NothingWritten
<1>3. JournalTyped'
  BY <1>1, <1>2, TypedArrays DEF JournalTyped, Unspoken
<1>4. LockHeld' /\ ConstructorRows'
  BY <1>1, <1>2, ThreadConstructs DEF Unspoken
<1>5. \A s \in Roles : Working(s)' <=> Working(s)
  BY <1>1 DEF Working
<1> QED BY <1>1, <1>2, <1>3, <1>4, <1>5, ThreadsRest

\* The journal of a new adapter.
LEMMA InitHolds == ASSUME Premises, Init PROVE JournalInv
<1>1. /\ journal = <<>> /\ DOMAIN journal = {} /\ Len(journal) = 0 /\ sequence = 0 /\ attempts = 0
      /\ journal \in Seq(JournalRows)
  BY DEF Init
<1>2. \A K : Rows(journal, K) = {}
  BY <1>1 DEF Rows
<1>3. \A r : Counts(journal, r) = 0
  <2> SUFFICES ASSUME NEW r PROVE Counts(journal, r) = 0
    OBVIOUS
  <2>1. {s \in AttemptStarts(journal) : journal[s].role = r} = {}
    BY <1>2 DEF AttemptStarts
  <2> QED BY <2>1, FS_EmptySet DEF Counts
<1>4. \A r \in Roles : /\ pc[r] = "absent" /\ counts[r] = 0 /\ calls[r] = 0 /\ batch[r] = NoBatch
                       /\ thread[r] = [w \in Threads |-> IdleThread]
  BY DEF Init
<1>5. \A r \in Roles, w \in Threads : ~Attempting(r, w)
  BY <1>4 DEF Attempting, IdleThread
<1>6. JournalTyped
  <2>1. /\ Work \in Seq(SUBSET (Roles \X (Nat \ {0}))) /\ MaxFaults \in Nat
    BY DEF Premises, JournalAssumption
  <2>2. MaxBatches \in Nat
    BY <2>1 DEF MaxBatches
  <2>3. IdleThread \in ThreadStates /\ NoBatch \in [id : Nat, size : Nat, slot : Nat]
    BY DEF IdleThread, ThreadStates, NoBatch
  <2>4. <<>> \in Seq(Int \X Int) /\ <<>> \in Seq(Nat)
    OBVIOUS
  <2>5. /\ counts \in [Roles -> Nat] /\ calls \in [Roles -> Nat]
        /\ batch \in [Roles -> [id : Nat, size : Nat, slot : Nat]]
        /\ queue \in [Roles -> Seq(Int \X Int)] /\ spare \in [Roles -> Seq(Nat)]
        /\ failed \in [Roles -> BOOLEAN]
    BY <2>3, <2>4 DEF Init
  <2>6. thread \in [Roles -> [Threads -> ThreadStates]]
    BY <2>3 DEF Init
  <2>7. pc \in [Roles -> {"absent", "gone", "idle", "making"} \cup InBatch]
    BY DEF Init
  <2>8. /\ sequence \in 0 .. Len(journal) /\ attempts \in Nat /\ pending \subseteq 0 .. attempts - 1
        /\ lifecycle \in Roles \cup {Nobody} /\ batches \in 0 .. MaxBatches /\ faults \in 0 .. MaxFaults
    BY <1>1, <2>1, <2>2 DEF Init
  <2> QED BY <1>1, <2>5, <2>6, <2>7, <2>8 DEF JournalTyped
<1>7. LockHeld
  BY <1>4 DEF LockHeld, InBatch
<1>8. Pools
  BY <1>4 DEF Pools, Working
<1>9. AttemptRows
  <2>1. \A a : ~AttemptEnded(journal, a)
    BY <1>2 DEF AttemptEnded, AttemptEnds
  <2> QED BY <1>5, <2>1 DEF AttemptRows
<1>10. ConstructorRows
  <2>1. \A b, i : ~SlotEnded(journal, b, i)
    BY <1>2 DEF SlotEnded, SlotEnds
  <2>2. \A r : ~OracleEnded(journal, r)
    BY <1>2 DEF OracleEnded, OracleEnds
  <2> QED BY <1>4, <2>1, <2>2 DEF ConstructorRows, InBatch
<1>11. Tallied
  <2> SUFFICES ASSUME NEW r \in Roles
               PROVE  /\ counts[r] <= Counts(journal, r)
                      /\ \E U \in SUBSET (0 .. attempts - 1) : Uncalled(r, U)
    BY DEF Tallied
  <2>1. counts[r] <= Counts(journal, r)
    BY <1>3, <1>4
  <2>2. Uncalled(r, {})
    <3>1. counts[r] = calls[r] + Cardinality({})
      BY <1>4, FS_EmptySet
    <3> QED BY <1>5, <3>1 DEF Uncalled
  <2> QED BY <2>1, <2>2
<1>12. Numbered
  BY <1>1, <1>3, <1>4 DEF Numbered
<1> QED BY <1>6, <1>7, <1>8, <1>9, <1>10, <1>11, <1>12 DEF JournalInv

\* No step of the thread that calls an oracle leaves the invariant.
LEMMA OracleStepKeeps == ASSUME JournalInv, Premises, NEW r \in Roles, OracleStep(r) PROVE JournalInv'
<1>1. CASE IdentityRaises(r) \/ EvaluateSerially(r) \/ CancelChunks(r)
  BY <1>1, IdentityRaisesKeeps, EvaluateSeriallyKeeps, CancelChunksKeeps
<1>2. ASSUME NEW o \in Outcomes, BeginOracle(r, o) \/ BeginCalculator(r, o) \/ CalculatorsReady(r, o)
                                 \/ FinishBatch(r, o)
      PROVE  JournalInv'
  BY <1>2, BeginOracleKeeps, BeginCalculatorKeeps, CalculatorsReadyKeeps, FinishBatchKeeps
<1>3. ASSUME NEW o \in Outcomes, NEW ok \in BOOLEAN, EndOracle(r, ok, o) \/ EndCalculator(r, ok, o)
      PROVE  JournalInv'
  BY <1>3, EndOracleKeeps, EndCalculatorKeeps
<1>4. ASSUME NEW o \in Outcomes, NEW size, BeginBatch(r, size, o) PROVE JournalInv'
  BY <1>4, BeginBatchKeeps
<1>5. ASSUME NEW o \in Outcomes, NEW stage \in Stages, RaiseBatch(r, stage, o) PROVE JournalInv'
  BY <1>5, RaiseBatchKeeps
<1> QED BY <1>1, <1>2, <1>3, <1>4, <1>5 DEF OracleStep

\* No step of a worker thread does.
LEMMA ThreadStepKeeps ==
    ASSUME JournalInv, Premises, NEW r \in Roles, NEW w \in Threads, ThreadStep(r, w) PROVE JournalInv'
<1>1. CASE TakeChunk(r, w) \/ Call(r, w)
  BY <1>1, TakeChunkKeeps, CallKeeps
<1>2. ASSUME NEW o \in Outcomes, CountAttempt(r, w, o) \/ Acquire(r, w, o) \/ Return(r, w, o) \/ Except(r, w, o)
      PROVE  JournalInv'
  BY <1>2, CountAttemptKeeps, AcquireKeeps, ReturnKeeps, ExceptKeeps
<1> QED BY <1>1, <1>2 DEF ThreadStep

\* The journal, the counters and what is in progress agree in every reachable state.
THEOREM JournalKeepsInv == Spec => []JournalInv
<1> Premises
  BY WorkersAssumption, JournalAssumption DEF Premises
<1>1. Init => JournalInv
  BY InitHolds
<1>2. JournalInv /\ [Next]_vars => JournalInv'
  <2> SUFFICES ASSUME JournalInv, [Next]_vars PROVE JournalInv'
    OBVIOUS
  <2>1. CASE UNCHANGED vars
    BY <2>1, RestKeeps
  <2>2. CASE Rest
    BY <2>2, RestKeeps DEF Rest
  <2>3. CASE Die
    BY <2>3, DieKeeps
  <2>4. ASSUME NEW r \in Roles, OracleStep(r) PROVE JournalInv'
    BY <2>4, OracleStepKeeps
  <2>5. ASSUME NEW r \in Roles, NEW w \in Threads, ThreadStep(r, w) PROVE JournalInv'
    BY <2>5, ThreadStepKeeps
  <2> QED BY <2>1, <2>2, <2>3, <2>4, <2>5 DEF Next
<1> QED BY <1>1, <1>2, PTL DEF Spec

\* Forwards are private where the invariant holds: who evaluates holds the lock.
LEMMA ForwardsFollow == ASSUME JournalInv, Premises PROVE ForwardsArePrivate
<1> SUFFICES ASSUME NEW r \in Roles, NEW w \in Threads, Forward(r, w)
             PROVE  /\ \A s \in Roles : ~Constructing(s)
                    /\ \A v \in Threads : Forward(r, v) /\ thread[r][v].calculator = thread[r][w].calculator =>
                                          v = w
  BY DEF ForwardsArePrivate
<1>1. /\ thread[r][w].at = "calling" /\ Working(r) /\ Pool(r) /\ pc[r] \in InBatch
      /\ w <= ChunkCount(batch[r].size, Workers[r])
  BY BusyThread DEF Forward
<1>2. lifecycle = r /\ batch[r].size \in Nat \ {0}
  BY <1>1, OracleFacts, RoleState DEF OracleState, JournalInv
<1>3. \A s \in Roles : ~Constructing(s)
  <2> SUFFICES ASSUME NEW s \in Roles, Constructing(s) PROVE FALSE
    OBVIOUS
  <2>1. pc[s] \in InBatch \cup {"making"} /\ pc[s] # "evaluating"
    BY DEF Constructing, InBatch
  <2>2. s = r
    BY <1>2, <2>1, OracleFacts DEF OracleState
  <2> QED BY <1>1, <2>1, <2>2 DEF Working
<1>4. ASSUME NEW v \in Threads, Forward(r, v), thread[r][v].calculator = thread[r][w].calculator
      PROVE  v = w
  <2>1. CASE Workers[r] > 1
    <3>1. thread[r][v].calculator # -1
      BY <1>1, <1>4, <2>1 DEF Pool, Forward
    <3> QED BY <1>1, <1>4, <2>1, <3>1 DEF Pool
  <2>2. CASE ~(Workers[r] > 1)
    <3>1. Workers[r] = 1
      BY <2>2, WorkersType
    <3>2. ChunkCount(batch[r].size, Workers[r]) = 1
      BY <1>2, <3>1, OneChunk
    <3>3. v <= ChunkCount(batch[r].size, Workers[r])
      BY <1>4, BusyThread DEF Forward
    <3> QED BY <1>1, <3>2, <3>3, ThreadFacts
  <2> QED BY <2>1, <2>2
<1> QED BY <1>3, <1>4

\* What the audit calls closed holds the outcome of everything that was begun.
LEMMA ClosedResolves ==
    ASSUME Closed(journal)
    PROVE  /\ \A r, a : AttemptStarted(journal, r, a) => AttemptEnded(journal, a)
           /\ \A b, i : SlotStarted(journal, b, i) => SlotEnded(journal, b, i)
           /\ \A r : OracleStarted(journal, r) => OracleEnded(journal, r)
           /\ KnownRows(journal)
<1>1. \A s \in AttemptStarts(journal) : \E e \in AttemptEnds(journal) : journal[s].attempt = journal[e].attempt
  BY DEF Closed, Resolved, SameAttempt
<1>2. \A s \in SlotStarts(journal) : \E e \in SlotEnds(journal) :
          journal[s].batch = journal[e].batch /\ journal[s].index = journal[e].index
  BY DEF Closed, Resolved, SameSlot
<1>3. \A s \in OracleStarts(journal) : \E e \in OracleEnds(journal) : journal[s].role = journal[e].role
  BY DEF Closed, Resolved, SameOracle
<1>4. KnownRows(journal)
  BY DEF Closed, Valid
<1>5. \A r, a : AttemptStarted(journal, r, a) => AttemptEnded(journal, a)
  BY <1>1 DEF AttemptStarted, AttemptEnded
<1>6. \A b, i : SlotStarted(journal, b, i) => SlotEnded(journal, b, i)
  BY <1>2 DEF SlotStarted, SlotEnded
<1>7. \A r : OracleStarted(journal, r) => OracleEnded(journal, r)
  BY <1>3 DEF OracleStarted, OracleEnded
<1> QED BY <1>4, <1>5, <1>6, <1>7

\* The audit is truthful where the invariant holds.
LEMMA AuditFollows == ASSUME JournalInv, Premises PROVE AuditIsTruthful
<1>1. TypeOK
  BY DEF JournalInv, JournalTyped, TypeOK
<1>2. ASSUME NEW r \in Roles, NEW U, Uncalled(r, U)
      PROVE  counts[r] = calls[r] + Cardinality(U) /\ Cardinality(U) \in Nat /\ calls[r] \in Nat
  <2>1. IsFiniteSet(0 .. attempts - 1)
    BY TypedArrays, FS_Interval
  <2>2. Cardinality(U) \in Nat
    BY <1>2, <2>1, FS_Subset, FS_CardinalityType DEF Uncalled
  <2> QED BY <1>2, <2>2, TypedArrays DEF Uncalled
<1>3. \A r \in Roles : counts[r] <= Counts(journal, r) /\ \E U : Uncalled(r, U)
  BY DEF JournalInv, Tallied
<1>4. ASSUME NEW r \in Roles PROVE calls[r] <= Counts(journal, r)
  <2>1. PICK U : Uncalled(r, U)
    BY <1>3
  <2>2. counts[r] = calls[r] + Cardinality(U) /\ Cardinality(U) \in Nat /\ calls[r] \in Nat
    BY <1>2, <2>1
  <2>3. Counts(journal, r) \in Nat /\ counts[r] <= Counts(journal, r) /\ counts[r] \in Nat
    BY <1>3, CountsType, TypedArrays DEF JournalTyped
  <2> QED BY <2>2, <2>3
<1>5. ASSUME Closed(journal), NEW r \in Roles PROVE ~Constructing(r)
  <2>1. CASE pc[r] = "making"
    BY <1>5, <2>1, ClosedResolves DEF JournalInv, ConstructorRows
  <2>2. CASE pc[r] = "constructing"
    <3>1. SlotEnded(journal, batches, batch[r].slot)
      BY <1>5, <2>2, ClosedResolves DEF JournalInv, ConstructorRows
    <3>2. batch[r].slot < batch[r].slot
      BY <2>2, <3>1 DEF JournalInv, ConstructorRows, InBatch
    <3>3. batch[r].slot \in Nat
      BY RoleState DEF JournalInv
    <3> QED BY <3>2, <3>3
  <2> QED BY <2>1, <2>2 DEF Constructing
<1>6. ASSUME Closed(journal), NEW r \in Roles PROVE Counts(journal, r) = counts[r]
  <2>1. KnownRows(journal) /\ Numbered /\ AttemptRows
    BY <1>6, ClosedResolves DEF JournalInv
  <2>2. ~(Len(journal) = sequence + 1 /\ journal[Len(journal)].kind = "oracle_attempt_started"
          /\ journal[Len(journal)].attempt = attempts)
    <3> SUFFICES ASSUME Len(journal) = sequence + 1, journal[Len(journal)].kind = "oracle_attempt_started",
                        journal[Len(journal)].attempt = attempts
                 PROVE  FALSE
      OBVIOUS
    <3>0. journal \in Seq(JournalRows) /\ sequence \in Nat
      BY TypedArrays DEF JournalTyped
    <3>1. Len(journal) \in DOMAIN journal
      BY ONLY <3>0, Len(journal) = sequence + 1
    <3>2. AttemptStarted(journal, journal[Len(journal)].role, attempts)
      BY <3>1 DEF AttemptStarted, AttemptStarts, Rows
    <3>3. attempts \in 0 .. attempts - 1
      BY <1>6, <2>1, <3>2, ClosedResolves DEF AttemptRows
    <3> QED BY <3>3, TypedArrays
  <2> QED BY <2>1, <2>2 DEF Numbered
<1>7. ASSUME Closed(journal), NEW r \in Roles, NEW w \in Threads PROVE ~Forward(r, w)
  BY <1>7, ClosedResolves DEF JournalInv, AttemptRows, Attempting, Forward
<1>8. ASSUME Successful(journal), NEW r \in Roles PROVE counts[r] = calls[r]
  <2>1. PICK U : Uncalled(r, U)
    BY <1>3
  <2>2. Closed(journal) /\ \A e \in DOMAIN journal : journal[e].kind # "oracle_attempt_exception"
    BY <1>8 DEF Successful, Rows
  <2>3. \A a : AttemptEnded(journal, a) => AttemptReturned(journal, a)
    BY <2>2 DEF AttemptEnded, AttemptReturned, AttemptEnds, Rows
  <2>4. U = {}
    BY <2>1, <2>2, <2>3, ClosedResolves DEF Uncalled
  <2>5. counts[r] = calls[r] + 0 /\ calls[r] \in Nat
    BY <1>2, <2>1, <2>4, FS_EmptySet
  <2> QED BY <2>5
<1> QED BY <1>1, <1>4, <1>5, <1>6, <1>7, <1>8 DEF AuditIsTruthful

\* No oracle evaluates while another constructs, and no two threads share a calculator.
THEOREM ForwardsStayPrivate == Spec => []ForwardsArePrivate
<1> Premises
  BY WorkersAssumption, JournalAssumption DEF Premises
<1>1. JournalInv => ForwardsArePrivate
  BY ForwardsFollow
<1> QED BY <1>1, JournalKeepsInv, PTL

\* What the audit reports of a journal is what happened.
THEOREM AuditStaysTruthful == Spec => []AuditIsTruthful
<1> Premises
  BY WorkersAssumption, JournalAssumption DEF Premises
<1>1. JournalInv => AuditIsTruthful
  BY AuditFollows
<1> QED BY <1>1, JournalKeepsInv, PTL

-----------------------------------------------------------------------------
(* Journals of adapters in which no write raises and that have not died.   *)
(*                                                                         *)
(* Such a journal is valid whatever the constructors and the evaluations   *)
(* do.  For the audit to accept the next row, what is in progress must be  *)
(* on record as it is (OnRecord), nothing else may be open (OpenBatches to *)
(* OpenAttempts), and the structures of the batch must be divided among    *)
(* the chunks in the queue, the threads and the attempts on record         *)
(* (Divided).                                                              *)

\* No write has raised, and no row is torn.
Honest == faults = 0 /\ Rows(journal, {"torn"}) = {}

\* The attempts and the constructed calculators of batch b on record, and the
\* marks that all calculators of a batch are ready.
BatchAttempts(j, b) == {s \in AttemptStarts(j) : j[s].batch = b}
Constructed(j, b) == {i \in Rows(j, {"calculator_constructor_finished"}) : j[i].batch = b}
ReadyMarks(j) == Rows(j, {"all_calculators_ready"})

\* Batch b constructed n calculators, and marked that before its first attempt.
AllReady(j, b, n) ==
    \E m \in ReadyMarks(j) :
        /\ j[m].batch = b /\ j[m].index = n /\ Cardinality(Constructed(j, b)) = n
        /\ \A i \in Constructed(j, b) : i < m
        /\ \A s \in BatchAttempts(j, b) : m < s

\* The adapter and its journal agree on the rows, and no row is of a later batch.
Recorded ==
    /\ Valid(journal) /\ Len(journal) = sequence /\ attempts = Cardinality(AttemptStarts(journal))
    /\ \A i \in DOMAIN journal : journal[i].batch <= batches
    /\ \A r \in Roles : batch[r].id <= batches

\* Batch b of oracle r, of size structures, is on record: it stands at p, with
\* slot calculators behind it.
BatchOnRecord(j, r, b, size, slot, p) ==
    /\ \E s \in BatchStarts(j) : j[s].batch = b
    /\ \A s \in BatchStarts(j) : j[s].batch = b => j[s].role = r /\ j[s].index = size
    /\ \A e \in BatchEnds(j) : j[e].batch # b
    /\ p # "evaluating" => BatchAttempts(j, b) = {} /\ \A m \in ReadyMarks(j) : j[m].batch # b
    /\ \A s \in SlotStarts(j) : j[s].batch = b =>
        j[s].index < slot \/ (p = "constructing" /\ j[s].index = slot)
    /\ p \in {"identity", "preparing", "constructing"} => Cardinality(Constructed(j, b)) = slot
    /\ p = "evaluating" /\ Workers[r] > 1 => AllReady(j, b, ChunkCount(size, Workers[r]))

OnRecord ==
    \A r \in Roles : pc[r] \in InBatch =>
        BatchOnRecord(journal, r, batches, batch[r].size, batch[r].slot, pc[r])

\* row begins the attempt that the thread t of r holds, in the last batch b.
Names(row, r, b, t) == row.role = r /\ row.batch = b /\ row.index = t.item /\ row.attempt = t.attempt

\* What has no outcome on record is in progress, and an attempt in progress is on record.
OpenBatches ==
    \A s \in BatchStarts(journal) :
        \/ \E e \in BatchEnds(journal) : SameBatch(journal[s], journal[e])
        \/ journal[s].batch = batches /\ \E r \in Roles : pc[r] \in InBatch
OpenSlots ==
    \A s \in SlotStarts(journal) :
        \/ SlotEnded(journal, journal[s].batch, journal[s].index)
        \/ /\ journal[s].batch = batches
           /\ \E r \in Roles : pc[r] = "constructing" /\ journal[s].index = batch[r].slot
OpenOracles ==
    /\ \A s \in OracleStarts(journal) :
        OracleEnded(journal, journal[s].role) \/ \E r \in Roles : r = journal[s].role /\ pc[r] = "making"
    /\ \A r \in Roles : pc[r] = "absent" => ~OracleStarted(journal, r)
OpenAttempts ==
    /\ \A s \in AttemptStarts(journal) :
        \/ \E e \in AttemptEnds(journal) : SameAttempt(journal[s], journal[e])
        \/ \E r \in Roles, w \in Threads : Attempting(r, w) /\ Names(journal[s], r, batches, thread[r][w])
    /\ \A r \in Roles, w \in Threads : Attempting(r, w) =>
        \E s \in AttemptStarts(journal) : Names(journal[s], r, batches, thread[r][w])

\* The structures a thread still has to evaluate, the one it is at included.
Ahead(t) == IF t.at = "idle" THEN {} ELSE t.item .. t.last
Unstarted(t) == IF t.at = "item" THEN Ahead(t) ELSE Ahead(t) \ {t.item}

\* Structure i of batch b has an attempt in j that returned.
Evaluated(j, b, i) ==
    \E s \in BatchAttempts(j, b), e \in Rows(j, {"oracle_attempt_returned"}) :
        j[s].index = i /\ SameAttempt(j[s], j[e])

\* The structures 0 .. size - 1 of batch b are divided: q is the queue of
\* chunks, in order, T are the threads, which took the chunks before it.
QueueOrdered(q, size) ==
    /\ \A k \in DOMAIN q : q[k][1] \in 0 .. q[k][2] /\ q[k][2] \in 0 .. size - 1
    /\ \A k, l \in DOMAIN q : k < l => q[k][2] < q[l][1]
ThreadsApart(T, q, size) ==
    /\ \A w \in Threads : T[w].at # "idle" => T[w].item \in 0 .. T[w].last /\ T[w].last \in 0 .. size - 1
    /\ \A w \in Threads, k \in DOMAIN q : T[w].at # "idle" => T[w].last < q[k][1]
    /\ \A v, w \in Threads : v # w => Ahead(T[v]) \cap Ahead(T[w]) = {}
StartedOnce(j, b, T, q) ==
    \A s \in BatchAttempts(j, b) :
        /\ \A k \in DOMAIN q : j[s].index < q[k][1]
        /\ \A w \in Threads : j[s].index \notin Unstarted(T[w])
Covered(j, b, T, q, size) ==
    \A i \in 0 .. size - 1 :
        \/ \E k \in DOMAIN q : i \in q[k][1] .. q[k][2]
        \/ \E w \in Threads : i \in Ahead(T[w])
        \/ Evaluated(j, b, i)

Divided ==
    \A r \in Roles : Working(r) =>
        /\ QueueOrdered(queue[r], batch[r].size)
        /\ ThreadsApart(thread[r], queue[r], batch[r].size)
        /\ StartedOnce(journal, batches, thread[r], queue[r])
        /\ ~failed[r] => Covered(journal, batches, thread[r], queue[r], batch[r].size)

HonestParts ==
    /\ Recorded /\ OnRecord
    /\ OpenBatches /\ OpenSlots /\ OpenOracles /\ OpenAttempts
    /\ Divided

HonestInv == Honest => HonestParts

\* The rows T of a longer journal u are the rows S of j, and the new one if new holds.
GrownBy(S, T, j, row, u, new) ==
    /\ \A i \in T : (i \in S /\ u[i] = j[i] /\ i < Len(u)) \/ (new /\ i = Len(u) /\ u[i] = row)
    /\ \A i \in S : i \in T /\ u[i] = j[i] /\ i < Len(u) /\ i \in Nat
    /\ new => Len(u) \in T /\ u[Len(u)] = row

\* Which rows of some kinds a longer journal has.
LEMMA RowsGrown ==
    ASSUME NEW j, NEW row, NEW u, Longer(j, row, u), NEW K
    PROVE  GrownBy(Rows(j, K), Rows(u, K), j, row, u, row.kind \in K)
<1>1. \A i \in Rows(j, K) : i \in 1 .. Len(j) /\ j[i].kind \in K
  BY DEF Rows, Longer
<1>2. \A i \in 1 .. Len(j) : i \in 1 .. Len(u) /\ u[i] = j[i] /\ i < Len(u) /\ i \in Nat
  BY DEF Longer
<1>3. \A i \in Rows(u, K) : i \in 1 .. Len(u) /\ u[i].kind \in K
  BY DEF Rows, Longer
<1>4. \A i \in 1 .. Len(u) : i \in 1 .. Len(j) \/ i = Len(u)
  BY DEF Longer
<1>5. u[Len(u)] = row /\ Len(u) \in 1 .. Len(u)
  BY DEF Longer
<1>6. \A i \in Rows(j, K) : i \in Rows(u, K) /\ u[i] = j[i] /\ i < Len(u) /\ i \in Nat
  BY <1>1, <1>2 DEF Rows, Longer
<1>7. \A i \in Rows(u, K) : (i \in Rows(j, K) /\ u[i] = j[i] /\ i < Len(u)) \/ (row.kind \in K /\ i = Len(u) /\ u[i] = row)
  <2> TAKE i \in Rows(u, K)
  <2>1. CASE i \in 1 .. Len(j)
    <3>1. u[i] = j[i] /\ i < Len(u) /\ u[i].kind \in K
      BY <1>2, <1>3, <2>1
    <3> QED BY <2>1, <3>1 DEF Rows, Longer
  <2>2. CASE i = Len(u)
    BY <1>3, <1>5, <2>2
  <2> QED BY <1>3, <1>4, <2>1, <2>2
<1>8. row.kind \in K => Len(u) \in Rows(u, K) /\ u[Len(u)] = row
  BY <1>5 DEF Rows, Longer
<1> QED BY <1>6, <1>7, <1>8 DEF GrownBy

\* The rows that end a batch.
BatchEndKinds == {"oracle_batch_finished", "oracle_batch_exception"}

\* The same for the kinds of rows the audit tells apart.
AllGrown(j, row, u) ==
    /\ GrownBy(AttemptStarts(j), AttemptStarts(u), j, row, u, row.kind = "oracle_attempt_started")
    /\ GrownBy(AttemptEnds(j), AttemptEnds(u), j, row, u, row.kind \in AttemptEndKinds)
    /\ GrownBy(BatchStarts(j), BatchStarts(u), j, row, u, row.kind = "oracle_batch_started")
    /\ GrownBy(BatchEnds(j), BatchEnds(u), j, row, u, row.kind \in BatchEndKinds)
    /\ GrownBy(OracleStarts(j), OracleStarts(u), j, row, u, row.kind = "oracle_constructor_started")
    /\ GrownBy(OracleEnds(j), OracleEnds(u), j, row, u, row.kind \in OracleEndKinds)
    /\ GrownBy(SlotStarts(j), SlotStarts(u), j, row, u, row.kind = "calculator_constructor_started")
    /\ GrownBy(SlotEnds(j), SlotEnds(u), j, row, u, row.kind \in SlotEndKinds)
    /\ GrownBy(ReadyMarks(j), ReadyMarks(u), j, row, u, row.kind = "all_calculators_ready")
    /\ GrownBy(Rows(j, {"oracle_attempt_returned"}), Rows(u, {"oracle_attempt_returned"}), j, row, u,
               row.kind = "oracle_attempt_returned")
    /\ GrownBy(Rows(j, {"calculator_constructor_finished"}), Rows(u, {"calculator_constructor_finished"}),
               j, row, u, row.kind = "calculator_constructor_finished")

\* Rows of one kind.
LEMMA KindGrown ==
    ASSUME NEW j, NEW row, NEW u, Longer(j, row, u), NEW k
    PROVE  GrownBy(Rows(j, {k}), Rows(u, {k}), j, row, u, row.kind = k)
<1>1. PICK K : K = {k}
  OBVIOUS
<1>2. GrownBy(Rows(j, K), Rows(u, K), j, row, u, row.kind \in K)
  BY RowsGrown
<1>3. row.kind \in K <=> row.kind = k
  BY <1>1
<1> QED BY <1>1, <1>2, <1>3 DEF GrownBy

\* How a longer journal grows, kind by kind.
LEMMA KindsGrown == ASSUME NEW j, NEW row, NEW u, Longer(j, row, u) PROVE AllGrown(j, row, u)
<1>1. /\ GrownBy(AttemptStarts(j), AttemptStarts(u), j, row, u, row.kind = "oracle_attempt_started")
      /\ GrownBy(BatchStarts(j), BatchStarts(u), j, row, u, row.kind = "oracle_batch_started")
      /\ GrownBy(OracleStarts(j), OracleStarts(u), j, row, u, row.kind = "oracle_constructor_started")
      /\ GrownBy(SlotStarts(j), SlotStarts(u), j, row, u, row.kind = "calculator_constructor_started")
      /\ GrownBy(ReadyMarks(j), ReadyMarks(u), j, row, u, row.kind = "all_calculators_ready")
  BY KindGrown DEF AttemptStarts, BatchStarts, OracleStarts, SlotStarts, ReadyMarks
<1>2. /\ GrownBy(AttemptEnds(j), AttemptEnds(u), j, row, u, row.kind \in AttemptEndKinds)
      /\ GrownBy(BatchEnds(j), BatchEnds(u), j, row, u, row.kind \in BatchEndKinds)
      /\ GrownBy(OracleEnds(j), OracleEnds(u), j, row, u, row.kind \in OracleEndKinds)
      /\ GrownBy(SlotEnds(j), SlotEnds(u), j, row, u, row.kind \in SlotEndKinds)
  BY RowsGrown DEF AttemptEnds, BatchEnds, OracleEnds, SlotEnds, AttemptEndKinds, BatchEndKinds, OracleEndKinds,
                   SlotEndKinds
<1>3. /\ GrownBy(Rows(j, {"oracle_attempt_returned"}), Rows(u, {"oracle_attempt_returned"}), j, row, u,
               row.kind = "oracle_attempt_returned")
      /\ GrownBy(Rows(j, {"calculator_constructor_finished"}), Rows(u, {"calculator_constructor_finished"}),
               j, row, u, row.kind = "calculator_constructor_finished")
  BY KindGrown
<1> QED BY <1>1, <1>2, <1>3 DEF AllGrown

\* The start of batch b is on record.
BatchStarted(j, b) == \E s \in BatchStarts(j) : j[s].batch = b

\* What the audit asks of a row that ends a batch, and of one that begins an attempt.
BatchMayEnd(j, row) ==
    /\ \E s \in BatchStarts(j) : SameBatch(j[s], row)
    /\ \A e \in BatchEnds(j) : j[e].batch # row.batch
    /\ \A s \in BatchAttempts(j, row.batch) : \E e \in AttemptEnds(j) : SameAttempt(j[s], j[e])
    /\ row.kind = "oracle_batch_finished" =>
        /\ \A s \in BatchStarts(j) : j[s].batch = row.batch => j[s].index = row.index
        /\ Cardinality(BatchAttempts(j, row.batch)) = row.index
        /\ \A s \in BatchAttempts(j, row.batch) :
            \E e \in AttemptEnds(j) : SameAttempt(j[s], j[e]) /\ j[e].kind = "oracle_attempt_returned"
    /\ row.kind = "oracle_batch_exception" /\ row.stage # "evaluation" => BatchAttempts(j, row.batch) = {}
AttemptMayStart(j, row) ==
    /\ row.attempt = Cardinality(AttemptStarts(j))
    /\ \E b \in BatchStarts(j) : SameBatch(j[b], row) /\ row.index \in 0 .. j[b].index - 1
    /\ \A t \in AttemptStarts(j) : ~(SameBatch(j[t], row) /\ j[t].index = row.index)
    /\ \A e \in BatchEnds(j) : j[e].batch # row.batch
    /\ \A b \in BatchStarts(j) : j[b].batch = row.batch /\ Workers[j[b].role] > 1 =>
        AllReady(j, row.batch, ChunkCount(j[b].index, Workers[j[b].role]))

\* row may follow the rows of j: the audit accepts it there.
Fits(j, row) ==
    /\ row.kind \in Kinds /\ row.sequence = Len(j)
    /\ row.kind = "oracle_constructor_started" => ~OracleStarted(j, row.role)
    /\ row.kind \in OracleEndKinds => OracleStarted(j, row.role) /\ ~OracleEnded(j, row.role)
    /\ row.kind = "oracle_batch_started" => \A i \in DOMAIN j : j[i].batch # row.batch
    /\ row.kind \in BatchEndKinds => BatchMayEnd(j, row)
    /\ row.kind = "calculator_constructor_started" =>
        BatchStarted(j, row.batch) /\ ~SlotStarted(j, row.batch, row.index)
    /\ row.kind \in SlotEndKinds =>
        /\ BatchStarted(j, row.batch) /\ BatchAttempts(j, row.batch) = {}
        /\ SlotStarted(j, row.batch, row.index) /\ ~SlotEnded(j, row.batch, row.index)
    /\ row.kind = "all_calculators_ready" =>
        BatchStarted(j, row.batch) /\ \A m \in ReadyMarks(j) : j[m].batch # row.batch
    /\ row.kind = "oracle_attempt_started" => AttemptMayStart(j, row)
    /\ row.kind \in AttemptEndKinds =>
        /\ \E s \in AttemptStarts(j) : SameAttempt(j[s], row)
        /\ \A e \in AttemptEnds(j) : ~SameAttempt(j[e], row)

\* No batch begins or ends twice, or ends before it begins.
LEMMA BatchesPaired ==
    ASSUME NEW j, NEW row, NEW u, Longer(j, row, u), Fits(j, row),
           Paired(j, BatchStarts(j), BatchEnds(j), SameBatch)
    PROVE  Paired(u, BatchStarts(u), BatchEnds(u), SameBatch)
<1>1. /\ \A a, b \in BatchStarts(j) : SameBatch(j[a], j[b]) => a = b
      /\ \A a, b \in BatchEnds(j) : SameBatch(j[a], j[b]) => a = b
      /\ \A e \in BatchEnds(j) : \E s \in BatchStarts(j) : s < e /\ SameBatch(j[s], j[e])
  BY DEF Paired
<1>2. /\ GrownBy(BatchStarts(j), BatchStarts(u), j, row, u, row.kind = "oracle_batch_started")
      /\ GrownBy(BatchEnds(j), BatchEnds(u), j, row, u, row.kind \in BatchEndKinds)
  BY KindsGrown DEF AllGrown
<1>3. /\ row.kind = "oracle_batch_started" => \A s \in BatchStarts(j) : j[s].batch # row.batch
      /\ row.kind \in BatchEndKinds => /\ \E s \in BatchStarts(j) : SameBatch(j[s], row)
                                       /\ \A e \in BatchEnds(j) : j[e].batch # row.batch
  BY DEF Fits, BatchMayEnd, BatchStarts, Rows
<1>4. ASSUME NEW a \in BatchStarts(u), NEW b \in BatchStarts(u), SameBatch(u[a], u[b]) PROVE a = b
  <2>1. CASE a \in BatchStarts(j) /\ u[a] = j[a] /\ b \in BatchStarts(j) /\ u[b] = j[b]
    BY <1>1, <1>4, <2>1
  <2>2. CASE a \in BatchStarts(j) /\ u[a] = j[a] /\ row.kind = "oracle_batch_started" /\ u[b] = row
    BY <1>3, <1>4, <2>2 DEF SameBatch
  <2>3. CASE b \in BatchStarts(j) /\ u[b] = j[b] /\ row.kind = "oracle_batch_started" /\ u[a] = row
    BY <1>3, <1>4, <2>3 DEF SameBatch
  <2>4. CASE a = Len(u) /\ b = Len(u)
    BY <2>4
  <2> QED BY <1>2, <2>1, <2>2, <2>3, <2>4 DEF GrownBy
<1>5. ASSUME NEW a \in BatchEnds(u), NEW b \in BatchEnds(u), SameBatch(u[a], u[b]) PROVE a = b
  <2>1. CASE a \in BatchEnds(j) /\ u[a] = j[a] /\ b \in BatchEnds(j) /\ u[b] = j[b]
    BY <1>1, <1>5, <2>1
  <2>2. CASE a \in BatchEnds(j) /\ u[a] = j[a] /\ row.kind \in BatchEndKinds /\ u[b] = row
    BY <1>3, <1>5, <2>2 DEF SameBatch
  <2>3. CASE b \in BatchEnds(j) /\ u[b] = j[b] /\ row.kind \in BatchEndKinds /\ u[a] = row
    BY <1>3, <1>5, <2>3 DEF SameBatch
  <2>4. CASE a = Len(u) /\ b = Len(u)
    BY <2>4
  <2> QED BY <1>2, <2>1, <2>2, <2>3, <2>4 DEF GrownBy
<1>6. ASSUME NEW e \in BatchEnds(u) PROVE \E s \in BatchStarts(u) : s < e /\ SameBatch(u[s], u[e])
  <2>1. CASE e \in BatchEnds(j) /\ u[e] = j[e]
    <3>1. PICK s \in BatchStarts(j) : s < e /\ SameBatch(j[s], j[e])
      BY <1>1, <2>1
    <3> QED BY <1>2, <2>1, <3>1 DEF GrownBy
  <2>2. CASE row.kind \in BatchEndKinds /\ e = Len(u) /\ u[e] = row
    <3>1. PICK s \in BatchStarts(j) : SameBatch(j[s], row)
      BY <1>3, <2>2 DEF SameBatch
    <3> QED BY <1>2, <2>2, <3>1 DEF GrownBy
  <2> QED BY <1>2, <2>1, <2>2 DEF GrownBy
<1> QED BY <1>4, <1>5, <1>6 DEF Paired

\* No oracle is constructed twice.
LEMMA OraclesPaired ==
    ASSUME NEW j, NEW row, NEW u, Longer(j, row, u), Fits(j, row),
           Paired(j, OracleStarts(j), OracleEnds(j), SameOracle)
    PROVE  Paired(u, OracleStarts(u), OracleEnds(u), SameOracle)
<1>1. /\ \A a, b \in OracleStarts(j) : SameOracle(j[a], j[b]) => a = b
      /\ \A a, b \in OracleEnds(j) : SameOracle(j[a], j[b]) => a = b
      /\ \A e \in OracleEnds(j) : \E s \in OracleStarts(j) : s < e /\ SameOracle(j[s], j[e])
  BY DEF Paired
<1>2. /\ GrownBy(OracleStarts(j), OracleStarts(u), j, row, u, row.kind = "oracle_constructor_started")
      /\ GrownBy(OracleEnds(j), OracleEnds(u), j, row, u, row.kind \in OracleEndKinds)
  BY KindsGrown DEF AllGrown
<1>3. /\ row.kind = "oracle_constructor_started" => \A s \in OracleStarts(j) : j[s].role # row.role
      /\ row.kind \in OracleEndKinds => /\ \E s \in OracleStarts(j) : j[s].role = row.role
                                        /\ \A e \in OracleEnds(j) : j[e].role # row.role
  BY DEF Fits, OracleStarted, OracleEnded
<1>4. ASSUME NEW a \in OracleStarts(u), NEW b \in OracleStarts(u), SameOracle(u[a], u[b]) PROVE a = b
  <2>1. CASE a \in OracleStarts(j) /\ u[a] = j[a] /\ b \in OracleStarts(j) /\ u[b] = j[b]
    BY <1>1, <1>4, <2>1
  <2>2. CASE a \in OracleStarts(j) /\ u[a] = j[a] /\ row.kind = "oracle_constructor_started" /\ u[b] = row
    BY <1>3, <1>4, <2>2 DEF SameOracle
  <2>3. CASE b \in OracleStarts(j) /\ u[b] = j[b] /\ row.kind = "oracle_constructor_started" /\ u[a] = row
    BY <1>3, <1>4, <2>3 DEF SameOracle
  <2>4. CASE a = Len(u) /\ b = Len(u)
    BY <2>4
  <2> QED BY <1>2, <2>1, <2>2, <2>3, <2>4 DEF GrownBy
<1>5. ASSUME NEW a \in OracleEnds(u), NEW b \in OracleEnds(u), SameOracle(u[a], u[b]) PROVE a = b
  <2>1. CASE a \in OracleEnds(j) /\ u[a] = j[a] /\ b \in OracleEnds(j) /\ u[b] = j[b]
    BY <1>1, <1>5, <2>1
  <2>2. CASE a \in OracleEnds(j) /\ u[a] = j[a] /\ row.kind \in OracleEndKinds /\ u[b] = row
    BY <1>3, <1>5, <2>2 DEF SameOracle
  <2>3. CASE b \in OracleEnds(j) /\ u[b] = j[b] /\ row.kind \in OracleEndKinds /\ u[a] = row
    BY <1>3, <1>5, <2>3 DEF SameOracle
  <2>4. CASE a = Len(u) /\ b = Len(u)
    BY <2>4
  <2> QED BY <1>2, <2>1, <2>2, <2>3, <2>4 DEF GrownBy
<1>6. ASSUME NEW e \in OracleEnds(u) PROVE \E s \in OracleStarts(u) : s < e /\ SameOracle(u[s], u[e])
  <2>1. CASE e \in OracleEnds(j) /\ u[e] = j[e]
    <3>1. PICK s \in OracleStarts(j) : s < e /\ SameOracle(j[s], j[e])
      BY <1>1, <2>1
    <3> QED BY <1>2, <2>1, <3>1 DEF GrownBy
  <2>2. CASE row.kind \in OracleEndKinds /\ e = Len(u) /\ u[e] = row
    <3>1. PICK s \in OracleStarts(j) : SameOracle(j[s], row)
      BY <1>3, <2>2 DEF SameOracle
    <3> QED BY <1>2, <2>2, <3>1 DEF GrownBy
  <2> QED BY <1>2, <2>1, <2>2 DEF GrownBy
<1> QED BY <1>4, <1>5, <1>6 DEF Paired

\* No slot of a batch is constructed twice.
LEMMA SlotsPaired ==
    ASSUME NEW j, NEW row, NEW u, Longer(j, row, u), Fits(j, row),
           Paired(j, SlotStarts(j), SlotEnds(j), SameSlot)
    PROVE  Paired(u, SlotStarts(u), SlotEnds(u), SameSlot)
<1>1. /\ \A a, b \in SlotStarts(j) : SameSlot(j[a], j[b]) => a = b
      /\ \A a, b \in SlotEnds(j) : SameSlot(j[a], j[b]) => a = b
      /\ \A e \in SlotEnds(j) : \E s \in SlotStarts(j) : s < e /\ SameSlot(j[s], j[e])
  BY DEF Paired
<1>2. /\ GrownBy(SlotStarts(j), SlotStarts(u), j, row, u, row.kind = "calculator_constructor_started")
      /\ GrownBy(SlotEnds(j), SlotEnds(u), j, row, u, row.kind \in SlotEndKinds)
  BY KindsGrown DEF AllGrown
<1>3. /\ row.kind = "calculator_constructor_started" => \A s \in SlotStarts(j) : ~SameSlot(j[s], row)
      /\ row.kind \in SlotEndKinds => /\ \E s \in SlotStarts(j) : SameSlot(j[s], row)
                                      /\ \A e \in SlotEnds(j) : ~SameSlot(j[e], row)
  BY DEF Fits, SlotStarted, SlotEnded, SameSlot
<1>4. ASSUME NEW a \in SlotStarts(u), NEW b \in SlotStarts(u), SameSlot(u[a], u[b]) PROVE a = b
  <2>1. CASE a \in SlotStarts(j) /\ u[a] = j[a] /\ b \in SlotStarts(j) /\ u[b] = j[b]
    BY <1>1, <1>4, <2>1
  <2>2. CASE a \in SlotStarts(j) /\ u[a] = j[a] /\ row.kind = "calculator_constructor_started" /\ u[b] = row
    BY <1>3, <1>4, <2>2 DEF SameSlot
  <2>3. CASE b \in SlotStarts(j) /\ u[b] = j[b] /\ row.kind = "calculator_constructor_started" /\ u[a] = row
    BY <1>3, <1>4, <2>3 DEF SameSlot
  <2>4. CASE a = Len(u) /\ b = Len(u)
    BY <2>4
  <2> QED BY <1>2, <2>1, <2>2, <2>3, <2>4 DEF GrownBy
<1>5. ASSUME NEW a \in SlotEnds(u), NEW b \in SlotEnds(u), SameSlot(u[a], u[b]) PROVE a = b
  <2>1. CASE a \in SlotEnds(j) /\ u[a] = j[a] /\ b \in SlotEnds(j) /\ u[b] = j[b]
    BY <1>1, <1>5, <2>1
  <2>2. CASE a \in SlotEnds(j) /\ u[a] = j[a] /\ row.kind \in SlotEndKinds /\ u[b] = row
    BY <1>3, <1>5, <2>2 DEF SameSlot
  <2>3. CASE b \in SlotEnds(j) /\ u[b] = j[b] /\ row.kind \in SlotEndKinds /\ u[a] = row
    BY <1>3, <1>5, <2>3 DEF SameSlot
  <2>4. CASE a = Len(u) /\ b = Len(u)
    BY <2>4
  <2> QED BY <1>2, <2>1, <2>2, <2>3, <2>4 DEF GrownBy
<1>6. ASSUME NEW e \in SlotEnds(u) PROVE \E s \in SlotStarts(u) : s < e /\ SameSlot(u[s], u[e])
  <2>1. CASE e \in SlotEnds(j) /\ u[e] = j[e]
    <3>1. PICK s \in SlotStarts(j) : s < e /\ SameSlot(j[s], j[e])
      BY <1>1, <2>1
    <3> QED BY <1>2, <2>1, <3>1 DEF GrownBy
  <2>2. CASE row.kind \in SlotEndKinds /\ e = Len(u) /\ u[e] = row
    <3>1. PICK s \in SlotStarts(j) : SameSlot(j[s], row)
      BY <1>3, <2>2 DEF SameSlot
    <3> QED BY <1>2, <2>2, <3>1 DEF GrownBy
  <2> QED BY <1>2, <2>1, <2>2 DEF GrownBy
<1> QED BY <1>4, <1>5, <1>6 DEF Paired

\* No attempt begins twice, or has two outcomes.
LEMMA AttemptsPaired ==
    ASSUME NEW j, NEW row, NEW u, Longer(j, row, u), Fits(j, row),
           Paired(j, AttemptStarts(j), AttemptEnds(j), SameAttempt)
    PROVE  Paired(u, AttemptStarts(u), AttemptEnds(u), SameAttempt)
<1>1. /\ \A a, b \in AttemptStarts(j) : SameAttempt(j[a], j[b]) => a = b
      /\ \A a, b \in AttemptEnds(j) : SameAttempt(j[a], j[b]) => a = b
      /\ \A e \in AttemptEnds(j) : \E s \in AttemptStarts(j) : s < e /\ SameAttempt(j[s], j[e])
  BY DEF Paired
<1>2. /\ GrownBy(AttemptStarts(j), AttemptStarts(u), j, row, u, row.kind = "oracle_attempt_started")
      /\ GrownBy(AttemptEnds(j), AttemptEnds(u), j, row, u, row.kind \in AttemptEndKinds)
  BY KindsGrown DEF AllGrown
<1>3. /\ row.kind = "oracle_attempt_started" => \A s \in AttemptStarts(j) : ~SameAttempt(j[s], row)
      /\ row.kind \in AttemptEndKinds => /\ \E s \in AttemptStarts(j) : SameAttempt(j[s], row)
                                         /\ \A e \in AttemptEnds(j) : ~SameAttempt(j[e], row)
  BY DEF Fits, AttemptMayStart, SameAttempt, SameBatch
<1>4. ASSUME NEW a \in AttemptStarts(u), NEW b \in AttemptStarts(u), SameAttempt(u[a], u[b]) PROVE a = b
  <2>1. CASE a \in AttemptStarts(j) /\ u[a] = j[a] /\ b \in AttemptStarts(j) /\ u[b] = j[b]
    BY <1>1, <1>4, <2>1
  <2>2. CASE a \in AttemptStarts(j) /\ u[a] = j[a] /\ row.kind = "oracle_attempt_started" /\ u[b] = row
    BY <1>3, <1>4, <2>2 DEF SameAttempt
  <2>3. CASE b \in AttemptStarts(j) /\ u[b] = j[b] /\ row.kind = "oracle_attempt_started" /\ u[a] = row
    BY <1>3, <1>4, <2>3 DEF SameAttempt
  <2>4. CASE a = Len(u) /\ b = Len(u)
    BY <2>4
  <2> QED BY <1>2, <2>1, <2>2, <2>3, <2>4 DEF GrownBy
<1>5. ASSUME NEW a \in AttemptEnds(u), NEW b \in AttemptEnds(u), SameAttempt(u[a], u[b]) PROVE a = b
  <2>1. CASE a \in AttemptEnds(j) /\ u[a] = j[a] /\ b \in AttemptEnds(j) /\ u[b] = j[b]
    BY <1>1, <1>5, <2>1
  <2>2. CASE a \in AttemptEnds(j) /\ u[a] = j[a] /\ row.kind \in AttemptEndKinds /\ u[b] = row
    BY <1>3, <1>5, <2>2 DEF SameAttempt
  <2>3. CASE b \in AttemptEnds(j) /\ u[b] = j[b] /\ row.kind \in AttemptEndKinds /\ u[a] = row
    BY <1>3, <1>5, <2>3 DEF SameAttempt
  <2>4. CASE a = Len(u) /\ b = Len(u)
    BY <2>4
  <2> QED BY <1>2, <2>1, <2>2, <2>3, <2>4 DEF GrownBy
<1>6. ASSUME NEW e \in AttemptEnds(u) PROVE \E s \in AttemptStarts(u) : s < e /\ SameAttempt(u[s], u[e])
  <2>1. CASE e \in AttemptEnds(j) /\ u[e] = j[e]
    <3>1. PICK s \in AttemptStarts(j) : s < e /\ SameAttempt(j[s], j[e])
      BY <1>1, <2>1
    <3> QED BY <1>2, <2>1, <3>1 DEF GrownBy
  <2>2. CASE row.kind \in AttemptEndKinds /\ e = Len(u) /\ u[e] = row
    <3>1. PICK s \in AttemptStarts(j) : SameAttempt(j[s], row)
      BY <1>3, <2>2 DEF SameAttempt
    <3> QED BY <1>2, <2>2, <3>1 DEF GrownBy
  <2> QED BY <1>2, <2>1, <2>2 DEF GrownBy
<1> QED BY <1>4, <1>5, <1>6 DEF Paired

\* Only a row that begins an attempt changes the attempts of a batch.
LEMMA AttemptsOfBatch ==
    ASSUME NEW j, NEW row, NEW u, Longer(j, row, u), NEW b
    PROVE  BatchAttempts(u, b) = IF row.kind = "oracle_attempt_started" /\ row.batch = b
                                 THEN BatchAttempts(j, b) \cup {Len(u)} ELSE BatchAttempts(j, b)
<1>1. GrownBy(AttemptStarts(j), AttemptStarts(u), j, row, u, row.kind = "oracle_attempt_started")
  BY KindsGrown DEF AllGrown
<1>2. CASE row.kind = "oracle_attempt_started" /\ row.batch = b
  BY <1>1, <1>2 DEF GrownBy, BatchAttempts
<1>3. CASE ~(row.kind = "oracle_attempt_started" /\ row.batch = b)
  BY <1>1, <1>3 DEF GrownBy, BatchAttempts
<1> QED BY <1>2, <1>3

\* Only the end of a constructor changes the calculators of a batch.
LEMMA ConstructedOfBatch ==
    ASSUME NEW j, NEW row, NEW u, Longer(j, row, u), NEW b
    PROVE  Constructed(u, b) = IF row.kind = "calculator_constructor_finished" /\ row.batch = b
                               THEN Constructed(j, b) \cup {Len(u)} ELSE Constructed(j, b)
<1>1. GrownBy(Rows(j, {"calculator_constructor_finished"}), Rows(u, {"calculator_constructor_finished"}),
              j, row, u, row.kind = "calculator_constructor_finished")
  BY KindsGrown DEF AllGrown
<1>2. CASE row.kind = "calculator_constructor_finished" /\ row.batch = b
  BY <1>1, <1>2 DEF GrownBy, Constructed
<1>3. CASE ~(row.kind = "calculator_constructor_finished" /\ row.batch = b)
  BY <1>1, <1>3 DEF GrownBy, Constructed
<1> QED BY <1>2, <1>3

\* The rows of a batch are old rows; the next one comes behind them.
LEMMA OldRows ==
    ASSUME NEW j, NEW row, NEW u, Longer(j, row, u), NEW b
    PROVE  /\ \A s \in BatchAttempts(j, b) : s \in AttemptStarts(j) /\ j[s].batch = b /\ s < Len(u) /\ s \in Nat
           /\ \A s \in Constructed(j, b) : s < Len(u) /\ s \in Nat
           /\ Len(u) \notin AttemptStarts(j) /\ Len(u) \notin Constructed(j, b) /\ Len(u) \in Nat
           /\ IsFiniteSet(AttemptStarts(j)) /\ IsFiniteSet(BatchAttempts(j, b)) /\ IsFiniteSet(Constructed(j, b))
<1>1. /\ \A s \in AttemptStarts(j) : s < Len(u) /\ s \in Nat
      /\ \A s \in Rows(j, {"calculator_constructor_finished"}) : s < Len(u) /\ s \in Nat
  BY KindsGrown DEF AllGrown, GrownBy
<1>2. /\ IsFiniteSet(AttemptStarts(j)) /\ IsFiniteSet(BatchAttempts(j, b)) /\ IsFiniteSet(Constructed(j, b))
      /\ Len(u) \in Nat
  BY JournalFinite DEF Longer, AttemptStarts, BatchAttempts, Constructed
<1> QED BY <1>1, <1>2 DEF BatchAttempts, Constructed

\* Attempts stay numbered in order, each of an input of its own.
LEMMA IdentifiedStays ==
    ASSUME NEW j, NEW row, NEW u, Longer(j, row, u), Fits(j, row), AttemptsIdentified(j)
    PROVE  AttemptsIdentified(u)
<1>1. /\ GrownBy(AttemptStarts(j), AttemptStarts(u), j, row, u, row.kind = "oracle_attempt_started")
      /\ GrownBy(BatchStarts(j), BatchStarts(u), j, row, u, row.kind = "oracle_batch_started")
  BY KindsGrown DEF AllGrown
<1>2. \A b \in BatchStarts(j) : b \in BatchStarts(u) /\ u[b] = j[b]
  BY <1>1 DEF GrownBy
<1>3. ASSUME NEW s \in AttemptStarts(j), s \in AttemptStarts(u), u[s] = j[s]
      PROVE  /\ u[s].attempt = Cardinality({t \in AttemptStarts(u) : t < s})
             /\ \E b \in BatchStarts(u) : SameBatch(u[b], u[s]) /\ u[s].index \in 0 .. u[b].index - 1
             /\ \A t \in AttemptStarts(u) : SameBatch(u[s], u[t]) /\ u[s].index = u[t].index => s = t
  <2>1. {t \in AttemptStarts(u) : t < s} = {t \in AttemptStarts(j) : t < s}
    <3>1. s < Len(u) /\ s \in Nat /\ Len(u) \in Nat
      BY <1>1 DEF GrownBy, Longer
    <3>2. \A t \in AttemptStarts(u) : t < s => t \in AttemptStarts(j)
      BY <1>1, <3>1 DEF GrownBy
    <3>3. \A t \in AttemptStarts(j) : t \in AttemptStarts(u)
      BY <1>1 DEF GrownBy
    <3> QED BY <3>2, <3>3
  <2>2. u[s].attempt = Cardinality({t \in AttemptStarts(u) : t < s})
    BY <1>3, <2>1 DEF AttemptsIdentified
  <2>3. PICK b \in BatchStarts(j) : SameBatch(j[b], j[s]) /\ j[s].index \in 0 .. j[b].index - 1
    BY <1>3 DEF AttemptsIdentified
  <2>4. ASSUME NEW t \in AttemptStarts(u), SameBatch(u[s], u[t]), u[s].index = u[t].index PROVE s = t
    <3>1. CASE t \in AttemptStarts(j) /\ u[t] = j[t]
      BY <1>3, <2>4, <3>1 DEF AttemptsIdentified
    <3>2. CASE row.kind = "oracle_attempt_started" /\ u[t] = row
      BY <1>3, <2>4, <3>2 DEF Fits, AttemptMayStart
    <3> QED BY <1>1, <3>1, <3>2 DEF GrownBy
  <2>5. SameBatch(u[b], u[s]) /\ u[s].index \in 0 .. u[b].index - 1 /\ b \in BatchStarts(u)
    BY <1>2, <1>3, <2>3
  <2> QED BY <2>2, <2>4, <2>5
<1>4. ASSUME NEW s, s = Len(u), u[s] = row, row.kind = "oracle_attempt_started"
      PROVE  /\ u[s].attempt = Cardinality({t \in AttemptStarts(u) : t < s})
             /\ \E b \in BatchStarts(u) : SameBatch(u[b], u[s]) /\ u[s].index \in 0 .. u[b].index - 1
             /\ \A t \in AttemptStarts(u) : SameBatch(u[s], u[t]) /\ u[s].index = u[t].index => s = t
  <2>1. AttemptMayStart(j, row)
    BY <1>4 DEF Fits
  <2>2. {t \in AttemptStarts(u) : t < s} = AttemptStarts(j)
    <3>1. s \in Nat
      BY <1>4 DEF Longer
    <3>2. \A t \in AttemptStarts(u) : t < s => t \in AttemptStarts(j)
      BY <1>1, <1>4, <3>1 DEF GrownBy
    <3>3. \A t \in AttemptStarts(j) : t \in AttemptStarts(u) /\ t < s
      BY <1>1, <1>4 DEF GrownBy
    <3> QED BY <3>2, <3>3
  <2>3. PICK b \in BatchStarts(j) : SameBatch(j[b], row) /\ row.index \in 0 .. j[b].index - 1
    BY <2>1 DEF AttemptMayStart
  <2>4. ASSUME NEW t \in AttemptStarts(u), SameBatch(u[s], u[t]), u[s].index = u[t].index PROVE s = t
    <3>1. CASE t \in AttemptStarts(j) /\ u[t] = j[t]
      BY <1>4, <2>1, <2>4, <3>1 DEF AttemptMayStart, SameBatch
    <3>2. CASE t = Len(u)
      BY <1>4, <3>2
    <3> QED BY <1>1, <3>1, <3>2 DEF GrownBy
  <2>5. u[s].attempt = Cardinality({t \in AttemptStarts(u) : t < s})
    BY <1>4, <2>1, <2>2 DEF AttemptMayStart
  <2>6. SameBatch(u[b], u[s]) /\ u[s].index \in 0 .. u[b].index - 1 /\ b \in BatchStarts(u)
    BY <1>2, <1>4, <2>3
  <2> QED BY <2>4, <2>5, <2>6
<1>5. \A s \in AttemptStarts(u) :
          (s \in AttemptStarts(j) /\ u[s] = j[s]) \/ (s = Len(u) /\ u[s] = row /\ row.kind = "oracle_attempt_started")
  BY <1>1 DEF GrownBy
<1> QED BY <1>3, <1>4, <1>5 DEF AttemptsIdentified

\* Slots stay those of batches that have begun, with one mark per batch.
LEMMA SlotsStay ==
    ASSUME NEW j, NEW row, NEW u, Longer(j, row, u), Fits(j, row), SlotsIdentified(j)
    PROVE  SlotsIdentified(u)
<1>1. /\ GrownBy(ReadyMarks(j), ReadyMarks(u), j, row, u, row.kind = "all_calculators_ready")
      /\ GrownBy(SlotStarts(j), SlotStarts(u), j, row, u, row.kind = "calculator_constructor_started")
      /\ GrownBy(SlotEnds(j), SlotEnds(u), j, row, u, row.kind \in SlotEndKinds)
      /\ GrownBy(BatchStarts(j), BatchStarts(u), j, row, u, row.kind = "oracle_batch_started")
  BY KindsGrown DEF AllGrown
<1>2. /\ \A i \in ReadyMarks(j) \cup SlotStarts(j) \cup SlotEnds(j) :
            \E b \in BatchStarts(j) : b < i /\ j[b].batch = j[i].batch
      /\ \A m, n \in ReadyMarks(j) : j[m].batch = j[n].batch => m = n
  BY DEF SlotsIdentified, ReadyMarks
<1>3. ASSUME NEW i \in ReadyMarks(u) \cup SlotStarts(u) \cup SlotEnds(u)
      PROVE  \E b \in BatchStarts(u) : b < i /\ u[b].batch = u[i].batch
  <2>1. CASE i \in ReadyMarks(j) \cup SlotStarts(j) \cup SlotEnds(j) /\ u[i] = j[i]
    <3>1. PICK b \in BatchStarts(j) : b < i /\ j[b].batch = j[i].batch
      BY <1>2, <2>1
    <3> QED BY <1>1, <2>1, <3>1 DEF GrownBy
  <2>2. CASE /\ i = Len(u) /\ u[i] = row
             /\ row.kind \in SlotEndKinds \cup {"all_calculators_ready", "calculator_constructor_started"}
    <3>1. PICK b \in BatchStarts(j) : j[b].batch = row.batch
      BY <2>2 DEF Fits, BatchStarted
    <3> QED BY <1>1, <2>2, <3>1 DEF GrownBy
  <2> QED BY <1>1, <2>1, <2>2 DEF GrownBy
<1>4. ASSUME NEW m \in ReadyMarks(u), NEW n \in ReadyMarks(u), u[m].batch = u[n].batch PROVE m = n
  <2>1. CASE m \in ReadyMarks(j) /\ u[m] = j[m] /\ n \in ReadyMarks(j) /\ u[n] = j[n]
    BY <1>2, <1>4, <2>1
  <2>2. CASE row.kind = "all_calculators_ready" /\ m = Len(u) /\ u[m] = row /\ n \in ReadyMarks(j) /\ u[n] = j[n]
    BY <1>4, <2>2 DEF Fits
  <2>3. CASE row.kind = "all_calculators_ready" /\ n = Len(u) /\ u[n] = row /\ m \in ReadyMarks(j) /\ u[m] = j[m]
    BY <1>4, <2>3 DEF Fits
  <2>4. CASE m = Len(u) /\ n = Len(u)
    BY <2>4
  <2> QED BY <1>1, <2>1, <2>2, <2>3, <2>4 DEF GrownBy
<1> QED BY <1>3, <1>4 DEF SlotsIdentified, ReadyMarks

\* What BatchesJoined asks of the row that ends a batch, b being the row that began it.
Joins(j, b, e) ==
    /\ \A s \in BatchAttempts(j, j[b].batch) : \E t \in AttemptEnds(j) : t < e /\ SameAttempt(j[s], j[t])
    /\ j[e].kind = "oracle_batch_finished" =>
        /\ j[e].index = j[b].index /\ Cardinality(BatchAttempts(j, j[b].batch)) = j[b].index
        /\ \A s \in BatchAttempts(j, j[b].batch) : \E t \in AttemptEnds(j) :
            SameAttempt(j[s], j[t]) /\ j[t].kind = "oracle_attempt_returned"
    /\ j[e].kind = "oracle_batch_exception" /\ j[e].stage # "evaluation" => BatchAttempts(j, j[b].batch) = {}

\* BatchesJoined in these words.
LEMMA JoinedBatches ==
    ASSUME NEW j
    PROVE  BatchesJoined(j) <=> \A b \in BatchStarts(j), e \in BatchEnds(j) : SameBatch(j[b], j[e]) => Joins(j, b, e)
  BY DEF BatchesJoined, Joins, BatchAttempts

\* A batch stays joined: no attempt of it begins any more.
LEMMA JoinedStays ==
    ASSUME NEW j, NEW row, NEW u, Longer(j, row, u), Fits(j, row), BatchesJoined(j)
    PROVE  BatchesJoined(u)
<1>1. /\ GrownBy(AttemptStarts(j), AttemptStarts(u), j, row, u, row.kind = "oracle_attempt_started")
      /\ GrownBy(AttemptEnds(j), AttemptEnds(u), j, row, u, row.kind \in AttemptEndKinds)
      /\ GrownBy(BatchStarts(j), BatchStarts(u), j, row, u, row.kind = "oracle_batch_started")
      /\ GrownBy(BatchEnds(j), BatchEnds(u), j, row, u, row.kind \in BatchEndKinds)
  BY KindsGrown DEF AllGrown
<1>2. \A s \in AttemptStarts(j) : s \in AttemptStarts(u) /\ u[s] = j[s]
  BY <1>1 DEF GrownBy
<1>3. \A t \in AttemptEnds(j) : t \in AttemptEnds(u) /\ u[t] = j[t] /\ t < Len(u)
  BY <1>1 DEF GrownBy
<1> SUFFICES ASSUME NEW b \in BatchStarts(u), NEW e \in BatchEnds(u), SameBatch(u[b], u[e]) PROVE Joins(u, b, e)
  BY JoinedBatches
<1>4. \A s \in BatchAttempts(j, u[b].batch) : s \in AttemptStarts(j) /\ u[s] = j[s]
  BY <1>2 DEF BatchAttempts
<1>5. CASE b \in BatchStarts(j) /\ u[b] = j[b] /\ e \in BatchEnds(j) /\ u[e] = j[e]
  <2>1. BatchAttempts(u, u[b].batch) = BatchAttempts(j, j[b].batch)
    <3>1. row.kind = "oracle_attempt_started" => row.batch # u[b].batch
      BY <1>5 DEF Fits, AttemptMayStart, SameBatch
    <3> QED BY <1>5, <3>1, AttemptsOfBatch
  <2>2. Joins(j, b, e)
    BY <1>5, JoinedBatches
  <2>3. \A s \in BatchAttempts(u, u[b].batch) : \E t \in AttemptEnds(u) : t < e /\ SameAttempt(u[s], u[t])
    BY <1>3, <1>4, <1>5, <2>1, <2>2 DEF Joins
  <2>4. u[e].kind = "oracle_batch_finished" => \A s \in BatchAttempts(u, u[b].batch) : \E t \in AttemptEnds(u) :
            SameAttempt(u[s], u[t]) /\ u[t].kind = "oracle_attempt_returned"
    BY <1>3, <1>4, <1>5, <2>1, <2>2 DEF Joins
  <2> QED BY <1>5, <2>1, <2>2, <2>3, <2>4 DEF Joins
<1>6. CASE row.kind \in BatchEndKinds /\ e = Len(u) /\ u[e] = row
  <2>1. BatchMayEnd(j, row) /\ row.kind # "oracle_attempt_started" /\ row.kind # "oracle_batch_started"
    BY <1>6 DEF Fits, BatchEndKinds
  <2>2. b \in BatchStarts(j) /\ u[b] = j[b] /\ j[b].batch = row.batch /\ u[b].batch = row.batch
    BY <1>1, <1>6, <2>1 DEF GrownBy, SameBatch
  <2>3. BatchAttempts(u, u[b].batch) = BatchAttempts(j, row.batch)
    BY <2>1, <2>2, AttemptsOfBatch
  <2>4. \A s \in BatchAttempts(u, u[b].batch) : \E t \in AttemptEnds(u) : t < e /\ SameAttempt(u[s], u[t])
    BY <1>3, <1>4, <1>6, <2>1, <2>2, <2>3 DEF BatchMayEnd
  <2>5. u[e].kind = "oracle_batch_finished" => \A s \in BatchAttempts(u, u[b].batch) : \E t \in AttemptEnds(u) :
            SameAttempt(u[s], u[t]) /\ u[t].kind = "oracle_attempt_returned"
    BY <1>3, <1>4, <1>6, <2>1, <2>2, <2>3 DEF BatchMayEnd
  <2>6. u[e].kind = "oracle_batch_finished" =>
            u[e].index = u[b].index /\ Cardinality(BatchAttempts(u, u[b].batch)) = u[b].index
    BY <1>6, <2>1, <2>2, <2>3 DEF BatchMayEnd
  <2>7. u[e].kind = "oracle_batch_exception" /\ u[e].stage # "evaluation" => BatchAttempts(u, u[b].batch) = {}
    BY <1>6, <2>1, <2>3 DEF BatchMayEnd
  <2> QED BY <2>4, <2>5, <2>6, <2>7 DEF Joins
<1>7. CASE row.kind = "oracle_batch_started" /\ u[b] = row /\ e \in BatchEnds(j) /\ u[e] = j[e]
  <2>1. e \in DOMAIN j
    BY <1>7 DEF BatchEnds, Rows
  <2> QED BY <1>7, <2>1 DEF Fits, SameBatch
<1> QED BY <1>1, <1>5, <1>6, <1>7 DEF GrownBy, BatchEndKinds

\* PhasesApart in terms of AllReady.
LEMMA ApartPhases ==
    ASSUME NEW j
    PROVE  PhasesApart(j) <=> \A b \in BatchStarts(j) :
               Workers[j[b].role] > 1 /\ BatchAttempts(j, j[b].batch) # {} =>
                   AllReady(j, j[b].batch, ChunkCount(j[b].index, Workers[j[b].role]))
  BY DEF PhasesApart, AllReady, BatchAttempts, Constructed, ReadyMarks

\* What was ready stays so, if no calculator is constructed any more.
LEMMA ReadyStays ==
    ASSUME NEW j, NEW row, NEW u, Longer(j, row, u), NEW b, NEW n, AllReady(j, b, n),
           ~(row.kind = "calculator_constructor_finished" /\ row.batch = b)
    PROVE  AllReady(u, b, n)
<1>1. PICK m \in ReadyMarks(j) :
        /\ j[m].batch = b /\ j[m].index = n /\ Cardinality(Constructed(j, b)) = n
        /\ \A i \in Constructed(j, b) : i < m
        /\ \A s \in BatchAttempts(j, b) : m < s
  BY DEF AllReady
<1>2. m \in ReadyMarks(u) /\ u[m] = j[m] /\ m < Len(u)
  BY KindsGrown DEF AllGrown, GrownBy
<1>3. Constructed(u, b) = Constructed(j, b)
  BY ConstructedOfBatch
<1>4. \A s \in BatchAttempts(u, b) : m < s
  BY <1>1, <1>2, AttemptsOfBatch
<1> QED BY <1>1, <1>2, <1>3, <1>4 DEF AllReady

\* The phases of every batch stay apart.
LEMMA PhasesStay ==
    ASSUME NEW j, NEW row, NEW u, Longer(j, row, u), Fits(j, row), PhasesApart(j)
    PROVE  PhasesApart(u)
<1>1. GrownBy(BatchStarts(j), BatchStarts(u), j, row, u, row.kind = "oracle_batch_started")
  BY KindsGrown DEF AllGrown
<1> SUFFICES ASSUME NEW b \in BatchStarts(u), Workers[u[b].role] > 1, BatchAttempts(u, u[b].batch) # {}
             PROVE  AllReady(u, u[b].batch, ChunkCount(u[b].index, Workers[u[b].role]))
  BY ApartPhases
<1>2. CASE b \in BatchStarts(j) /\ u[b] = j[b]
  <2>1. CASE row.kind = "oracle_attempt_started" /\ row.batch = j[b].batch
    <3>1. AllReady(j, j[b].batch, ChunkCount(j[b].index, Workers[j[b].role]))
      BY <1>2, <2>1 DEF Fits, AttemptMayStart
    <3> QED BY <1>2, <2>1, <3>1, ReadyStays
  <2>2. CASE ~(row.kind = "oracle_attempt_started" /\ row.batch = j[b].batch)
    <3>1. BatchAttempts(j, j[b].batch) # {}
      BY <1>2, <2>2, AttemptsOfBatch
    <3>2. ~(row.kind = "calculator_constructor_finished" /\ row.batch = j[b].batch)
      BY <3>1 DEF Fits, SlotEndKinds
    <3>3. AllReady(j, j[b].batch, ChunkCount(j[b].index, Workers[j[b].role]))
      BY <1>2, <3>1, ApartPhases
    <3> QED BY <1>2, <3>2, <3>3, ReadyStays
  <2> QED BY <2>1, <2>2
<1>3. CASE row.kind = "oracle_batch_started" /\ u[b] = row
  <2>1. \A i \in DOMAIN j : j[i].batch # row.batch
    BY <1>3 DEF Fits
  <2>2. BatchAttempts(j, row.batch) = {}
    BY <2>1 DEF BatchAttempts, AttemptStarts, Rows
  <2>3. BatchAttempts(u, row.batch) = {}
    BY <1>3, <2>2, AttemptsOfBatch
  <2> QED BY <1>3, <2>3
<1> QED BY <1>1, <1>2, <1>3 DEF GrownBy

\* A valid journal stays valid with a row that fits.
LEMMA ValidStays ==
    ASSUME NEW j, NEW row, NEW u, Longer(j, row, u), Fits(j, row), Valid(j)
    PROVE  Valid(u)
<1>1. KnownRows(u)
  <2>1. row.kind \in Kinds /\ row.sequence = Len(j) /\ KnownRows(j)
    BY DEF Fits, Valid
  <2> QED BY <2>1 DEF KnownRows, Longer
<1>2. /\ Paired(u, BatchStarts(u), BatchEnds(u), SameBatch)
      /\ Paired(u, OracleStarts(u), OracleEnds(u), SameOracle)
      /\ Paired(u, SlotStarts(u), SlotEnds(u), SameSlot)
      /\ Paired(u, AttemptStarts(u), AttemptEnds(u), SameAttempt)
  BY BatchesPaired, OraclesPaired, SlotsPaired, AttemptsPaired DEF Valid
<1>3. AttemptsIdentified(u) /\ SlotsIdentified(u) /\ BatchesJoined(u) /\ PhasesApart(u)
  BY IdentifiedStays, SlotsStay, JoinedStays, PhasesStay DEF Valid
<1> QED BY <1>1, <1>2, <1>3 DEF Valid

-----------------------------------------------------------------------------
(* How a step of such an adapter changes the journal *)

\* A step adds the row, or none.
NoRow == [kind |-> "none"]
Adds(row) ==
    \/ row.kind \in Kinds /\ Longer(journal, row, journal')
    \/ row = NoRow /\ journal' = journal

\* The rows S of the journal become the rows T; the added row is one of them if c holds.
Adding(S, T, row, c) ==
    /\ \A i \in T : (i \in S /\ journal'[i] = journal[i]) \/ (c /\ journal'[i] = row)
    /\ \A i \in S : i \in T /\ journal'[i] = journal[i]
    /\ c => \E i \in T : journal'[i] = row

\* How each kind of rows changes.
AllAdding(row) ==
    /\ Adding(AttemptStarts(journal), AttemptStarts(journal'), row, row.kind = "oracle_attempt_started")
    /\ Adding(AttemptEnds(journal), AttemptEnds(journal'), row, row.kind \in AttemptEndKinds)
    /\ Adding(BatchStarts(journal), BatchStarts(journal'), row, row.kind = "oracle_batch_started")
    /\ Adding(BatchEnds(journal), BatchEnds(journal'), row, row.kind \in BatchEndKinds)
    /\ Adding(OracleStarts(journal), OracleStarts(journal'), row, row.kind = "oracle_constructor_started")
    /\ Adding(OracleEnds(journal), OracleEnds(journal'), row, row.kind \in OracleEndKinds)
    /\ Adding(SlotStarts(journal), SlotStarts(journal'), row, row.kind = "calculator_constructor_started")
    /\ Adding(SlotEnds(journal), SlotEnds(journal'), row, row.kind \in SlotEndKinds)
    /\ Adding(ReadyMarks(journal), ReadyMarks(journal'), row, row.kind = "all_calculators_ready")
    /\ Adding(Rows(journal, {"oracle_attempt_returned"}), Rows(journal', {"oracle_attempt_returned"}), row,
              row.kind = "oracle_attempt_returned")

\* A row is added as a longer journal has it, or nothing changes.
LEMMA RowsAdded == ASSUME NEW row, Adds(row) PROVE AllAdding(row)
<1>1. CASE row.kind \in Kinds /\ Longer(journal, row, journal')
  <2>1. AllGrown(journal, row, journal')
    BY <1>1, KindsGrown
  <2>2. ASSUME NEW S, NEW T, NEW c, GrownBy(S, T, journal, row, journal', c) PROVE Adding(S, T, row, c)
    BY <2>2 DEF GrownBy, Adding
  <2> QED BY <2>1, <2>2 DEF AllGrown, AllAdding
<1>2. CASE row = NoRow /\ journal' = journal
  <2>1. /\ row.kind # "oracle_attempt_started" /\ row.kind \notin AttemptEndKinds
        /\ row.kind # "oracle_batch_started" /\ row.kind \notin BatchEndKinds
        /\ row.kind # "oracle_constructor_started" /\ row.kind \notin OracleEndKinds
        /\ row.kind # "calculator_constructor_started" /\ row.kind \notin SlotEndKinds
        /\ row.kind # "all_calculators_ready" /\ row.kind # "oracle_attempt_returned"
    BY <1>2 DEF NoRow, AttemptEndKinds, BatchEndKinds, OracleEndKinds, SlotEndKinds
  <2>2. ASSUME NEW S, NEW c, ~c PROVE Adding(S, S, row, c)
    BY <1>2, <2>2 DEF Adding
  <2> QED BY <1>2, <2>1, <2>2 DEF AllAdding
<1> QED BY <1>1, <1>2 DEF Adds

\* A row that is written in a journal that stays honest is written in an honest one.
LEMMA HonestWrite ==
    ASSUME JournalInv, Premises, NEW row \in JournalRows, row.kind \in Kinds, NEW o \in Outcomes, Write(row, o), Honest'
    PROVE  /\ Honest /\ o = "written" /\ sequence' = sequence + 1
           /\ Longer(journal, row, journal') /\ Adds(row)
<1>1. faults \in Nat
  BY DEF JournalInv, JournalTyped, Premises, JournalAssumption
<1>2. o = "written"
  BY <1>1 DEF Write, Honest
<1>3. journal' = Append(journal, row) /\ sequence' = sequence + 1 /\ faults' = faults
  BY <1>2 DEF Write
<1>4. Longer(journal, row, journal')
  BY <1>3, AppendedRow DEF JournalInv, JournalTyped
<1>5. Rows(journal, {"torn"}) = {}
  BY <1>4, KindGrown DEF GrownBy, Honest
<1> QED BY <1>2, <1>3, <1>4, <1>5 DEF Honest, Adds

\* Nor does a step that writes nothing make it honest.
LEMMA HonestSame ==
    ASSUME UNCHANGED <<journal, faults>>, Honest'
    PROVE  Honest /\ Adds(NoRow)
  BY DEF Honest, Adds

\* At most one oracle has a batch or is constructed.
LEMMA SoleBatch ==
    ASSUME JournalInv, NEW r \in Roles, pc[r] \in InBatch \cup {"making"}, NEW s \in Roles, s # r
    PROVE  pc[s] \notin InBatch \cup {"making"}
  BY OracleFacts DEF OracleState

\* Whoever does not evaluate has no attempt.
LEMMA NoAttempt ==
    ASSUME JournalInv, NEW r \in Roles, ~Working(r), NEW w \in Threads
    PROVE  ~Attempting(r, w) /\ thread[r][w].at = "idle"
<1>1. thread[r][w].at = "idle"
  BY BusyThread
<1> QED BY <1>1 DEF Attempting

\* The types of the rows of a journal.
LEMMA RowType ==
    ASSUME NEW j \in Seq(JournalRows), NEW i \in DOMAIN j
    PROVE  j[i].batch \in Nat /\ j[i].index \in Int /\ j[i].attempt \in Int
<1>1. j[i] \in JournalRows
  OBVIOUS
<1> QED BY <1>1 DEF JournalRows

\* A row that fits leaves the adapter and its journal in agreement.
LEMMA RecordedStays ==
    ASSUME Recorded, JournalInv, NEW row, Adds(row), row # NoRow => Fits(journal, row),
           sequence' = IF row = NoRow THEN sequence ELSE sequence + 1,
           attempts' = IF row.kind = "oracle_attempt_started" THEN attempts + 1 ELSE attempts,
           row # NoRow => row.batch <= batches', batches' \in {batches, batches + 1},
           \A r \in Roles : batch'[r].id = batch[r].id \/ batch'[r].id <= batches'
    PROVE  Recorded'
<1>1. batches \in Nat /\ sequence \in Nat /\ \A r \in Roles : batch[r].id \in Nat
  BY TypedArrays, RoleState DEF JournalInv
<1>2. \A r \in Roles : batch'[r].id <= batches'
  BY <1>1 DEF Recorded
<1>3. CASE row = NoRow
  <2>1. journal' = journal /\ row.kind # "oracle_attempt_started"
    BY <1>3 DEF Adds, NoRow, Kinds
  <2>2. journal \in Seq(JournalRows)
    BY DEF JournalInv, JournalTyped
  <2>3. \A i \in DOMAIN journal : journal[i].batch \in Nat
    BY <2>2, RowType
  <2>4. \A i \in DOMAIN journal : journal[i].batch <= batches'
    BY <1>1, <2>3 DEF Recorded
  <2> QED BY <1>2, <1>3, <2>1, <2>4 DEF Recorded
<1>4. CASE row # NoRow
  <2>1. Longer(journal, row, journal')
    BY <1>4 DEF Adds
  <2>2. Valid(journal')
    BY <1>4, <2>1, ValidStays DEF Recorded
  <2>3. Len(journal') = sequence'
    BY <1>4, <2>1 DEF Longer, Recorded
  <2>4. attempts' = Cardinality(AttemptStarts(journal'))
    <3>1. GrownBy(AttemptStarts(journal), AttemptStarts(journal'), journal, row, journal',
                  row.kind = "oracle_attempt_started")
      BY <2>1, KindsGrown DEF AllGrown
    <3>2. CASE row.kind = "oracle_attempt_started"
      <4>1. AttemptStarts(journal') = AttemptStarts(journal) \cup {Len(journal')}
        BY <3>1, <3>2 DEF GrownBy
      <4>2. IsFiniteSet(AttemptStarts(journal)) /\ Len(journal') \notin AttemptStarts(journal)
        BY <2>1, OldRows
      <4>3. Cardinality(AttemptStarts(journal')) = Cardinality(AttemptStarts(journal)) + 1
        BY <4>1, <4>2, FS_AddElement
      <4> QED BY <3>2, <4>3 DEF Recorded
    <3>3. CASE row.kind # "oracle_attempt_started"
      <4>1. AttemptStarts(journal') = AttemptStarts(journal)
        BY <3>1, <3>3 DEF GrownBy
      <4> QED BY <3>3, <4>1 DEF Recorded
    <3> QED BY <3>2, <3>3
  <2>5. \A i \in DOMAIN journal' : journal'[i].batch <= batches'
    <3>1. journal \in Seq(JournalRows)
      BY DEF JournalInv, JournalTyped
    <3>2. \A i \in DOMAIN journal : journal[i].batch \in Nat
      BY <3>1, RowType
    <3>3. \A i \in DOMAIN journal : journal[i].batch <= batches'
      BY <1>1, <3>2 DEF Recorded
    <3>4. ASSUME NEW i \in DOMAIN journal' PROVE journal'[i].batch <= batches'
      <4>1. CASE i \in DOMAIN journal
        BY <2>1, <3>3, <4>1 DEF Longer
      <4>2. CASE i = Len(journal')
        BY <1>4, <2>1, <4>2 DEF Longer
      <4> QED BY <2>1, <4>1, <4>2 DEF Longer
    <3> QED BY <3>4
  <2> QED BY <1>2, <2>2, <2>3, <2>4, <2>5 DEF Recorded
<1> QED BY <1>3, <1>4

\* The same for a row of the last batch.
LEMMA RecordedInBatch ==
    ASSUME Recorded, JournalInv, NEW row, Adds(row), row # NoRow, Fits(journal, row), sequence' = sequence + 1,
           attempts' = IF row.kind = "oracle_attempt_started" THEN attempts + 1 ELSE attempts,
           row.batch = batches, batches' = batches, \A r \in Roles : batch'[r].id = batch[r].id
    PROVE  Recorded'
<1>1. batches <= batches
  BY TypedArrays
<1> QED BY <1>1, RecordedStays

\* No batch begins, and the one in progress goes on.
LEMMA OpenBatchesStay ==
    ASSUME OpenBatches, NEW row, Adds(row), row.kind # "oracle_batch_started", batches' = batches,
           (\E r \in Roles : pc[r] \in InBatch) => \E r \in Roles : pc'[r] \in InBatch
    PROVE  OpenBatches'
<1>1. AllAdding(row)
  BY RowsAdded
<1> SUFFICES ASSUME NEW s \in BatchStarts(journal')
             PROVE  \/ \E e \in BatchEnds(journal') : SameBatch(journal'[s], journal'[e])
                    \/ journal'[s].batch = batches /\ \E r \in Roles : pc'[r] \in InBatch
  BY DEF OpenBatches
<1>2. s \in BatchStarts(journal) /\ journal'[s] = journal[s]
  BY <1>1 DEF AllAdding, Adding
<1>3. CASE \E e \in BatchEnds(journal) : SameBatch(journal[s], journal[e])
  BY <1>1, <1>2, <1>3 DEF AllAdding, Adding
<1>4. CASE journal[s].batch = batches /\ \E r \in Roles : pc[r] \in InBatch
  BY <1>2, <1>4
<1> QED BY <1>2, <1>3, <1>4 DEF OpenBatches

\* No constructor of a calculator begins, and the one in progress goes on.
LEMMA OpenSlotsStay ==
    ASSUME OpenSlots, NEW row, Adds(row), row.kind # "calculator_constructor_started",
           \A r \in Roles : pc[r] = "constructing" =>
               batches' = batches /\ pc'[r] = "constructing" /\ batch'[r].slot = batch[r].slot
    PROVE  OpenSlots'
<1>1. AllAdding(row)
  BY RowsAdded
<1> SUFFICES ASSUME NEW s \in SlotStarts(journal')
             PROVE  \/ SlotEnded(journal', journal'[s].batch, journal'[s].index)
                    \/ /\ journal'[s].batch = batches'
                       /\ \E r \in Roles : pc'[r] = "constructing" /\ journal'[s].index = batch'[r].slot
  BY DEF OpenSlots
<1>2. s \in SlotStarts(journal) /\ journal'[s] = journal[s]
  BY <1>1 DEF AllAdding, Adding
<1>3. CASE SlotEnded(journal, journal[s].batch, journal[s].index)
  BY <1>1, <1>2, <1>3 DEF AllAdding, Adding, SlotEnded
<1>4. CASE /\ journal[s].batch = batches
           /\ \E r \in Roles : pc[r] = "constructing" /\ journal[s].index = batch[r].slot
  BY <1>2, <1>4
<1> QED BY <1>2, <1>3, <1>4 DEF OpenSlots

\* No oracle begins to be constructed, and the one in progress goes on.
LEMMA OpenOraclesStay ==
    ASSUME OpenOracles, NEW row, Adds(row), row.kind # "oracle_constructor_started",
           \A r \in Roles : pc[r] = "making" => pc'[r] = "making",
           \A r \in Roles : pc'[r] = "absent" => pc[r] = "absent"
    PROVE  OpenOracles'
<1>1. AllAdding(row)
  BY RowsAdded
<1>2. \A s \in OracleStarts(journal') : s \in OracleStarts(journal) /\ journal'[s] = journal[s]
  BY <1>1 DEF AllAdding, Adding
<1>3. \A r : OracleEnded(journal, r) => OracleEnded(journal', r)
  BY <1>1 DEF AllAdding, Adding, OracleEnded
<1>4. \A r : OracleStarted(journal', r) => OracleStarted(journal, r)
  BY <1>2 DEF OracleStarted
<1> QED BY <1>2, <1>3, <1>4 DEF OpenOracles

\* No attempt begins or ends.
LEMMA OpenAttemptsStay ==
    ASSUME OpenAttempts, NEW row, Adds(row), row.kind # "oracle_attempt_started",
           \A r \in Roles, w \in Threads :
               /\ Attempting(r, w)' <=> Attempting(r, w)
               /\ Attempting(r, w) => /\ batches' = batches /\ thread'[r][w].item = thread[r][w].item
                                      /\ thread'[r][w].attempt = thread[r][w].attempt
    PROVE  OpenAttempts'
<1>1. AllAdding(row)
  BY RowsAdded
<1>2. /\ \A s \in AttemptStarts(journal') : s \in AttemptStarts(journal) /\ journal'[s] = journal[s]
      /\ \A s \in AttemptStarts(journal) : s \in AttemptStarts(journal') /\ journal'[s] = journal[s]
      /\ \A e \in AttemptEnds(journal) : e \in AttemptEnds(journal') /\ journal'[e] = journal[e]
  BY <1>1 DEF AllAdding, Adding
<1>3. \A r \in Roles, w \in Threads, s \in AttemptStarts(journal) :
          Attempting(r, w) /\ Names(journal[s], r, batches, thread[r][w]) =>
              Attempting(r, w)' /\ Names(journal'[s], r, batches', thread'[r][w])
  BY <1>2 DEF Names
<1>4. ASSUME NEW s \in AttemptStarts(journal')
      PROVE  \/ \E e \in AttemptEnds(journal') : SameAttempt(journal'[s], journal'[e])
             \/ \E r \in Roles, w \in Threads :
                    Attempting(r, w)' /\ Names(journal'[s], r, batches', thread'[r][w])
  <2>1. CASE \E e \in AttemptEnds(journal) : SameAttempt(journal[s], journal[e])
    BY <1>2, <2>1
  <2>2. CASE \E r \in Roles, w \in Threads : Attempting(r, w) /\ Names(journal[s], r, batches, thread[r][w])
    BY <1>2, <1>3, <2>2
  <2> QED BY <1>2, <2>1, <2>2 DEF OpenAttempts
<1>5. ASSUME NEW r \in Roles, NEW w \in Threads, Attempting(r, w)'
      PROVE  \E s \in AttemptStarts(journal') : Names(journal'[s], r, batches', thread'[r][w])
  <2>1. PICK s \in AttemptStarts(journal) : Names(journal[s], r, batches, thread[r][w])
    BY <1>5 DEF OpenAttempts
  <2> QED BY <1>2, <1>3, <1>5, <2>1
<1> QED BY <1>4, <1>5 DEF OpenAttempts

\* The rows a worker thread writes.
ThreadKinds == {"none", "calculator_assigned", "oracle_attempt_started"} \cup AttemptEndKinds

\* What the journal says of a batch that is being evaluated stays true with rows of its threads.
LEMMA OnRecordStays ==
    ASSUME OnRecord, NEW row, Adds(row), row.kind \in ThreadKinds, UNCHANGED <<pc, batch, batches>>,
           \A r \in Roles : pc[r] \in InBatch => Working(r)
    PROVE  OnRecord'
<1>1. AllAdding(row)
  BY RowsAdded
<1> SUFFICES ASSUME NEW r \in Roles, pc[r] \in InBatch
             PROVE  BatchOnRecord(journal', r, batches, batch[r].size, batch[r].slot, pc[r])
  BY DEF OnRecord
<1>2. BatchOnRecord(journal, r, batches, batch[r].size, batch[r].slot, pc[r]) /\ pc[r] = "evaluating"
  BY DEF OnRecord, Working
<1>3. /\ row.kind # "oracle_batch_started" /\ row.kind \notin BatchEndKinds /\ row.kind # "all_calculators_ready"
      /\ row.kind # "calculator_constructor_started" /\ row.kind # "calculator_constructor_finished"
  BY DEF ThreadKinds, BatchEndKinds, AttemptEndKinds
<1>4. /\ \E s \in BatchStarts(journal') : journal'[s].batch = batches
      /\ \A s \in BatchStarts(journal') : journal'[s].batch = batches =>
            journal'[s].role = r /\ journal'[s].index = batch[r].size
      /\ \A e \in BatchEnds(journal') : journal'[e].batch # batches
      /\ \A s \in SlotStarts(journal') : journal'[s].batch = batches => journal'[s].index < batch[r].slot
  BY <1>1, <1>2, <1>3 DEF AllAdding, Adding, BatchOnRecord
<1>5. \A n : AllReady(journal, batches, n) => AllReady(journal', batches, n)
  BY <1>3, ReadyStays DEF Adds
<1> QED BY <1>2, <1>4, <1>5 DEF BatchOnRecord

\* Without a batch there is nothing to divide.
LEMMA NothingDivided == ASSUME \A r \in Roles : ~Working(r)' PROVE Divided'
  BY DEF Divided

-----------------------------------------------------------------------------
(* The steps of the thread that calls an oracle *)

\* A step in which no thread has an attempt before or after leaves none open.
LEMMA AttemptsClosed ==
    ASSUME OpenAttempts, JournalInv, NEW row, Adds(row), row.kind # "oracle_attempt_started",
           \A r \in Roles : ~Working(r), thread' = thread
    PROVE  OpenAttempts'
<1>1. \A r \in Roles, w \in Threads : ~Attempting(r, w) /\ ~Attempting(r, w)'
  BY NoAttempt DEF Attempting
<1> QED BY <1>1, OpenAttemptsStay

\* A new oracle begins.
LEMMA BeginOracleHonest ==
    ASSUME JournalInv, Premises, HonestInv, Honest', NEW r \in Roles, NEW o \in Outcomes, BeginOracle(r, o)
    PROVE  HonestParts'
<1>1. /\ pc[r] = "absent" /\ lifecycle = Nobody /\ Write(Plain("oracle_constructor_started", r), o)
      /\ UNCHANGED <<attempts, batch, thread, batches>>
  BY DEF BeginOracle, ledger, work
<1>2. PICK row : Fields(row, "oracle_constructor_started", r, batch[r].id, -1, -1) /\ Write(row, o)
  BY <1>1, PlainWritten DEF Kinds
<1>3. row \in JournalRows /\ row.kind = "oracle_constructor_started" /\ row.role = r /\ row.batch = batch[r].id
      /\ row.sequence = sequence /\ row.kind \in Kinds
  BY <1>2 DEF Fields, Kinds
<1>4. /\ Honest /\ o = "written" /\ sequence' = sequence + 1 /\ Adds(row)
  BY <1>2, <1>3, HonestWrite
<1>5. HonestParts
  BY <1>4 DEF HonestInv
<1>6. /\ pc' = [pc EXCEPT ![r] = "making"] /\ pc'[r] = "making" /\ \A s \in Roles : s # r => pc'[s] = pc[s]
  BY <1>1, <1>4, TypedArrays DEF BeginOracle
<1>7. Nobody \notin Roles
  BY DEF Premises, JournalAssumption
<1>8. \A s \in Roles : pc[s] \notin InBatch \cup {"making"}
  BY <1>1, <1>7, OracleFacts DEF OracleState
<1>9. \A s \in Roles : pc'[s] \notin InBatch /\ ~Working(s) /\ ~Working(s)'
  BY <1>6, <1>8 DEF InBatch, Working
<1>10. row.kind # "oracle_batch_started" /\ row.kind # "calculator_constructor_started"
       /\ row.kind # "oracle_attempt_started" /\ row # NoRow /\ row.kind \notin OracleEndKinds
  BY <1>3 DEF NoRow, OracleEndKinds, Kinds
<1>11. Fits(journal, row)
  <2>1. ~OracleStarted(journal, r) /\ Len(journal) = sequence
    BY <1>1, <1>5 DEF HonestParts, OpenOracles, Recorded
  <2> QED BY <1>3, <2>1 DEF Fits, OracleEndKinds, BatchEndKinds, SlotEndKinds, AttemptEndKinds
<1>12. Recorded'
  <2>1. batch[r].id <= batches
    BY <1>5 DEF HonestParts, Recorded
  <2> QED BY <1>1, <1>3, <1>4, <1>5, <1>10, <1>11, <2>1, RecordedStays DEF HonestParts
<1>13. OnRecord' /\ Divided'
  BY <1>9, NothingDivided DEF OnRecord
<1>14. OpenBatches' /\ OpenSlots' /\ OpenAttempts'
  <2>1. \A s \in Roles : pc[s] # "constructing" /\ pc[s] \notin InBatch
    BY <1>8 DEF InBatch
  <2> QED BY <1>1, <1>4, <1>5, <1>9, <1>10, <2>1, OpenBatchesStay, OpenSlotsStay, AttemptsClosed DEF HonestParts
<1>15. OpenOracles'
  <2>1. AllAdding(row)
    BY <1>4, RowsAdded
  <2>2. \A q : OracleEnded(journal, q) => OracleEnded(journal', q)
    BY <2>1 DEF AllAdding, Adding, OracleEnded
  <2>3. \A s \in OracleStarts(journal) : OracleEnded(journal, journal[s].role)
    BY <1>5, <1>8 DEF HonestParts, OpenOracles
  <2>4. \A s \in OracleStarts(journal') : OracleEnded(journal', journal'[s].role) \/ journal'[s].role = r
    BY <1>3, <2>1, <2>2, <2>3 DEF AllAdding, Adding
  <2>5. \A q \in Roles : pc'[q] = "absent" => ~OracleStarted(journal', q)
    <3> SUFFICES ASSUME NEW q \in Roles, pc'[q] = "absent" PROVE ~OracleStarted(journal', q)
      OBVIOUS
    <3>1. q # r /\ ~OracleStarted(journal, q)
      BY <1>5, <1>6 DEF HonestParts, OpenOracles
    <3> QED BY <1>3, <2>1, <3>1 DEF AllAdding, Adding, OracleStarted
  <2> QED BY <1>6, <2>4, <2>5 DEF OpenOracles
<1> QED BY <1>12, <1>13, <1>14, <1>15 DEF HonestParts

\* Its construction ends.
LEMMA EndOracleHonest ==
    ASSUME JournalInv, Premises, HonestInv, Honest', NEW r \in Roles, NEW ok \in BOOLEAN, NEW o \in Outcomes,
           EndOracle(r, ok, o)
    PROVE  HonestParts'
<1> DEFINE kind == IF ok THEN "oracle_constructor_finished" ELSE "oracle_constructor_exception"
<1>1. /\ pc[r] = "making" /\ Write(Plain(kind, r), o)
      /\ pc' = [pc EXCEPT ![r] = IF ok /\ o = "written" THEN "idle" ELSE "gone"]
      /\ UNCHANGED <<attempts, batch, thread, batches>>
  BY DEF EndOracle, ledger, work
<1>2. kind \in Kinds /\ kind \in OracleEndKinds
  BY DEF Kinds, OracleEndKinds
<1> HIDE DEF kind
<1>3. PICK row : Fields(row, kind, r, batch[r].id, -1, -1) /\ Write(row, o)
  BY <1>1, <1>2, PlainWritten
<1>4. row \in JournalRows /\ row.kind \in OracleEndKinds /\ row.role = r /\ row.batch = batch[r].id
      /\ row.sequence = sequence /\ row.kind \in Kinds
  BY <1>2, <1>3 DEF Fields
<1>5. /\ Honest /\ sequence' = sequence + 1 /\ Adds(row)
  BY <1>3, <1>4, HonestWrite
<1>6. HonestParts
  BY <1>5 DEF HonestInv
<1>7. /\ pc'[r] \in {"idle", "gone"} /\ \A s \in Roles : s # r => pc'[s] = pc[s]
  BY <1>1, TypedArrays
<1>8. \A s \in Roles : s # r => pc[s] \notin InBatch \cup {"making"}
  BY <1>1, SoleBatch
<1>9. \A s \in Roles : pc[s] \notin InBatch /\ pc'[s] \notin InBatch /\ ~Working(s) /\ ~Working(s)'
  BY <1>1, <1>7, <1>8 DEF InBatch, Working
<1>10. row.kind # "oracle_batch_started" /\ row.kind # "calculator_constructor_started"
       /\ row.kind # "oracle_attempt_started" /\ row # NoRow /\ row.kind # "oracle_constructor_started"
  BY <1>4 DEF NoRow, OracleEndKinds
<1>11. Fits(journal, row)
  <2>1. OracleStarted(journal, r) /\ ~OracleEnded(journal, r)
    BY <1>1 DEF JournalInv, ConstructorRows
  <2>2. Len(journal) = sequence
    BY <1>6 DEF HonestParts, Recorded
  <2> QED BY <1>4, <2>1, <2>2 DEF Fits, OracleEndKinds, BatchEndKinds, SlotEndKinds, AttemptEndKinds
<1>12. Recorded'
  <2>1. batch[r].id <= batches
    BY <1>6 DEF HonestParts, Recorded
  <2> QED BY <1>1, <1>4, <1>5, <1>6, <1>10, <1>11, <2>1, RecordedStays DEF HonestParts
<1>13. OnRecord' /\ Divided'
  BY <1>9, NothingDivided DEF OnRecord
<1>14. OpenBatches' /\ OpenSlots' /\ OpenAttempts'
  <2>1. \A s \in Roles : pc[s] # "constructing"
    BY <1>9 DEF InBatch
  <2> QED BY <1>1, <1>5, <1>6, <1>9, <1>10, <2>1, OpenBatchesStay, OpenSlotsStay, AttemptsClosed DEF HonestParts
<1>15. OpenOracles'
  <2>1. AllAdding(row)
    BY <1>5, RowsAdded
  <2>2. \A s \in OracleStarts(journal') : s \in OracleStarts(journal) /\ journal'[s] = journal[s]
    BY <1>10, <2>1 DEF AllAdding, Adding
  <2>3. \A q : OracleEnded(journal, q) => OracleEnded(journal', q)
    BY <2>1 DEF AllAdding, Adding, OracleEnded
  <2>4. OracleEnded(journal', r)
    BY <1>4, <2>1 DEF AllAdding, Adding, OracleEnded
  <2>5. \A s \in OracleStarts(journal') : OracleEnded(journal', journal'[s].role)
    BY <1>6, <1>8, <2>2, <2>3, <2>4 DEF HonestParts, OpenOracles
  <2>6. \A q \in Roles : pc'[q] = "absent" => pc[q] = "absent"
    BY <1>7
  <2>7. \A q : OracleStarted(journal', q) => OracleStarted(journal, q)
    BY <2>2 DEF OracleStarted
  <2> QED BY <1>6, <2>5, <2>6, <2>7 DEF HonestParts, OpenOracles
<1> QED BY <1>12, <1>13, <1>14, <1>15 DEF HonestParts

\* A new batch: its number is new to the journal.
LEMMA BeginBatchHonest ==
    ASSUME JournalInv, Premises, HonestInv, Honest', NEW r \in Roles, NEW size, NEW o \in Outcomes,
           BeginBatch(r, size, o)
    PROVE  HonestParts'
<1>1. /\ pc[r] = "idle" /\ lifecycle = Nobody /\ batches < MaxBatches /\ <<r, size>> \in Work[batches + 1]
      /\ batches' = batches + 1
      /\ Write([Row("oracle_batch_started", r, size, -1, "") EXCEPT !.batch = batches + 1], o)
      /\ o = "written" => /\ pc' = [pc EXCEPT ![r] = "identity"]
                          /\ batch' = [batch EXCEPT ![r] = [id |-> batches + 1, size |-> size, slot |-> 0]]
      /\ UNCHANGED <<attempts, thread>>
  BY DEF BeginBatch, LockFree, ledger, work
<1>2. JournalTyped /\ batches \in Nat /\ Nobody \notin Roles
  BY RoleState DEF JournalInv, Premises, JournalAssumption
<1>3. size \in Nat \ {0} /\ batches + 1 \in Nat
  <2>1. \A q, n : <<q, n>> \in Work[batches + 1] => q \in Roles /\ n \in Nat \ {0}
    BY <1>1, <1>2, WorkFacts
  <2>2. size \in Nat \ {0}
    BY <1>1, <2>1
  <2>3. batches + 1 \in Nat
    BY <1>2
  <2> QED BY <2>2, <2>3
<1>4. PICK row : Fields(row, "oracle_batch_started", r, batches + 1, size, -1) /\ Write(row, o)
  <2>1. PICK m \in Int : m = -1
    OBVIOUS
  <2>2. "oracle_batch_started" \in Kinds /\ size \in Int /\ "" \in {""} \cup Stages
    BY <1>3 DEF Kinds
  <2>3. Fields([Row("oracle_batch_started", r, size, m, "") EXCEPT !.batch = batches + 1],
               "oracle_batch_started", r, batches + 1, size, m)
    BY <1>2, <1>3, <2>2, RowOfBatch
  <2> QED BY <1>1, <2>1, <2>3
<1>5. row \in JournalRows /\ row.kind = "oracle_batch_started" /\ row.role = r /\ row.batch = batches + 1
      /\ row.index = size /\ row.sequence = sequence /\ row.kind \in Kinds
  BY <1>4 DEF Fields, Kinds
<1>6. /\ Honest /\ o = "written" /\ sequence' = sequence + 1 /\ Adds(row)
  BY <1>4, <1>5, HonestWrite
<1>7. HonestParts
  BY <1>6 DEF HonestInv
<1>8. \A s \in Roles : pc[s] \notin InBatch \cup {"making"}
  BY <1>1, <1>2, OracleFacts DEF OracleState
<1>9. /\ pc'[r] = "identity" /\ \A s \in Roles : s # r => pc'[s] = pc[s] /\ batch'[s] = batch[s]
      /\ batch'[r].id = batches + 1 /\ batch'[r].size = size /\ batch'[r].slot = 0
  <2>1. batch'[r] = [id |-> batches + 1, size |-> size, slot |-> 0]
    BY <1>1, <1>6, TypedArrays
  <2>2. batch'[r].id = batches + 1 /\ batch'[r].size = size /\ batch'[r].slot = 0
    BY <2>1
  <2>3. pc'[r] = "identity" /\ \A s \in Roles : s # r => pc'[s] = pc[s] /\ batch'[s] = batch[s]
    BY <1>1, <1>6, TypedArrays
  <2> QED BY <2>2, <2>3
<1>10. \A s \in Roles : ~Working(s) /\ ~Working(s)' /\ pc[s] # "constructing" /\ pc[s] # "making"
  BY <1>8, <1>9 DEF InBatch, Working
<1>11. row # NoRow /\ row.kind # "calculator_constructor_started" /\ row.kind # "oracle_constructor_started"
       /\ row.kind # "oracle_attempt_started" /\ row.kind # "calculator_constructor_finished"
       /\ row.kind \notin BatchEndKinds /\ row.kind # "all_calculators_ready"
  BY <1>5 DEF NoRow, BatchEndKinds
<1>12. \A i \in DOMAIN journal : journal[i].batch # batches + 1
  <2> TAKE i \in DOMAIN journal
  <2>1. journal[i].batch \in Nat /\ journal[i].batch <= batches
    BY <1>2, <1>7, RowType DEF JournalTyped, HonestParts, Recorded
  <2> QED BY <1>2, <2>1
<1>13. Fits(journal, row)
  <2>1. Len(journal) = sequence
    BY <1>7 DEF HonestParts, Recorded
  <2> QED BY <1>5, <1>12, <2>1 DEF Fits, OracleEndKinds, BatchEndKinds, SlotEndKinds, AttemptEndKinds
<1>14. Recorded'
  <2>0. batches + 1 <= batches + 1
    BY <1>2
  <2>1. \A s \in Roles : batch'[s].id = batch[s].id \/ batch'[s].id <= batches'
    BY <1>1, <1>9, <2>0
  <2>2. row.batch <= batches'
    BY <1>1, <1>5, <2>0
  <2> QED BY <1>1, <1>6, <1>7, <1>11, <1>13, <2>1, <2>2, RecordedStays DEF HonestParts
<1>15. AllAdding(row)
  BY <1>6, RowsAdded
<1>16. OnRecord'
  <2>1. Longer(journal, row, journal')
    BY <1>6, <1>11 DEF Adds
  <2>2. BatchAttempts(journal, batches + 1) = {} /\ Constructed(journal, batches + 1) = {}
    BY <1>12 DEF BatchAttempts, Constructed, AttemptStarts, Rows
  <2>3. BatchAttempts(journal', batches + 1) = {} /\ Constructed(journal', batches + 1) = {}
    BY <1>11, <2>1, <2>2, AttemptsOfBatch, ConstructedOfBatch
  <2>4. Cardinality(Constructed(journal', batches + 1)) = 0
    BY <2>3, FS_EmptySet
  <2>5. /\ \A s \in BatchStarts(journal) : journal[s].batch # batches + 1
        /\ \A s \in BatchEnds(journal) : journal[s].batch # batches + 1
        /\ \A s \in ReadyMarks(journal) : journal[s].batch # batches + 1
        /\ \A s \in SlotStarts(journal) : journal[s].batch # batches + 1
    BY <1>12 DEF BatchStarts, BatchEnds, ReadyMarks, SlotStarts, Rows
  <2>6. BatchOnRecord(journal', r, batches + 1, size, 0, "identity")
    <3>1. /\ \E s \in BatchStarts(journal') : journal'[s].batch = batches + 1
          /\ \A s \in BatchStarts(journal') : journal'[s].batch = batches + 1 =>
                 journal'[s].role = r /\ journal'[s].index = size
      BY <1>5, <1>15, <2>5 DEF AllAdding, Adding
    <3>2. /\ \A e \in BatchEnds(journal') : journal'[e].batch # batches + 1
          /\ \A m \in ReadyMarks(journal') : journal'[m].batch # batches + 1
          /\ \A s \in SlotStarts(journal') : journal'[s].batch # batches + 1
      BY <1>11, <1>15, <2>5 DEF AllAdding, Adding
    <3> QED BY <2>3, <2>4, <3>1, <3>2 DEF BatchOnRecord
  <2>7. \A s \in Roles : s # r => pc'[s] \notin InBatch
    BY <1>8, <1>9
  <2> QED BY <1>1, <1>9, <2>6, <2>7 DEF OnRecord
<1>17. Divided'
  BY <1>10, NothingDivided
<1>18. OpenSlots' /\ OpenOracles' /\ OpenAttempts'
  <2>1. \A s \in Roles : pc'[s] = "absent" => pc[s] = "absent"
    BY <1>9
  <2> QED BY <1>1, <1>6, <1>7, <1>10, <1>11, <2>1, OpenSlotsStay, OpenOraclesStay, AttemptsClosed DEF HonestParts
<1>19. OpenBatches'
  <2>1. \A s \in BatchStarts(journal) : \E e \in BatchEnds(journal) : SameBatch(journal[s], journal[e])
    BY <1>7, <1>8 DEF HonestParts, OpenBatches
  <2>2. pc'[r] \in InBatch
    BY <1>9 DEF InBatch
  <2>3. ASSUME NEW s \in BatchStarts(journal')
        PROVE  \/ \E e \in BatchEnds(journal') : SameBatch(journal'[s], journal'[e])
               \/ journal'[s].batch = batches + 1
    <3>1. CASE s \in BatchStarts(journal) /\ journal'[s] = journal[s]
      BY <1>15, <2>1, <3>1 DEF AllAdding, Adding
    <3>2. CASE journal'[s] = row
      BY <1>5, <3>2
    <3> QED BY <1>15, <3>1, <3>2 DEF AllAdding, Adding
  <2> QED BY <1>1, <2>2, <2>3 DEF OpenBatches
<1> QED BY <1>14, <1>16, <1>17, <1>18, <1>19 DEF HonestParts

\* A step between the beginning of a batch and its evaluation leaves alone what is
\* not the batch's own: it starts no batch and no attempt.
LEMMA PreparationHonest ==
    ASSUME JournalInv, HonestParts, NEW r \in Roles, pc[r] \in InBatch, ~Working(r), pc'[r] \in InBatch, ~Working(r)',
           NEW row, Adds(row), row.kind \notin {"oracle_batch_started", "oracle_attempt_started",
           "oracle_constructor_started"}, UNCHANGED <<thread, batches>>,
           \A s \in Roles : s # r => pc'[s] = pc[s],
           BatchOnRecord(journal', r, batches, batch'[r].size, batch'[r].slot, pc'[r])
    PROVE  OnRecord' /\ OpenBatches' /\ OpenOracles' /\ OpenAttempts' /\ Divided'
<1>1. \A s \in Roles : s # r => pc[s] \notin InBatch \cup {"making"}
  BY SoleBatch
<1>2. \A s \in Roles : ~Working(s) /\ ~Working(s)' /\ (s # r => pc'[s] \notin InBatch) /\ pc[s] # "making"
  BY <1>1 DEF InBatch, Working
<1>3. OnRecord'
  BY <1>2 DEF OnRecord
<1>4. OpenBatches'
  BY OpenBatchesStay DEF HonestParts
<1>5. OpenOracles'
  <2>1. \A s \in Roles : pc'[s] = "absent" => pc[s] = "absent"
    BY DEF InBatch
  <2> QED BY <1>2, <2>1, OpenOraclesStay DEF HonestParts
<1>6. OpenAttempts'
  BY <1>2, AttemptsClosed DEF HonestParts
<1> QED BY <1>2, <1>3, <1>4, <1>5, <1>6, NothingDivided

\* What the journal says of the batch of r.
LEMMA BatchRecorded ==
    ASSUME HonestParts, NEW r \in Roles, pc[r] \in InBatch
    PROVE  /\ BatchOnRecord(journal, r, batches, batch[r].size, batch[r].slot, pc[r])
           /\ BatchStarted(journal, batches) /\ Len(journal) = sequence /\ batch[r].id <= batches
  BY DEF HonestParts, OnRecord, Recorded, BatchOnRecord, BatchStarted

\* An input whose identity cannot be computed.
LEMMA IdentityRaisesHonest ==
    ASSUME JournalInv, HonestInv, Honest', NEW r \in Roles, IdentityRaises(r)
    PROVE  HonestParts'
<1>1. /\ pc[r] = "identity" /\ pc' = [pc EXCEPT ![r] = "raising-identity"]
      /\ UNCHANGED <<journal, sequence, attempts, batch, thread, batches, faults>>
  BY DEF IdentityRaises, ledger, work
<1>2. HonestParts /\ Adds(NoRow)
  BY <1>1, HonestSame DEF HonestInv
<1>3. pc'[r] = "raising-identity" /\ \A s \in Roles : s # r => pc'[s] = pc[s]
  BY <1>1, TypedArrays
<1>4. pc[r] \in InBatch /\ pc'[r] \in InBatch /\ ~Working(r) /\ ~Working(r)'
  BY <1>1, <1>3 DEF InBatch, Working
<1>5. NoRow.kind = "none"
  BY DEF NoRow
<1>6. BatchOnRecord(journal', r, batches, batch'[r].size, batch'[r].slot, pc'[r])
  BY <1>1, <1>2, <1>3, <1>4, BatchRecorded DEF BatchOnRecord
<1>7. OnRecord' /\ OpenBatches' /\ OpenOracles' /\ OpenAttempts' /\ Divided'
  BY <1>1, <1>2, <1>3, <1>4, <1>5, <1>6, PreparationHonest
<1>8. Recorded' /\ OpenSlots'
  <2>1. Recorded'
    BY <1>1, <1>2 DEF HonestParts, Recorded
  <2>2. \A s \in Roles : pc[s] = "constructing" => pc'[s] = "constructing"
    BY <1>1, <1>3
  <2> QED BY <1>1, <1>2, <1>5, <2>1, <2>2, OpenSlotsStay DEF HonestParts
<1> QED BY <1>7, <1>8 DEF HonestParts

\* A calculator begins to be constructed in a slot that has none.
LEMMA BeginCalculatorHonest ==
    ASSUME JournalInv, Premises, HonestInv, Honest', NEW r \in Roles, NEW o \in Outcomes, BeginCalculator(r, o)
    PROVE  HonestParts'
<1>1. /\ pc[r] \in {"identity", "preparing"}
      /\ Write(Row("calculator_constructor_started", r, batch[r].slot, -1, ""), o)
      /\ pc' = [pc EXCEPT ![r] = IF o = "written" THEN "constructing" ELSE "raising-construction"]
      /\ UNCHANGED <<attempts, batch, thread, batches>>
  BY DEF BeginCalculator, ledger, work
<1>2. pc[r] \in InBatch /\ ~Working(r) /\ batch[r].id = batches /\ batch[r].slot \in Nat
  <2>1. pc[r] \in InBatch /\ ~Working(r)
    BY <1>1 DEF InBatch, Working
  <2> QED BY <2>1, OracleFacts, RoleState DEF OracleState, JournalInv
<1>3. PICK row : Fields(row, "calculator_constructor_started", r, batches, batch[r].slot, -1) /\ Write(row, o)
  <2>1. PICK m \in Int : m = -1
    OBVIOUS
  <2>2. batch[r].slot \in Int /\ "calculator_constructor_started" \in Kinds /\ "" \in {""} \cup Stages
    BY <1>2 DEF Kinds
  <2> QED BY <1>1, <1>2, <2>1, <2>2, RowWritten
<1>4. row \in JournalRows /\ row.kind = "calculator_constructor_started" /\ row.batch = batches
      /\ row.index = batch[r].slot /\ row.sequence = sequence /\ row.kind \in Kinds
  BY <1>3 DEF Fields, Kinds
<1>5. /\ Honest /\ o = "written" /\ sequence' = sequence + 1 /\ Adds(row)
  BY <1>3, <1>4, HonestWrite
<1>6. HonestParts
  BY <1>5 DEF HonestInv
<1>7. pc'[r] = "constructing" /\ \A s \in Roles : s # r => pc'[s] = pc[s]
  BY <1>1, <1>5, TypedArrays
<1>8. pc'[r] \in InBatch /\ ~Working(r)'
  BY <1>7 DEF InBatch, Working
<1>9. /\ BatchOnRecord(journal, r, batches, batch[r].size, batch[r].slot, pc[r])
      /\ BatchStarted(journal, batches) /\ Len(journal) = sequence
  BY <1>2, <1>6, BatchRecorded
<1>10. \A s \in SlotStarts(journal) : journal[s].batch = batches => journal[s].index < batch[r].slot
  BY <1>1, <1>9 DEF BatchOnRecord
<1>11. /\ row.kind \notin {"oracle_batch_started", "oracle_attempt_started", "oracle_constructor_started"}
       /\ row # NoRow /\ row.kind # "calculator_constructor_finished" /\ row.kind \notin BatchEndKinds
       /\ row.kind # "all_calculators_ready" /\ row.kind \notin SlotEndKinds
  BY <1>4 DEF NoRow, BatchEndKinds, SlotEndKinds
<1>12. Fits(journal, row)
  <2>1. ~SlotStarted(journal, batches, batch[r].slot)
    BY <1>2, <1>10 DEF SlotStarted
  <2> QED BY <1>4, <1>9, <2>1 DEF Fits, OracleEndKinds, BatchEndKinds, SlotEndKinds, AttemptEndKinds
<1>13. Recorded'
  BY <1>1, <1>4, <1>5, <1>6, <1>11, <1>12, RecordedInBatch DEF HonestParts
<1>14. AllAdding(row) /\ Longer(journal, row, journal')
  BY <1>5, <1>11, RowsAdded DEF Adds
<1>15. BatchOnRecord(journal', r, batches, batch'[r].size, batch'[r].slot, pc'[r])
  <2>1. /\ BatchAttempts(journal', batches) = BatchAttempts(journal, batches)
        /\ Constructed(journal', batches) = Constructed(journal, batches)
    BY <1>11, <1>14, AttemptsOfBatch, ConstructedOfBatch
  <2>2. /\ \E s \in BatchStarts(journal') : journal'[s].batch = batches
        /\ \A s \in BatchStarts(journal') : journal'[s].batch = batches =>
               journal'[s].role = r /\ journal'[s].index = batch[r].size
        /\ \A e \in BatchEnds(journal') : journal'[e].batch # batches
        /\ \A m \in ReadyMarks(journal') : journal'[m].batch # batches
    <3>1. /\ \A s \in BatchStarts(journal') : s \in BatchStarts(journal) /\ journal'[s] = journal[s]
          /\ \A s \in BatchStarts(journal) : s \in BatchStarts(journal') /\ journal'[s] = journal[s]
      BY <1>11, <1>14 DEF AllAdding, Adding
    <3>2. \A e \in BatchEnds(journal') : e \in BatchEnds(journal) /\ journal'[e] = journal[e]
      BY <1>11, <1>14 DEF AllAdding, Adding
    <3>3. \A m \in ReadyMarks(journal') : m \in ReadyMarks(journal) /\ journal'[m] = journal[m]
      BY <1>11, <1>14 DEF AllAdding, Adding
    <3>4. /\ \E s \in BatchStarts(journal) : journal[s].batch = batches
          /\ \A s \in BatchStarts(journal) : journal[s].batch = batches =>
                 journal[s].role = r /\ journal[s].index = batch[r].size
          /\ \A e \in BatchEnds(journal) : journal[e].batch # batches
          /\ \A m \in ReadyMarks(journal) : journal[m].batch # batches
      BY <1>1, <1>9 DEF BatchOnRecord
    <3> QED BY <3>1, <3>2, <3>3, <3>4
  <2>3. \A s \in SlotStarts(journal') : journal'[s].batch = batches =>
            journal'[s].index < batch[r].slot \/ journal'[s].index = batch[r].slot
    BY <1>4, <1>10, <1>14 DEF AllAdding, Adding
  <2>4. BatchAttempts(journal, batches) = {} /\ Cardinality(Constructed(journal, batches)) = batch[r].slot
    BY <1>1, <1>9 DEF BatchOnRecord
  <2> QED BY <1>1, <1>7, <2>1, <2>2, <2>3, <2>4 DEF BatchOnRecord
<1>16. OnRecord' /\ OpenBatches' /\ OpenOracles' /\ OpenAttempts' /\ Divided'
  BY <1>1, <1>2, <1>5, <1>6, <1>7, <1>8, <1>11, <1>15, PreparationHonest
<1>17. OpenSlots'
  <2>1. \A s \in Roles : pc[s] # "constructing"
    BY <1>1, <1>2, SoleBatch DEF InBatch
  <2>2. \A s \in SlotStarts(journal) : SlotEnded(journal, journal[s].batch, journal[s].index)
    BY <1>6, <2>1 DEF HonestParts, OpenSlots
  <2>3. \A b, i : SlotEnded(journal, b, i) => SlotEnded(journal', b, i)
    BY <1>14 DEF AllAdding, Adding, SlotEnded
  <2>4. \A s \in SlotStarts(journal') : SlotEnded(journal', journal'[s].batch, journal'[s].index) \/ journal'[s] = row
    BY <1>14, <2>2, <2>3 DEF AllAdding, Adding
  <2> QED BY <1>1, <1>4, <1>7, <2>4 DEF OpenSlots
<1> QED BY <1>13, <1>16, <1>17 DEF HonestParts

\* Its construction ends: one more calculator, or none.
LEMMA EndCalculatorHonest ==
    ASSUME JournalInv, Premises, HonestInv, Honest', NEW r \in Roles, NEW ok \in BOOLEAN, NEW o \in Outcomes,
           EndCalculator(r, ok, o)
    PROVE  HonestParts'
<1> DEFINE kind == IF ok THEN "calculator_constructor_finished" ELSE "calculator_constructor_exception"
           slot == batch[r].slot
<1>1. /\ pc[r] = "constructing"
      /\ Write(Row(kind, r, slot, -1, ""), o)
      /\ pc' = [pc EXCEPT ![r] = IF ok /\ o = "written" THEN "preparing" ELSE "raising-construction"]
      /\ batch' = [batch EXCEPT ![r].slot = slot + 1]
      /\ UNCHANGED <<attempts, thread, batches>>
  BY DEF EndCalculator, ledger, work
<1>2. kind \in Kinds /\ kind \in SlotEndKinds /\ (ok <=> kind = "calculator_constructor_finished")
  BY DEF Kinds, SlotEndKinds
<1>3. slot \in Nat /\ batch[r] \in [id : Nat, size : Nat, slot : Nat]
  BY RoleState DEF JournalInv
<1> HIDE DEF kind
<1>4. pc[r] \in InBatch /\ ~Working(r) /\ batch[r].id = batches
  BY <1>1, OracleFacts DEF OracleState, InBatch, Working
<1>5. PICK row : Fields(row, kind, r, batches, slot, -1) /\ Write(row, o)
  <2>1. PICK m \in Int : m = -1
    OBVIOUS
  <2>2. slot \in Int /\ "" \in {""} \cup Stages
    BY <1>3
  <2> QED BY <1>1, <1>2, <1>4, <2>1, <2>2, RowWritten
<1>6. row \in JournalRows /\ row.kind = kind /\ row.batch = batches /\ row.kind \in SlotEndKinds
      /\ row.index = slot /\ row.sequence = sequence /\ row.kind \in Kinds
  BY <1>2, <1>5 DEF Fields
<1>7. /\ Honest /\ o = "written" /\ sequence' = sequence + 1 /\ Adds(row)
  BY <1>5, <1>6, HonestWrite
<1>8. HonestParts
  BY <1>7 DEF HonestInv
<1>9. /\ pc'[r] = IF ok THEN "preparing" ELSE "raising-construction"
      /\ \A s \in Roles : s # r => pc'[s] = pc[s]
  BY <1>1, <1>7, TypedArrays
<1>10. /\ batch'[r].slot = slot + 1 /\ batch'[r].id = batch[r].id /\ batch'[r].size = batch[r].size
       /\ \A s \in Roles : s # r => batch'[s] = batch[s]
  <2>1. batch \in [Roles -> [id : Nat, size : Nat, slot : Nat]] /\ slot + 1 \in Nat
    BY <1>3, TypedArrays
  <2>2. /\ batch'[r] = [batch[r] EXCEPT !.slot = slot + 1]
        /\ \A s \in Roles : s # r => batch'[s] = batch[s]
    BY <1>1, <2>1
  <2> QED BY <1>3, <2>2
<1>11. pc'[r] \in InBatch /\ ~Working(r)'
  BY <1>9 DEF InBatch, Working
<1>12. /\ BatchOnRecord(journal, r, batches, batch[r].size, slot, "constructing")
       /\ BatchStarted(journal, batches) /\ Len(journal) = sequence
  BY <1>1, <1>4, <1>8, BatchRecorded
<1>13. /\ row.kind \notin {"oracle_batch_started", "oracle_attempt_started", "oracle_constructor_started"}
       /\ row # NoRow /\ row.kind \notin BatchEndKinds /\ row.kind # "calculator_constructor_started"
       /\ row.kind # "all_calculators_ready"
  BY <1>6 DEF NoRow, BatchEndKinds, SlotEndKinds
<1>14. Fits(journal, row)
  <2>1. SlotStarted(journal, batches, slot)
    BY <1>1 DEF JournalInv, ConstructorRows
  <2>2. SlotEnded(journal, batches, slot) => slot < slot
    BY <1>4 DEF JournalInv, ConstructorRows
  <2>3. ~SlotEnded(journal, batches, slot)
    BY <1>3, <2>2
  <2>4. BatchAttempts(journal, batches) = {}
    BY <1>12 DEF BatchOnRecord
  <2> QED BY <1>6, <1>12, <2>1, <2>3, <2>4 DEF Fits, OracleEndKinds, BatchEndKinds, SlotEndKinds, AttemptEndKinds
<1>15. Recorded'
  <2>1. \A s \in Roles : batch'[s].id = batch[s].id
    BY <1>10
  <2> QED BY <1>1, <1>6, <1>7, <1>8, <1>13, <1>14, <2>1, RecordedInBatch DEF HonestParts
<1>16. AllAdding(row) /\ Longer(journal, row, journal')
  BY <1>7, <1>13, RowsAdded DEF Adds
<1>17. BatchOnRecord(journal', r, batches, batch'[r].size, batch'[r].slot, pc'[r])
  <2>1. BatchAttempts(journal', batches) = {}
    BY <1>12, <1>13, <1>16, AttemptsOfBatch DEF BatchOnRecord
  <2>2. ok => Cardinality(Constructed(journal', batches)) = slot + 1
    <3> SUFFICES ASSUME ok PROVE Cardinality(Constructed(journal', batches)) = slot + 1
      OBVIOUS
    <3>1. Constructed(journal', batches) = Constructed(journal, batches) \cup {Len(journal')}
      BY <1>2, <1>6, <1>16, ConstructedOfBatch
    <3>2. IsFiniteSet(Constructed(journal, batches)) /\ Len(journal') \notin Constructed(journal, batches)
      BY <1>16, OldRows
    <3>3. Cardinality(Constructed(journal, batches)) = slot
      BY <1>12 DEF BatchOnRecord
    <3> QED BY <3>1, <3>2, <3>3, FS_AddElement
  <2>3. /\ \E s \in BatchStarts(journal') : journal'[s].batch = batches
        /\ \A s \in BatchStarts(journal') : journal'[s].batch = batches =>
               journal'[s].role = r /\ journal'[s].index = batch[r].size
        /\ \A e \in BatchEnds(journal') : journal'[e].batch # batches
        /\ \A m \in ReadyMarks(journal') : journal'[m].batch # batches
    BY <1>12, <1>13, <1>16 DEF AllAdding, Adding, BatchOnRecord
  <2>4. \A s \in SlotStarts(journal') : journal'[s].batch = batches => journal'[s].index < slot + 1
    <3>1. ASSUME NEW s \in SlotStarts(journal'), journal'[s].batch = batches PROVE journal'[s].index < slot + 1
      <4>1. s \in SlotStarts(journal) /\ journal'[s] = journal[s]
        BY <1>13, <1>16 DEF AllAdding, Adding
      <4>2. journal[s].index < slot \/ journal[s].index = slot
        BY <1>12, <3>1, <4>1 DEF BatchOnRecord
      <4>3. s \in DOMAIN journal /\ journal \in Seq(JournalRows)
        BY <4>1 DEF SlotStarts, Rows, JournalInv, JournalTyped
      <4>4. journal[s].index \in Int
        BY <4>3, RowType
      <4> QED BY <1>3, <4>1, <4>2, <4>4
    <3> QED BY <3>1
  <2> QED BY <1>9, <1>10, <2>1, <2>2, <2>3, <2>4 DEF BatchOnRecord
<1>18. OnRecord' /\ OpenBatches' /\ OpenOracles' /\ OpenAttempts' /\ Divided'
  BY <1>1, <1>4, <1>7, <1>8, <1>9, <1>11, <1>13, <1>17, PreparationHonest
<1>19. OpenSlots'
  <2>1. \A s \in Roles : pc[s] = "constructing" => s = r
    BY <1>4, SoleBatch DEF InBatch
  <2>2. \A b, i : SlotEnded(journal, b, i) => SlotEnded(journal', b, i)
    BY <1>16 DEF AllAdding, Adding, SlotEnded
  <2>3. SlotEnded(journal', batches, slot)
    BY <1>6, <1>16 DEF AllAdding, Adding, SlotEnded
  <2>4. \A s \in SlotStarts(journal') : s \in SlotStarts(journal) /\ journal'[s] = journal[s]
    BY <1>13, <1>16 DEF AllAdding, Adding
  <2>5. \A s \in SlotStarts(journal) : SlotEnded(journal', journal[s].batch, journal[s].index)
    BY <1>8, <2>1, <2>2, <2>3 DEF HonestParts, OpenSlots
  <2> QED BY <2>4, <2>5 DEF OpenSlots
<1> QED BY <1>15, <1>18, <1>19 DEF HonestParts

\* Multiplying by a natural number keeps the order.
LEMMA TimesGrows == ASSUME NEW a \in Int, NEW b \in Int, NEW s \in Nat, a <= b PROVE a * s <= b * s
<1>1. PICK d \in Nat : d = b - a
  OBVIOUS
<1>2. d * s \in Nat
  OBVIOUS
<1>3. b * s = a * s + d * s
  <2>1. b = a + d
    BY <1>1
  <2> QED BY <2>1
<1>4. a * s \in Int
  OBVIOUS
<1> QED BY <1>2, <1>3, <1>4

\* What dividing up gives is just enough.
LEMMA DividedUp ==
    ASSUME NEW a \in Nat \ {0}, NEW b \in Nat \ {0}
    PROVE  (Ceiling(a, b) - 1) * b < a /\ a <= Ceiling(a, b) * b
<1>1. PICK x \in Nat : x = a + b - 1
  OBVIOUS
<1>2. PICK q \in Nat : q = x \div b
  OBVIOUS
<1>3. q * b <= x /\ x < q * b + b
  BY <1>2
<1>4. Ceiling(a, b) = q
  BY <1>1, <1>2 DEF Ceiling
<1>5. (q - 1) * b = q * b - b
  OBVIOUS
<1>6. q * b \in Nat
  OBVIOUS
<1> QED BY <1>1, <1>3, <1>4, <1>5, <1>6

\* Chunk k of the structures 0 .. size - 1, when a chunk has step of them.
Chunk(k, step, size) == <<(k - 1) * step, Smaller(k * step, size) - 1>>

\* Chunk k is not empty, and ends before the next one begins.
LEMMA ChunkBounds ==
    ASSUME NEW size \in Nat \ {0}, NEW step \in Nat \ {0}, NEW n \in Nat \ {0}, (n - 1) * step < size,
           NEW k \in 1 .. n
    PROVE  /\ (k - 1) * step \in 0 .. Smaller(k * step, size) - 1
           /\ Smaller(k * step, size) - 1 \in 0 .. size - 1
           /\ \A l \in 1 .. n : k < l => Smaller(k * step, size) - 1 < (l - 1) * step
<1>1. (k - 1) * step <= (n - 1) * step
  BY TimesGrows
<1>2. (k - 1) * step \in Nat /\ k * step \in Nat /\ (n - 1) * step \in Int
  OBVIOUS
<1>3. k * step = (k - 1) * step + step
  OBVIOUS
<1>4. (k - 1) * step < k * step /\ (k - 1) * step < size
  BY <1>1, <1>2, <1>3
<1>5. \A l \in 1 .. n : k < l => k * step <= (l - 1) * step /\ (l - 1) * step \in Int
  <2> TAKE l \in 1 .. n
  <2> HAVE k < l
  <2>1. k <= l - 1 /\ l - 1 \in Int
    OBVIOUS
  <2> QED BY <2>1, TimesGrows
<1> QED BY <1>2, <1>4, <1>5 DEF Smaller

\* Every structure is in a chunk.
LEMMA ChunkOf ==
    ASSUME NEW size \in Nat \ {0}, NEW step \in Nat \ {0}, NEW n \in Nat \ {0}, size <= n * step,
           NEW i \in 0 .. size - 1
    PROVE  \E k \in 1 .. n : i \in (k - 1) * step .. Smaller(k * step, size) - 1
<1>1. PICK q \in Nat : q = i \div step
  OBVIOUS
<1>2. q * step <= i /\ i < q * step + step
  BY <1>1
<1>3. q * step \in Nat /\ (q + 1) * step = q * step + step /\ n * step \in Nat
  OBVIOUS
<1>4. q < n
  <2> SUFFICES ASSUME n <= q PROVE FALSE
    OBVIOUS
  <2>1. n * step <= q * step
    BY TimesGrows
  <2> QED BY <1>2, <1>3, <2>1
<1>5. PICK k \in 1 .. n : k = q + 1 /\ k - 1 = q
  BY <1>4
<1>6. (k - 1) * step <= i /\ i < k * step
  BY <1>2, <1>3, <1>5
<1>7. i <= Smaller(k * step, size) - 1 /\ (k - 1) * step \in Int /\ Smaller(k * step, size) - 1 \in Int
  <2>1. k * step \in Int /\ (k - 1) * step \in Int
    OBVIOUS
  <2> QED BY <1>6, <2>1 DEF Smaller
<1>8. PICK lo \in Int, hi \in Int : lo = (k - 1) * step /\ hi = Smaller(k * step, size) - 1
  BY <1>7
<1>9. i \in lo .. hi
  BY <1>6, <1>7, <1>8
<1> QED BY <1>8, <1>9

\* The chunks of a batch are in order, and hold all its structures.
LEMMA ChunksDivide ==
    ASSUME JournalInv, Premises, NEW r \in Roles, batch[r].size # 0
    PROVE  /\ QueueOrdered(Chunks(r), batch[r].size)
           /\ \A i \in 0 .. batch[r].size - 1 : \E k \in DOMAIN Chunks(r) : i \in Chunks(r)[k][1] .. Chunks(r)[k][2]
<1>1. batch[r].size \in Nat \ {0} /\ Workers[r] \in Nat \ {0}
  BY RoleState, WorkersType DEF JournalInv
<1>2. PICK size, workers, n, step : /\ size = batch[r].size /\ workers = Workers[r]
                                    /\ n = ChunkCount(size, workers) /\ step = ChunkSize(size, workers)
  OBVIOUS
<1>3. size \in Nat \ {0} /\ n \in Nat \ {0} /\ step \in Nat \ {0}
  BY <1>1, <1>2, ChunkTypes
<1>4. (n - 1) * step < size /\ size <= n * step
  <2>1. n = Ceiling(size, step)
    BY <1>2, <1>3 DEF ChunkCount
  <2> QED BY <1>3, <2>1, DividedUp
<1>5. PICK q : q = Chunks(r)
  OBVIOUS
<1>6. q = [k \in 1 .. n |-> Chunk(k, step, size)]
  BY <1>2, <1>5 DEF Chunks, Chunk
<1>7. DOMAIN q = 1 .. n /\ \A k \in 1 .. n : q[k][1] = (k - 1) * step /\ q[k][2] = Smaller(k * step, size) - 1
  BY <1>6 DEF Chunk
<1>8. QueueOrdered(q, size)
  <2>1. ASSUME NEW k \in 1 .. n
        PROVE  /\ q[k][1] \in 0 .. q[k][2] /\ q[k][2] \in 0 .. size - 1
               /\ \A l \in 1 .. n : k < l => q[k][2] < q[l][1]
    <3>1. /\ (k - 1) * step \in 0 .. Smaller(k * step, size) - 1
          /\ Smaller(k * step, size) - 1 \in 0 .. size - 1
          /\ \A l \in 1 .. n : k < l => Smaller(k * step, size) - 1 < (l - 1) * step
      BY <1>3, <1>4, ChunkBounds
    <3> QED BY <1>7, <3>1
  <2> QED BY <1>7, <2>1 DEF QueueOrdered
<1>9. \A i \in 0 .. size - 1 : \E k \in DOMAIN q : i \in q[k][1] .. q[k][2]
  <2> TAKE i \in 0 .. size - 1
  <2>1. PICK k \in 1 .. n : i \in (k - 1) * step .. Smaller(k * step, size) - 1
    BY <1>3, <1>4, ChunkOf
  <2> QED BY <1>7, <2>1
<1> QED BY <1>2, <1>5, <1>8, <1>9

\* Handing out the chunks: every structure is in one of them, and none is started.
LEMMA EvaluationStartsHonest ==
    ASSUME JournalInv, Premises, HonestParts, NEW r \in Roles, pc[r] \in {"identity", "preparing"},
           StartEvaluation(r), NEW row, Adds(row), row.kind \in {"none", "all_calculators_ready"},
           UNCHANGED <<batch, batches>>,
           Workers[r] > 1 => AllReady(journal', batches, ChunkCount(batch[r].size, Workers[r]))
    PROVE  OnRecord' /\ OpenBatches' /\ OpenSlots' /\ OpenOracles' /\ OpenAttempts' /\ Divided'
<1>1. /\ pc' = [pc EXCEPT ![r] = "evaluating"] /\ queue' = [queue EXCEPT ![r] = Chunks(r)]
      /\ UNCHANGED <<thread, failed>>
  BY DEF StartEvaluation
<1>2. pc[r] \in InBatch /\ ~Working(r) /\ batch[r].size # 0
  <2>1. pc[r] \in InBatch /\ ~Working(r)
    BY DEF InBatch, Working
  <2> QED BY <2>1, OracleFacts DEF OracleState
<1>3. pc'[r] = "evaluating" /\ \A s \in Roles : s # r => pc'[s] = pc[s]
  BY <1>1, TypedArrays
<1>4. \A s \in Roles : s # r => pc[s] \notin InBatch \cup {"making"}
  BY <1>2, SoleBatch
<1>5. \A s \in Roles : /\ ~Working(s) /\ pc[s] # "making" /\ pc[s] # "constructing"
                       /\ (s # r => pc'[s] \notin InBatch /\ ~Working(s)') /\ (pc'[s] = "absent" => pc[s] = "absent")
  BY <1>2, <1>3, <1>4 DEF InBatch, Working
<1>6. AllAdding(row) /\ row.kind # "oracle_batch_started" /\ row.kind # "calculator_constructor_started"
      /\ row.kind # "oracle_constructor_started" /\ row.kind # "oracle_attempt_started" /\ row.kind \notin BatchEndKinds
  BY RowsAdded DEF BatchEndKinds
<1>7. BatchOnRecord(journal, r, batches, batch[r].size, batch[r].slot, pc[r])
  BY <1>2, BatchRecorded
<1>8. BatchAttempts(journal', batches) = {}
  <2>1. BatchAttempts(journal, batches) = {}
    BY <1>7 DEF BatchOnRecord
  <2> QED BY <1>6, <2>1, AttemptsOfBatch DEF Adds
<1>9. OnRecord'
  <2>1. /\ \E s \in BatchStarts(journal') : journal'[s].batch = batches
        /\ \A s \in BatchStarts(journal') : journal'[s].batch = batches =>
               journal'[s].role = r /\ journal'[s].index = batch[r].size
        /\ \A e \in BatchEnds(journal') : journal'[e].batch # batches
        /\ \A s \in SlotStarts(journal') : journal'[s].batch = batches => journal'[s].index < batch[r].slot
    BY <1>6, <1>7 DEF AllAdding, Adding, BatchOnRecord
  <2>2. BatchOnRecord(journal', r, batches, batch[r].size, batch[r].slot, "evaluating")
    BY <2>1 DEF BatchOnRecord
  <2> QED BY <1>3, <1>5, <2>2 DEF OnRecord
<1>10. OpenBatches' /\ OpenSlots' /\ OpenOracles' /\ OpenAttempts'
  <2>1. pc'[r] \in InBatch
    BY <1>3 DEF InBatch
  <2> QED BY <1>1, <1>5, <1>6, <2>1, OpenBatchesStay, OpenSlotsStay, OpenOraclesStay, AttemptsClosed DEF HonestParts
<1>11. Divided'
  <2>1. queue'[r] = Chunks(r)
    BY <1>1, TypedArrays
  <2>2. \A w \in Threads : thread'[r][w].at = "idle"
    BY <1>1, <1>2, NoAttempt
  <2>3. QueueOrdered(queue'[r], batch[r].size)
    BY <1>2, <2>1, ChunksDivide
  <2>4. ThreadsApart(thread'[r], queue'[r], batch[r].size)
    BY <2>2 DEF ThreadsApart, Ahead
  <2>5. StartedOnce(journal', batches, thread'[r], queue'[r])
    BY <1>8 DEF StartedOnce
  <2>6. Covered(journal', batches, thread'[r], queue'[r], batch[r].size)
    BY <1>2, <2>1, ChunksDivide DEF Covered
  <2> QED BY <1>5, <2>3, <2>4, <2>5, <2>6 DEF Divided
<1> QED BY <1>9, <1>10, <1>11

\* All calculators of the batch are on record, and that they are.
LEMMA CalculatorsReadyHonest ==
    ASSUME JournalInv, Premises, HonestInv, Honest', NEW r \in Roles, NEW o \in Outcomes, CalculatorsReady(r, o)
    PROVE  HonestParts'
<1>1. /\ pc[r] = "preparing" /\ batch[r].slot = Prepared(r)
      /\ Write(Row("all_calculators_ready", r, Prepared(r), -1, ""), o)
      /\ UNCHANGED <<attempts, batch, batches>>
      /\ o = "written" => StartEvaluation(r)
  BY DEF CalculatorsReady, ledger
<1>2. pc[r] \in InBatch /\ ~Working(r) /\ batch[r].id = batches /\ batch[r].size # 0 /\ Prepared(r) \in Nat
  <2>1. pc[r] \in InBatch /\ ~Working(r)
    BY <1>1 DEF InBatch, Working
  <2>2. batch[r].id = batches /\ batch[r].size # 0
    BY <2>1, OracleFacts DEF OracleState
  <2> QED BY <2>1, <2>2, ChunksTyped
<1>3. PICK row : Fields(row, "all_calculators_ready", r, batches, Prepared(r), -1) /\ Write(row, o)
  <2>1. PICK m \in Int : m = -1
    OBVIOUS
  <2>2. PICK n \in Int : n = Prepared(r)
    BY <1>2
  <2>3. "all_calculators_ready" \in Kinds /\ "" \in {""} \cup Stages
    BY DEF Kinds
  <2> QED BY <1>1, <1>2, <2>1, <2>2, <2>3, RowWritten
<1>4. row \in JournalRows /\ row.kind = "all_calculators_ready" /\ row.batch = batches
      /\ row.index = Prepared(r) /\ row.sequence = sequence /\ row.kind \in Kinds
  BY <1>3 DEF Fields, Kinds
<1>5. /\ Honest /\ o = "written" /\ sequence' = sequence + 1 /\ Adds(row)
  BY <1>3, <1>4, HonestWrite
<1>6. HonestParts
  BY <1>5 DEF HonestInv
<1>7. /\ BatchOnRecord(journal, r, batches, batch[r].size, batch[r].slot, "preparing")
      /\ BatchStarted(journal, batches) /\ Len(journal) = sequence
  BY <1>1, <1>2, <1>6, BatchRecorded
<1>8. row # NoRow /\ row.kind # "oracle_attempt_started" /\ row.kind # "calculator_constructor_finished"
  BY <1>4 DEF NoRow
<1>9. Fits(journal, row)
  <2>1. \A m \in ReadyMarks(journal) : journal[m].batch # batches
    BY <1>7 DEF BatchOnRecord
  <2> QED BY <1>4, <1>7, <2>1 DEF Fits, OracleEndKinds, BatchEndKinds, SlotEndKinds, AttemptEndKinds
<1>10. Recorded'
  BY <1>1, <1>4, <1>5, <1>6, <1>8, <1>9, RecordedInBatch DEF HonestParts
<1>11. Workers[r] > 1 => AllReady(journal', batches, ChunkCount(batch[r].size, Workers[r]))
  <2> SUFFICES ASSUME Workers[r] > 1 PROVE AllReady(journal', batches, Prepared(r))
    BY DEF Prepared
  <2>1. Longer(journal, row, journal') /\ AllGrown(journal, row, journal')
    BY <1>5, <1>8, KindsGrown DEF Adds
  <2>2. BatchAttempts(journal', batches) = {} /\ Constructed(journal', batches) = Constructed(journal, batches)
    BY <1>7, <1>8, <2>1, AttemptsOfBatch, ConstructedOfBatch DEF BatchOnRecord
  <2>3. Cardinality(Constructed(journal, batches)) = Prepared(r)
    BY <1>1, <1>7 DEF BatchOnRecord
  <2>4. \A i \in Constructed(journal', batches) : i < Len(journal')
    BY <2>1, <2>2, OldRows
  <2>5. Len(journal') \in ReadyMarks(journal') /\ journal'[Len(journal')] = row
    BY <1>4, <2>1 DEF AllGrown, GrownBy
  <2> QED BY <1>4, <2>2, <2>3, <2>4, <2>5 DEF AllReady
<1>12. OnRecord' /\ OpenBatches' /\ OpenSlots' /\ OpenOracles' /\ OpenAttempts' /\ Divided'
  BY <1>1, <1>4, <1>5, <1>6, <1>11, EvaluationStartsHonest
<1> QED BY <1>10, <1>12 DEF HonestParts

\* The batch of an oracle with one worker.
LEMMA EvaluateSeriallyHonest ==
    ASSUME JournalInv, Premises, HonestInv, Honest', NEW r \in Roles, EvaluateSerially(r)
    PROVE  HonestParts'
<1>1. /\ pc[r] = "identity" /\ Workers[r] = 1 /\ StartEvaluation(r)
      /\ UNCHANGED <<journal, sequence, attempts, batch, batches, faults>>
  BY DEF EvaluateSerially, ledger
<1>2. HonestParts /\ Adds(NoRow)
  BY <1>1, HonestSame DEF HonestInv
<1>3. NoRow.kind = "none" /\ ~(Workers[r] > 1)
  BY <1>1 DEF NoRow
<1>4. OnRecord' /\ OpenBatches' /\ OpenSlots' /\ OpenOracles' /\ OpenAttempts' /\ Divided'
  BY <1>1, <1>2, <1>3, EvaluationStartsHonest
<1>5. Recorded'
  BY <1>1, <1>2 DEF HonestParts, Recorded
<1> QED BY <1>4, <1>5 DEF HonestParts

-----------------------------------------------------------------------------
(* The steps of the worker threads *)

\* A step of the evaluation leaves alone what is not its threads'.
LEMMA EvaluationHonest ==
    ASSUME JournalInv, HonestParts, NEW r \in Roles, Working(r), NEW row, Adds(row), row.kind \in ThreadKinds,
           UNCHANGED <<pc, batch, batches>>
    PROVE  OnRecord' /\ OpenBatches' /\ OpenSlots' /\ OpenOracles'
<1>1. pc[r] \in InBatch
  BY DEF Working, InBatch
<1>2. \A s \in Roles : s # r => pc[s] \notin InBatch \cup {"making"}
  BY <1>1, SoleBatch
<1>3. \A s \in Roles : pc[s] \in InBatch => Working(s)
  BY <1>2
<1>4. /\ row.kind # "oracle_batch_started" /\ row.kind # "calculator_constructor_started"
      /\ row.kind # "oracle_constructor_started"
  BY DEF ThreadKinds, AttemptEndKinds
<1>5. OnRecord'
  BY <1>3, OnRecordStays DEF HonestParts
<1>6. OpenBatches' /\ OpenSlots' /\ OpenOracles'
  BY <1>4, OpenBatchesStay, OpenSlotsStay, OpenOraclesStay DEF HonestParts
<1> QED BY <1>5, <1>6

\* What is divided, of the batch that is being evaluated.
LEMMA DividedBatch ==
    ASSUME JournalInv, HonestParts, NEW r \in Roles, Working(r), UNCHANGED <<pc, batches, batch>>
    PROVE  /\ QueueOrdered(queue[r], batch[r].size)
           /\ ThreadsApart(thread[r], queue[r], batch[r].size)
           /\ StartedOnce(journal, batches, thread[r], queue[r])
           /\ ~failed[r] => Covered(journal, batches, thread[r], queue[r], batch[r].size)
           /\ (/\ QueueOrdered(queue'[r], batch[r].size)
               /\ ThreadsApart(thread'[r], queue'[r], batch[r].size)
               /\ StartedOnce(journal', batches, thread'[r], queue'[r])
               /\ ~failed'[r] => Covered(journal', batches, thread'[r], queue'[r], batch[r].size)) => Divided'
<1>1. pc[r] \in InBatch
  BY DEF Working, InBatch
<1>2. \A s \in Roles : s # r => pc[s] \notin InBatch \cup {"making"}
  BY <1>1, SoleBatch
<1>3. \A s \in Roles : Working(s)' => s = r
  BY <1>2 DEF Working, InBatch
<1> QED BY <1>3 DEF HonestParts, Divided

\* The thread w goes on in its chunk, or leaves it.
LEMMA DividedMove ==
    ASSUME JournalInv, HonestParts, NEW r \in Roles, NEW w \in Threads, NEW t, Moved(r, w, t),
           thread[r][w].at # "idle", UNCHANGED <<pc, batch, batches, queue>>,
           NEW row, Adds(row), row.kind \in ThreadKinds,
           t.at # "idle" => t.last = thread[r][w].last /\ t.item \in thread[r][w].item .. thread[r][w].last,
           Unstarted(t) \subseteq Unstarted(thread[r][w]),
           row.kind = "oracle_attempt_started" =>
               row.batch = batches /\ row.index = thread[r][w].item /\ row.index \notin Unstarted(t),
           ~failed'[r] => ~failed[r] /\ \A i \in Ahead(thread[r][w]) :
                              i \in Ahead(t) \/ Evaluated(journal', batches, i)
    PROVE  Divided'
<1> DEFINE u == thread[r][w]
<1>1. u.item \in Int /\ u.last \in Int
  BY ThreadType
<1>2. Working(r)
  BY BusyThread
<1>3. /\ QueueOrdered(queue[r], batch[r].size)
      /\ ThreadsApart(thread[r], queue[r], batch[r].size)
      /\ StartedOnce(journal, batches, thread[r], queue[r])
      /\ ~failed[r] => Covered(journal, batches, thread[r], queue[r], batch[r].size)
  BY <1>2, DividedBatch
<1>4. thread'[r][w] = t /\ \A v \in Threads : v # w => thread'[r][v] = thread[r][v]
  BY DEF Moved
<1>5. u.item \in 0 .. u.last /\ u.last \in 0 .. batch[r].size - 1 /\ Ahead(u) = u.item .. u.last
      /\ \A k \in DOMAIN queue[r] : u.last < queue[r][k][1]
  BY <1>3 DEF ThreadsApart, Ahead
<1>6. Ahead(t) \subseteq Ahead(u)
  <2>1. CASE t.at = "idle"
    BY <2>1 DEF Ahead
  <2>2. CASE t.at # "idle"
    <3>1. t.last = u.last /\ t.item \in u.item .. u.last /\ Ahead(t) = t.item .. t.last
      BY <2>2 DEF Ahead
    <3> QED BY <1>1, <1>5, <3>1
  <2> QED BY <2>1, <2>2
<1>7. t.at # "idle" => /\ t.item \in 0 .. t.last /\ t.last \in 0 .. batch[r].size - 1
                       /\ \A k \in DOMAIN queue[r] : t.last < queue[r][k][1]
  <2> SUFFICES ASSUME t.at # "idle" PROVE t.item \in 0 .. t.last /\ t.last = u.last
    BY <1>5
  <2>1. t.last = u.last /\ t.item \in u.item .. u.last
    OBVIOUS
  <2> QED BY <1>1, <1>5, <2>1
<1>8. \A v \in Threads : v # w => Ahead(t) \cap Ahead(thread[r][v]) = {}
  BY <1>3, <1>6 DEF ThreadsApart
<1>9. ThreadsApart(thread'[r], queue'[r], batch[r].size)
  <2>1. \A v \in Threads : thread'[r][v].at # "idle" =>
            /\ thread'[r][v].item \in 0 .. thread'[r][v].last /\ thread'[r][v].last \in 0 .. batch[r].size - 1
            /\ \A k \in DOMAIN queue[r] : thread'[r][v].last < queue[r][k][1]
    BY <1>3, <1>4, <1>7 DEF ThreadsApart
  <2>2. \A v, x \in Threads : v # x => Ahead(thread'[r][v]) \cap Ahead(thread'[r][x]) = {}
    <3> TAKE v, x \in Threads
    <3> HAVE v # x
    <3>1. CASE v = w
      BY <1>4, <1>8, <3>1
    <3>2. CASE x = w
      BY <1>4, <1>8, <3>2
    <3>3. CASE v # w /\ x # w
      BY <1>3, <1>4, <3>3 DEF ThreadsApart
    <3> QED BY <3>1, <3>2, <3>3
  <2> QED BY <2>1, <2>2 DEF ThreadsApart
<1>10. AllAdding(row)
  BY RowsAdded
<1>11. StartedOnce(journal', batches, thread'[r], queue'[r])
  <2> SUFFICES ASSUME NEW s \in BatchAttempts(journal', batches)
               PROVE  /\ \A k \in DOMAIN queue[r] : journal'[s].index < queue[r][k][1]
                      /\ \A v \in Threads : journal'[s].index \notin Unstarted(thread'[r][v])
    BY DEF StartedOnce
  <2>1. CASE s \in AttemptStarts(journal) /\ journal'[s] = journal[s]
    <3>1. s \in BatchAttempts(journal, batches)
      BY <2>1 DEF BatchAttempts
    <3> QED BY <1>3, <1>4, <2>1, <3>1 DEF StartedOnce
  <2>2. CASE row.kind = "oracle_attempt_started" /\ journal'[s] = row
    <3>1. row.index = u.item /\ row.index \notin Unstarted(t)
      BY <2>2
    <3>2. u.item \in Ahead(u) /\ \A k \in DOMAIN queue[r] : u.item < queue[r][k][1]
      <4>1. u.item \in Ahead(u)
        BY <1>1, <1>5
      <4>2. \A k \in DOMAIN queue[r] : u.item < queue[r][k][1]
        <5> TAKE k \in DOMAIN queue[r]
        <5>1. queue[r] \in Seq(Int \X Int)
          BY TypedArrays
        <5>2. queue[r][k] \in Int \X Int
          BY <5>1
        <5>3. u.last < queue[r][k][1] /\ queue[r][k][1] \in Int
          BY <1>5, <5>2
        <5> QED BY <1>1, <1>5, <5>3
      <4> QED BY <4>1, <4>2
    <3>3. \A v \in Threads : v # w => u.item \notin Ahead(thread[r][v])
      BY <1>3, <3>2 DEF ThreadsApart
    <3>4. \A v \in Threads : v # w => u.item \notin Unstarted(thread[r][v])
      BY <3>3 DEF Unstarted
    <3> QED BY <1>4, <2>2, <3>1, <3>2, <3>4
  <2> QED BY <1>10, <2>1, <2>2 DEF AllAdding, Adding, BatchAttempts
<1>12. ~failed'[r] => Covered(journal', batches, thread'[r], queue'[r], batch[r].size)
  <2> SUFFICES ASSUME ~failed'[r], NEW i \in 0 .. batch[r].size - 1
               PROVE  \/ \E k \in DOMAIN queue[r] : i \in queue[r][k][1] .. queue[r][k][2]
                      \/ \E v \in Threads : i \in Ahead(thread'[r][v])
                      \/ Evaluated(journal', batches, i)
    BY DEF Covered
  <2>1. CASE \E k \in DOMAIN queue[r] : i \in queue[r][k][1] .. queue[r][k][2]
    BY <2>1
  <2>2. CASE \E v \in Threads : i \in Ahead(thread[r][v])
    <3>1. PICK v \in Threads : i \in Ahead(thread[r][v])
      BY <2>2
    <3>2. CASE v = w
      BY <1>4, <3>1, <3>2
    <3>3. CASE v # w
      BY <1>4, <3>1, <3>3
    <3> QED BY <3>2, <3>3
  <2>3. CASE Evaluated(journal, batches, i)
    <3>1. PICK s \in BatchAttempts(journal, batches), e \in Rows(journal, {"oracle_attempt_returned"}) :
              journal[s].index = i /\ SameAttempt(journal[s], journal[e])
      BY <2>3 DEF Evaluated
    <3>2. s \in BatchAttempts(journal', batches) /\ journal'[s] = journal[s]
      BY <1>10, <3>1 DEF AllAdding, Adding, BatchAttempts
    <3>3. e \in Rows(journal', {"oracle_attempt_returned"}) /\ journal'[e] = journal[e]
      BY <1>10, <3>1 DEF AllAdding, Adding
    <3> QED BY <3>1, <3>2, <3>3 DEF Evaluated
  <2> QED BY <1>3, <2>1, <2>2, <2>3 DEF Covered
<1> QED BY <1>2, <1>3, <1>9, <1>11, <1>12, DividedBatch

\* The thread w goes on with its structure, with a calculator it may not have had.
LEMMA DividedGoesOn ==
    ASSUME JournalInv, HonestParts, NEW r \in Roles, NEW w \in Threads, NEW t, Moved(r, w, t),
           thread[r][w].at = "counted", t.at = "calling", t.item = thread[r][w].item, t.last = thread[r][w].last,
           UNCHANGED <<pc, batch, batches, queue, failed>>,
           NEW row, Adds(row), row.kind \in {"none", "calculator_assigned"}
    PROVE  Divided'
<1>1. thread[r][w].item \in Int /\ thread[r][w].last \in Int /\ Working(r)
  BY ThreadType, BusyThread
<1>2. ThreadsApart(thread[r], queue[r], batch[r].size)
  BY <1>1, DividedBatch
<1>3. t.item \in thread[r][w].item .. thread[r][w].last
  BY <1>1, <1>2 DEF ThreadsApart
<1>4. Unstarted(t) = Unstarted(thread[r][w]) /\ Ahead(t) = Ahead(thread[r][w])
  BY DEF Unstarted, Ahead
<1>5. row.kind \in ThreadKinds /\ row.kind # "oracle_attempt_started"
  BY DEF ThreadKinds
<1> QED BY <1>3, <1>4, <1>5, DividedMove

\* The head of a queue and what is left of it.
LEMMA TakenChunk ==
    ASSUME NEW S, NEW s \in Seq(S), s # <<>>
    PROVE  /\ Head(s) = s[1] /\ 1 \in DOMAIN s
           /\ \A i \in DOMAIN Tail(s) : i + 1 \in DOMAIN s /\ Tail(s)[i] = s[i + 1] /\ i \in Nat \ {0}
           /\ \A k \in DOMAIN s : k = 1 \/ (k - 1 \in DOMAIN Tail(s) /\ Tail(s)[k - 1] = s[k])
<1>1. Len(s) \in Nat \ {0} /\ DOMAIN s = 1 .. Len(s) /\ Head(s) = s[1]
  OBVIOUS
<1>2. Tail(s) \in Seq(S) /\ Len(Tail(s)) = Len(s) - 1
  OBVIOUS
<1>3. DOMAIN Tail(s) = 1 .. Len(s) - 1
  BY <1>1, <1>2
<1>4. \A i \in 1 .. Len(s) - 1 : Tail(s)[i] = s[i + 1] /\ i + 1 \in 1 .. Len(s) /\ i \in Nat \ {0}
  BY <1>1
<1>5. ASSUME NEW k \in 1 .. Len(s), k # 1 PROVE k - 1 \in 1 .. Len(s) - 1 /\ Tail(s)[k - 1] = s[k]
  <2>1. k - 1 \in 1 .. Len(s) - 1 /\ (k - 1) + 1 = k
    BY <1>1, <1>5
  <2>2. Tail(s)[k - 1] = s[(k - 1) + 1]
    BY <1>4, <2>1
  <2> QED BY <2>1, <2>2
<1> QED BY <1>1, <1>3, <1>4, <1>5

\* The thread w, which has no chunk, takes the first one of the queue.
LEMMA DividedTake ==
    ASSUME JournalInv, HonestParts, NEW r \in Roles, Working(r), queue[r] # <<>>,
           NEW w \in Threads, thread[r][w].at = "idle", NEW t, Moved(r, w, t),
           t.at = "item", t.item = queue[r][1][1], t.last = queue[r][1][2],
           queue' = [queue EXCEPT ![r] = Tail(queue[r])],
           UNCHANGED <<journal, pc, batch, batches, failed>>
    PROVE  Divided'
<1> DEFINE q == queue[r]
           p == Tail(queue[r])
           size == batch[r].size
<1>1. /\ QueueOrdered(q, size) /\ ThreadsApart(thread[r], q, size) /\ StartedOnce(journal, batches, thread[r], q)
      /\ ~failed[r] => Covered(journal, batches, thread[r], q, size)
  BY DividedBatch
<1>2. q \in Seq(Int \X Int)
  BY TypedArrays
<1>3. /\ 1 \in DOMAIN q /\ \A i \in DOMAIN p : i + 1 \in DOMAIN q /\ p[i] = q[i + 1] /\ i \in Nat \ {0}
      /\ \A k \in DOMAIN q : k = 1 \/ (k - 1 \in DOMAIN p /\ p[k - 1] = q[k])
  BY <1>2, TakenChunk
<1>4. queue'[r] = p
  BY TypedArrays
<1>5. thread'[r][w] = t /\ \A v \in Threads : v # w => thread'[r][v] = thread[r][v]
  BY DEF Moved
<1>6. q[1][1] \in Int /\ q[1][2] \in Int
  BY <1>2, <1>3
<1>7. /\ q[1][1] \in 0 .. q[1][2] /\ q[1][2] \in 0 .. size - 1
      /\ \A k \in DOMAIN p : q[1][2] < p[k][1]
  <2>1. \A k \in DOMAIN p : 1 < k + 1
    BY <1>3
  <2> QED BY <1>1, <1>3, <2>1 DEF QueueOrdered
<1>8. Ahead(t) = q[1][1] .. q[1][2] /\ Unstarted(t) = q[1][1] .. q[1][2]
  BY DEF Ahead, Unstarted
<1> HIDE DEF p, q, size
<1>9. QueueOrdered(p, size)
  <2>1. \A k, l \in DOMAIN p : k < l => k + 1 < l + 1
    BY <1>3
  <2>2. \A k \in DOMAIN p : p[k][1] \in 0 .. p[k][2] /\ p[k][2] \in 0 .. size - 1
    BY <1>1, <1>3 DEF QueueOrdered
  <2>3. \A k, l \in DOMAIN p : k < l => p[k][2] < p[l][1]
    BY <1>1, <1>3, <2>1 DEF QueueOrdered
  <2> QED BY <2>2, <2>3 DEF QueueOrdered
<1>10. \A v \in Threads : Ahead(thread[r][v]) \cap (q[1][1] .. q[1][2]) = {}
  <2> TAKE v \in Threads
  <2>1. CASE thread[r][v].at = "idle"
    BY <2>1 DEF Ahead
  <2>2. CASE thread[r][v].at # "idle"
    <3>1. thread[r][v].last < q[1][1] /\ Ahead(thread[r][v]) = thread[r][v].item .. thread[r][v].last
      BY <1>1, <1>3, <2>2 DEF ThreadsApart, Ahead
    <3>2. thread[r][v].item \in Int /\ thread[r][v].last \in Int
      BY ThreadType
    <3> QED BY <1>6, <3>1, <3>2
  <2> QED BY <2>1, <2>2
<1>11. ThreadsApart(thread'[r], p, size)
  <2>1. \A v \in Threads : thread'[r][v].at # "idle" =>
            thread'[r][v].item \in 0 .. thread'[r][v].last /\ thread'[r][v].last \in 0 .. size - 1
    BY <1>1, <1>5, <1>7 DEF ThreadsApart, q
  <2>2. \A v \in Threads, k \in DOMAIN p : thread'[r][v].at # "idle" => thread'[r][v].last < p[k][1]
    BY <1>1, <1>3, <1>5, <1>7 DEF ThreadsApart, q
  <2>3. \A v, x \in Threads : v # x => Ahead(thread'[r][v]) \cap Ahead(thread'[r][x]) = {}
    <3> TAKE v, x \in Threads
    <3> HAVE v # x
    <3>1. CASE v = w
      BY <1>5, <1>8, <1>10, <3>1
    <3>2. CASE x = w
      BY <1>5, <1>8, <1>10, <3>2
    <3>3. CASE v # w /\ x # w
      BY <1>1, <1>5, <3>3 DEF ThreadsApart
    <3> QED BY <3>1, <3>2, <3>3
  <2> QED BY <2>1, <2>2, <2>3 DEF ThreadsApart
<1>12. StartedOnce(journal, batches, thread'[r], p)
  <2> SUFFICES ASSUME NEW s \in BatchAttempts(journal, batches)
               PROVE  /\ \A k \in DOMAIN p : journal[s].index < p[k][1]
                      /\ \A v \in Threads : journal[s].index \notin Unstarted(thread'[r][v])
    BY DEF StartedOnce
  <2>1. /\ \A k \in DOMAIN q : journal[s].index < q[k][1]
        /\ \A v \in Threads : journal[s].index \notin Unstarted(thread[r][v])
    BY <1>1 DEF StartedOnce
  <2>2. \A k \in DOMAIN p : journal[s].index < p[k][1]
    BY <1>3, <2>1
  <2>3. journal[s].index \notin q[1][1] .. q[1][2]
    <3>1. s \in DOMAIN journal /\ journal \in Seq(JournalRows)
      BY DEF BatchAttempts, AttemptStarts, Rows, JournalInv, JournalTyped
    <3>2. journal[s].index \in Int /\ journal[s].index < q[1][1]
      BY <1>3, <2>1, <3>1, RowType
    <3> QED BY <1>6, <3>2
  <2> QED BY <1>5, <1>8, <2>1, <2>2, <2>3
<1>13. ~failed[r] => Covered(journal, batches, thread'[r], p, size)
  <2> SUFFICES ASSUME ~failed[r], NEW i \in 0 .. size - 1
               PROVE  \/ \E k \in DOMAIN p : i \in p[k][1] .. p[k][2]
                      \/ \E v \in Threads : i \in Ahead(thread'[r][v])
                      \/ Evaluated(journal, batches, i)
    BY DEF Covered
  <2>1. CASE \E k \in DOMAIN q : i \in q[k][1] .. q[k][2]
    BY <1>3, <1>5, <1>8, <2>1
  <2>2. CASE \E v \in Threads : i \in Ahead(thread[r][v])
    <3>1. PICK v \in Threads : i \in Ahead(thread[r][v])
      BY <2>2
    <3>2. v # w
      BY <3>1 DEF Ahead
    <3> QED BY <1>5, <3>1, <3>2
  <2> QED BY <1>1, <2>1, <2>2 DEF Covered
<1> QED BY <1>1, <1>4, <1>9, <1>11, <1>12, <1>13, DividedBatch DEF q, p, size

\* A thread takes a chunk.
LEMMA TakeChunkHonest ==
    ASSUME JournalInv, HonestInv, Honest', NEW r \in Roles, NEW w \in Threads, TakeChunk(r, w)
    PROVE  HonestParts'
<1> DEFINE t == [thread[r][w] EXCEPT !.at = "item", !.item = Head(queue[r])[1], !.last = Head(queue[r])[2]]
<1>1. /\ Working(r) /\ queue[r] # <<>> /\ thread[r][w].at = "idle" /\ SetThread(r, w, t)
      /\ queue' = [queue EXCEPT ![r] = Tail(queue[r])]
      /\ UNCHANGED <<journal, sequence, attempts, pc, batch, failed, batches, faults>>
  BY DEF TakeChunk, ledger
<1>2. queue[r] \in Seq(Int \X Int) /\ thread[r][w] \in ThreadStates
  BY TypedArrays
<1>3. Head(queue[r]) \in Int \X Int /\ Head(queue[r]) = queue[r][1]
  BY <1>1, <1>2
<1>4. t \in ThreadStates /\ t.at = "item" /\ t.item = queue[r][1][1] /\ t.last = queue[r][1][2]
  BY <1>2, <1>3 DEF ThreadStates
<1> HIDE DEF t
<1>5. Moved(r, w, t)
  BY <1>1, <1>4, ThreadMoved
<1>6. HonestParts /\ Adds(NoRow) /\ NoRow.kind = "none"
  BY <1>1, HonestSame DEF HonestInv, NoRow
<1>7. OnRecord' /\ OpenBatches' /\ OpenSlots' /\ OpenOracles'
  <2>1. NoRow.kind \in ThreadKinds
    BY <1>6 DEF ThreadKinds
  <2> QED BY <1>1, <1>6, <2>1, EvaluationHonest
<1>8. Divided'
  BY <1>1, <1>4, <1>5, <1>6, DividedTake
<1>9. OpenAttempts'
  <2>1. \A s \in Roles, v \in Threads :
            /\ Attempting(s, v)' <=> Attempting(s, v)
            /\ Attempting(s, v) => /\ thread'[s][v].item = thread[s][v].item
                                   /\ thread'[s][v].attempt = thread[s][v].attempt
    BY <1>1, <1>4, <1>5 DEF Moved, Attempting
  <2> QED BY <1>1, <1>6, <2>1, OpenAttemptsStay DEF HonestParts
<1>10. Recorded'
  BY <1>1, <1>6 DEF HonestParts, Recorded
<1> QED BY <1>7, <1>8, <1>9, <1>10 DEF HonestParts

\* A thread that has its calculator evaluates.
LEMMA CallHonest ==
    ASSUME JournalInv, HonestInv, Honest', NEW r \in Roles, NEW w \in Threads, Call(r, w)
    PROVE  HonestParts'
<1> DEFINE t == [thread[r][w] EXCEPT !.at = "calling", !.calculator = thread[r][w].calculator]
<1>1. /\ thread[r][w].at = "counted" /\ SetThread(r, w, t)
      /\ UNCHANGED <<journal, sequence, attempts, pc, batch, queue, failed, batches, faults>>
  BY DEF Call, Evaluates, ledger
<1>2. Working(r) /\ thread[r][w] \in ThreadStates /\ thread[r][w].calculator \in Int
  BY <1>1, BusyThread, ThreadType
<1>3. /\ t \in ThreadStates /\ t.at = "calling" /\ t.item = thread[r][w].item /\ t.last = thread[r][w].last
      /\ t.attempt = thread[r][w].attempt
  BY <1>2 DEF ThreadStates
<1> HIDE DEF t
<1>4. Moved(r, w, t)
  BY <1>1, <1>3, ThreadMoved
<1>5. HonestParts /\ Adds(NoRow) /\ NoRow.kind = "none" /\ NoRow.kind \in ThreadKinds
  BY <1>1, HonestSame DEF HonestInv, NoRow, ThreadKinds
<1>6. OnRecord' /\ OpenBatches' /\ OpenSlots' /\ OpenOracles'
  BY <1>1, <1>2, <1>5, EvaluationHonest
<1>7. Divided'
  BY <1>1, <1>2, <1>3, <1>4, <1>5, DividedGoesOn
<1>8. OpenAttempts'
  <2>1. \A s \in Roles, v \in Threads :
            /\ Attempting(s, v)' <=> Attempting(s, v)
            /\ Attempting(s, v) => /\ thread'[s][v].item = thread[s][v].item
                                   /\ thread'[s][v].attempt = thread[s][v].attempt
    BY <1>1, <1>3, <1>4 DEF Moved, Attempting
  <2> QED BY <1>1, <1>5, <2>1, OpenAttemptsStay DEF HonestParts
<1>9. Recorded'
  BY <1>1, <1>5 DEF HonestParts, Recorded
<1> QED BY <1>6, <1>7, <1>8, <1>9 DEF HonestParts

\* Chunks that no thread has taken are dropped after a failure.
LEMMA CancelChunksHonest ==
    ASSUME JournalInv, HonestInv, Honest', NEW r \in Roles, CancelChunks(r)
    PROVE  HonestParts'
<1>1. /\ Working(r) /\ failed[r] /\ queue' = [queue EXCEPT ![r] = <<>>]
      /\ UNCHANGED <<journal, sequence, attempts, pc, batch, thread, failed, batches, faults>>
  BY DEF CancelChunks, ledger
<1>2. HonestParts /\ Adds(NoRow) /\ NoRow.kind = "none" /\ NoRow.kind \in ThreadKinds
  BY <1>1, HonestSame DEF HonestInv, NoRow, ThreadKinds
<1>3. OnRecord' /\ OpenBatches' /\ OpenSlots' /\ OpenOracles'
  BY <1>1, <1>2, EvaluationHonest
<1>4. Divided'
  <2>1. queue'[r] = <<>> /\ DOMAIN queue'[r] = {}
    BY <1>1, TypedArrays
  <2>2. ThreadsApart(thread[r], queue[r], batch[r].size) /\ StartedOnce(journal, batches, thread[r], queue[r])
    BY <1>1, <1>2, DividedBatch
  <2>3. QueueOrdered(queue'[r], batch[r].size)
    BY <2>1 DEF QueueOrdered
  <2>4. ThreadsApart(thread'[r], queue'[r], batch[r].size)
    BY <1>1, <2>1, <2>2 DEF ThreadsApart
  <2>5. StartedOnce(journal', batches, thread'[r], queue'[r])
    BY <1>1, <2>1, <2>2 DEF StartedOnce
  <2> QED BY <1>1, <1>2, <2>3, <2>4, <2>5, DividedBatch
<1>5. OpenAttempts'
  <2>1. \A s \in Roles, v \in Threads : Attempting(s, v)' <=> Attempting(s, v)
    BY <1>1 DEF Attempting
  <2> QED BY <1>1, <1>2, <2>1, OpenAttemptsStay DEF HonestParts
<1>6. Recorded'
  BY <1>1, <1>2 DEF HonestParts, Recorded
<1> QED BY <1>3, <1>4, <1>5, <1>6 DEF HonestParts

\* A thread begins an attempt of the structure it is at.
LEMMA CountAttemptHonest ==
    ASSUME JournalInv, Premises, HonestInv, Honest', NEW r \in Roles, NEW w \in Threads, NEW o \in Outcomes,
           CountAttempt(r, w, o)
    PROVE  HonestParts'
<1> DEFINE u == thread[r][w]
           t == [u EXCEPT !.at = "counted", !.attempt = attempts]
<1>1. /\ u.at = "item" /\ Write(Row("oracle_attempt_started", r, u.item, attempts, ""), o)
      /\ UNCHANGED <<pc, batch, queue, batches>>
      /\ o = "written" => attempts' = attempts + 1 /\ SetThread(r, w, t) /\ UNCHANGED failed
  BY DEF CountAttempt, Counted
<1>2. /\ Working(r) /\ pc[r] \in InBatch /\ u \in ThreadStates /\ attempts \in Int
      /\ u.item \in Int /\ u.last \in Int
  <2>1. attempts \in Nat
    BY TypedArrays
  <2>2. attempts \in Int
    BY <2>1
  <2> QED BY <1>1, <2>2, BusyThread, ThreadType
<1>3. batch[r].id = batches
  BY <1>2, OracleFacts DEF OracleState
<1>4. t \in ThreadStates /\ t.at = "counted" /\ t.attempt = attempts /\ t.item = u.item /\ t.last = u.last
  BY <1>2 DEF ThreadStates
<1> HIDE DEF t
<1>5. PICK row : Fields(row, "oracle_attempt_started", r, batches, u.item, attempts) /\ Write(row, o)
  <2>1. "oracle_attempt_started" \in Kinds /\ "" \in {""} \cup Stages
    BY DEF Kinds
  <2> QED BY <1>1, <1>2, <1>3, <2>1, RowWritten
<1>6. row \in JournalRows /\ row.kind = "oracle_attempt_started" /\ row.batch = batches /\ row.role = r
      /\ row.index = u.item /\ row.attempt = attempts /\ row.sequence = sequence /\ row.kind \in Kinds
  BY <1>5 DEF Fields, Kinds
<1>7. /\ Honest /\ o = "written" /\ sequence' = sequence + 1 /\ Adds(row)
  BY <1>5, <1>6, HonestWrite
<1>8. HonestParts
  BY <1>7 DEF HonestInv
<1>9. row # NoRow /\ row.kind \in ThreadKinds
  BY <1>6 DEF NoRow, ThreadKinds
<1>10. Moved(r, w, t)
  BY <1>1, <1>4, <1>7, ThreadMoved
<1>11. /\ BatchOnRecord(journal, r, batches, batch[r].size, batch[r].slot, pc[r]) /\ pc[r] = "evaluating"
       /\ Len(journal) = sequence /\ attempts = Cardinality(AttemptStarts(journal))
  BY <1>2, <1>8, BatchRecorded DEF HonestParts, Recorded, Working
<1>12. /\ u.item \in 0 .. batch[r].size - 1 /\ u.item \in u.item .. u.last
       /\ \A s \in BatchAttempts(journal, batches) : journal[s].index # u.item
  <2>1. ThreadsApart(thread[r], queue[r], batch[r].size) /\ StartedOnce(journal, batches, thread[r], queue[r])
    BY <1>1, <1>2, <1>8, DividedBatch
  <2>2. u.item \in 0 .. u.last /\ u.last \in 0 .. batch[r].size - 1
    BY <1>1, <2>1 DEF ThreadsApart
  <2>3. batch[r].size \in Nat
    BY RoleState DEF JournalInv
  <2>4. u.item \in 0 .. batch[r].size - 1 /\ u.item \in u.item .. u.last
    BY <1>2, <2>2, <2>3
  <2>5. Unstarted(u) = u.item .. u.last
    BY <1>1 DEF Unstarted, Ahead
  <2> QED BY <2>1, <2>4, <2>5 DEF StartedOnce
<1>13. Fits(journal, row)
  <2>1. \E b \in BatchStarts(journal) : SameBatch(journal[b], row) /\ row.index \in 0 .. journal[b].index - 1
    <3>1. PICK b \in BatchStarts(journal) : journal[b].batch = batches
      BY <1>11 DEF BatchOnRecord
    <3>2. journal[b].role = r /\ journal[b].index = batch[r].size
      BY <1>11, <3>1 DEF BatchOnRecord
    <3> QED BY <1>6, <1>12, <3>1, <3>2 DEF SameBatch
  <2>2. \A s \in AttemptStarts(journal) : ~(SameBatch(journal[s], row) /\ journal[s].index = row.index)
    BY <1>6, <1>12 DEF BatchAttempts, SameBatch
  <2>3. \A e \in BatchEnds(journal) : journal[e].batch # batches
    BY <1>11 DEF BatchOnRecord
  <2>4. \A b \in BatchStarts(journal) : journal[b].batch = batches /\ Workers[journal[b].role] > 1 =>
            AllReady(journal, batches, ChunkCount(journal[b].index, Workers[journal[b].role]))
    BY <1>11 DEF BatchOnRecord
  <2>5. AttemptMayStart(journal, row)
    BY <1>6, <1>11, <2>1, <2>2, <2>3, <2>4 DEF AttemptMayStart
  <2> QED BY <1>6, <1>11, <2>5 DEF Fits, OracleEndKinds, BatchEndKinds, SlotEndKinds, AttemptEndKinds
<1>14. Recorded'
  BY <1>1, <1>6, <1>7, <1>8, <1>9, <1>13, RecordedInBatch DEF HonestParts
<1>15. OnRecord' /\ OpenBatches' /\ OpenSlots' /\ OpenOracles'
  BY <1>1, <1>2, <1>7, <1>8, <1>9, EvaluationHonest
<1>16. Divided'
  <2>1. Unstarted(t) \subseteq Unstarted(u) /\ Ahead(t) = Ahead(u) /\ u.item \notin Unstarted(t)
    BY <1>1, <1>4 DEF Unstarted, Ahead
  <2> QED BY <1>1, <1>4, <1>6, <1>7, <1>8, <1>9, <1>10, <1>12, <2>1, DividedMove
<1>17. OpenAttempts'
  <2>1. AllAdding(row)
    BY <1>7, RowsAdded
  <2>2. /\ thread'[r][w] = t
        /\ \A s \in Roles, v \in Threads : s # r \/ v # w => thread'[s][v] = thread[s][v]
    BY <1>10 DEF Moved
  <2>3. Attempting(r, w)' /\ Names(row, r, batches, t) /\ ~Attempting(r, w)
    BY <1>1, <1>4, <1>6, <2>2 DEF Attempting, Names
  <2>4. \A s \in Roles, v \in Threads : s # r \/ v # w => (Attempting(s, v)' <=> Attempting(s, v))
    BY <2>2 DEF Attempting
  <2>5. ASSUME NEW s \in AttemptStarts(journal')
        PROVE  \/ \E e \in AttemptEnds(journal') : SameAttempt(journal'[s], journal'[e])
               \/ \E q \in Roles, v \in Threads :
                      Attempting(q, v)' /\ Names(journal'[s], q, batches, thread'[q][v])
    <3>1. CASE journal'[s] = row
      BY <2>2, <2>3, <3>1
    <3>2. CASE s \in AttemptStarts(journal) /\ journal'[s] = journal[s]
      <4>1. CASE \E e \in AttemptEnds(journal) : SameAttempt(journal[s], journal[e])
        BY <2>1, <3>2, <4>1 DEF AllAdding, Adding
      <4>2. CASE \E q \in Roles, v \in Threads :
                     Attempting(q, v) /\ Names(journal[s], q, batches, thread[q][v])
        <5>1. PICK q \in Roles, v \in Threads : Attempting(q, v) /\ Names(journal[s], q, batches, thread[q][v])
          BY <4>2
        <5>2. q # r \/ v # w
          BY <2>3, <5>1
        <5>3. Attempting(q, v)' /\ Names(journal'[s], q, batches, thread'[q][v])
          BY <2>2, <2>4, <3>2, <5>1, <5>2
        <5> QED BY <5>3
      <4> QED BY <1>8, <3>2, <4>1, <4>2 DEF HonestParts, OpenAttempts
    <3> QED BY <2>1, <3>1, <3>2 DEF AllAdding, Adding
  <2>6. ASSUME NEW q \in Roles, NEW v \in Threads, Attempting(q, v)'
        PROVE  \E s \in AttemptStarts(journal') : Names(journal'[s], q, batches, thread'[q][v])
    <3>1. CASE q = r /\ v = w
      <4>1. \E s \in AttemptStarts(journal') : journal'[s] = row
        BY <1>6, <2>1 DEF AllAdding, Adding
      <4> QED BY <2>2, <2>3, <3>1, <4>1
    <3>2. CASE q # r \/ v # w
      <4>1. PICK s \in AttemptStarts(journal) : Names(journal[s], q, batches, thread[q][v])
        BY <1>8, <2>4, <2>6, <3>2 DEF HonestParts, OpenAttempts
      <4>2. s \in AttemptStarts(journal') /\ journal'[s] = journal[s]
        BY <2>1 DEF AllAdding, Adding
      <4> QED BY <2>2, <3>2, <4>1, <4>2
    <3> QED BY <3>1, <3>2
  <2> QED BY <1>1, <2>5, <2>6 DEF OpenAttempts
<1> QED BY <1>14, <1>15, <1>16, <1>17 DEF HonestParts

\* A thread takes its calculator.
LEMMA AcquireHonest ==
    ASSUME JournalInv, Premises, HonestInv, Honest', NEW r \in Roles, NEW w \in Threads, NEW o \in Outcomes,
           Acquire(r, w, o)
    PROVE  HonestParts'
<1> DEFINE c == Head(spare[r])
           t == [thread[r][w] EXCEPT !.at = "calling", !.calculator = c]
<1>1. /\ thread[r][w].at = "counted" /\ spare[r] # <<>>
      /\ Write(Row("calculator_assigned", r, c, -1, ""), o)
      /\ UNCHANGED <<attempts, pc, batch, queue, failed, batches>>
      /\ o = "written" => SetThread(r, w, t)
  BY DEF Acquire, Evaluates, ledger
<1>2. /\ Working(r) /\ pc[r] \in InBatch /\ thread[r][w] \in ThreadStates /\ spare[r] \in Seq(Nat)
  BY <1>1, BusyThread, TypedArrays
<1>3. batch[r].id = batches
  BY <1>2, OracleFacts DEF OracleState
<1>4. c \in Int
  <2>1. c \in Nat
    BY <1>1, <1>2, Taken
  <2> QED BY <2>1
<1>5. /\ t \in ThreadStates /\ t.at = "calling" /\ t.attempt = thread[r][w].attempt
      /\ t.item = thread[r][w].item /\ t.last = thread[r][w].last
  BY <1>2, <1>4 DEF ThreadStates
<1> HIDE DEF t
<1>6. PICK row : Fields(row, "calculator_assigned", r, batches, c, -1) /\ Write(row, o)
  <2>1. PICK m \in Int : m = -1
    OBVIOUS
  <2>2. "calculator_assigned" \in Kinds /\ "" \in {""} \cup Stages
    BY DEF Kinds
  <2> QED BY <1>1, <1>3, <1>4, <2>1, <2>2, RowWritten
<1>7. row \in JournalRows /\ row.kind = "calculator_assigned" /\ row.batch = batches
      /\ row.sequence = sequence /\ row.kind \in Kinds
  BY <1>6 DEF Fields, Kinds
<1>8. /\ Honest /\ o = "written" /\ sequence' = sequence + 1 /\ Adds(row)
  BY <1>6, <1>7, HonestWrite
<1>9. HonestParts
  BY <1>8 DEF HonestInv
<1>10. row # NoRow /\ row.kind \in ThreadKinds /\ row.kind # "oracle_attempt_started"
  BY <1>7 DEF NoRow, ThreadKinds
<1>11. Moved(r, w, t)
  BY <1>1, <1>5, <1>8, ThreadMoved
<1>12. Fits(journal, row)
  <2>1. Len(journal) = sequence
    BY <1>9 DEF HonestParts, Recorded
  <2> QED BY <1>7, <2>1 DEF Fits, OracleEndKinds, BatchEndKinds, SlotEndKinds, AttemptEndKinds
<1>13. Recorded'
  BY <1>1, <1>7, <1>8, <1>9, <1>10, <1>12, RecordedInBatch DEF HonestParts
<1>14. OnRecord' /\ OpenBatches' /\ OpenSlots' /\ OpenOracles'
  BY <1>1, <1>2, <1>8, <1>9, <1>10, EvaluationHonest
<1>15. Divided'
  BY <1>1, <1>5, <1>7, <1>8, <1>9, <1>11, DividedGoesOn
<1>16. OpenAttempts'
  <2>1. \A s \in Roles, v \in Threads :
            /\ Attempting(s, v)' <=> Attempting(s, v)
            /\ Attempting(s, v) => /\ thread'[s][v].item = thread[s][v].item
                                   /\ thread'[s][v].attempt = thread[s][v].attempt
    BY <1>1, <1>5, <1>11 DEF Moved, Attempting
  <2> QED BY <1>1, <1>8, <1>9, <1>10, <2>1, OpenAttemptsStay DEF HonestParts
<1> QED BY <1>13, <1>14, <1>15, <1>16 DEF HonestParts

\* An attempt has its outcome: the row names it, and no row did before.
LEMMA OutcomeHonest ==
    ASSUME JournalInv, Premises, HonestInv, Honest', NEW r \in Roles, NEW w \in Threads,
           NEW kind \in AttemptEndKinds, NEW o \in Outcomes, Resolve(r, w, kind, o), Attempting(r, w)
    PROVE  /\ HonestParts /\ o = "written" /\ Working(r) /\ Recorded'
           /\ \E row : Adds(row) /\ row.kind = kind /\ Names(row, r, batches, thread[r][w])
<1> DEFINE u == thread[r][w]
<1>1. /\ Write(Row(kind, r, u.item, u.attempt, ""), o)
      /\ UNCHANGED <<attempts, batch, batches>>
  BY DEF Resolve
<1>2. /\ Working(r) /\ pc[r] \in InBatch /\ u.item \in Int /\ u.attempt \in Int
      /\ kind \in Kinds /\ "" \in {""} \cup Stages
  <2>1. u.at # "idle"
    BY DEF Attempting
  <2> QED BY <2>1, BusyThread, ThreadType DEF Kinds, AttemptEndKinds
<1>3. batch[r].id = batches
  BY <1>2, OracleFacts DEF OracleState
<1>4. PICK row : Fields(row, kind, r, batches, u.item, u.attempt) /\ Write(row, o)
  BY <1>1, <1>2, <1>3, RowWritten
<1>5. /\ row \in JournalRows /\ row.kind = kind /\ row.batch = batches /\ row.sequence = sequence
      /\ row.attempt = u.attempt /\ row.kind \in Kinds /\ Names(row, r, batches, u)
  BY <1>2, <1>4 DEF Fields, Names
<1>6. /\ Honest /\ o = "written" /\ sequence' = sequence + 1 /\ Adds(row)
  BY <1>4, <1>5, HonestWrite
<1>7. HonestParts
  BY <1>6 DEF HonestInv
<1>8. /\ row # NoRow /\ row.kind # "oracle_attempt_started" /\ row.kind \in AttemptEndKinds
      /\ row.kind \notin OracleEndKinds /\ row.kind \notin BatchEndKinds /\ row.kind \notin SlotEndKinds
      /\ row.kind # "oracle_constructor_started" /\ row.kind # "oracle_batch_started"
      /\ row.kind # "calculator_constructor_started" /\ row.kind # "all_calculators_ready"
  BY <1>5 DEF NoRow, OracleEndKinds, BatchEndKinds, SlotEndKinds, AttemptEndKinds
<1>9. Fits(journal, row)
  <2>1. \E s \in AttemptStarts(journal) : Names(journal[s], r, batches, u)
    BY <1>7 DEF HonestParts, OpenAttempts
  <2>2. \E s \in AttemptStarts(journal) : SameAttempt(journal[s], row)
    BY <1>5, <2>1 DEF Names, SameAttempt
  <2>3. ~AttemptEnded(journal, u.attempt)
    BY DEF JournalInv, AttemptRows
  <2>4. \A e \in AttemptEnds(journal) : ~SameAttempt(journal[e], row)
    BY <1>5, <2>3 DEF AttemptEnded, SameAttempt
  <2>5. Len(journal) = sequence
    BY <1>7 DEF HonestParts, Recorded
  <2> QED BY <1>5, <1>8, <2>2, <2>4, <2>5 DEF Fits
<1>10. Recorded'
  BY <1>1, <1>5, <1>6, <1>7, <1>8, <1>9, RecordedInBatch DEF HonestParts
<1> QED BY <1>2, <1>5, <1>6, <1>7, <1>10

\* The attempt of the thread w ends, and no other.
LEMMA OpenAttemptsEnd ==
    ASSUME OpenAttempts, NEW r \in Roles, NEW w \in Threads, Attempting(r, w), NEW t, Moved(r, w, t),
           t.at \in {"idle", "item"}, batches' = batches,
           NEW row, Adds(row), row.kind \in AttemptEndKinds, Names(row, r, batches, thread[r][w])
    PROVE  OpenAttempts'
<1>1. AllAdding(row) /\ row.kind # "oracle_attempt_started"
  BY RowsAdded DEF AttemptEndKinds
<1>2. /\ \A s \in AttemptStarts(journal') : s \in AttemptStarts(journal) /\ journal'[s] = journal[s]
      /\ \A s \in AttemptStarts(journal) : s \in AttemptStarts(journal') /\ journal'[s] = journal[s]
      /\ \A e \in AttemptEnds(journal) : e \in AttemptEnds(journal') /\ journal'[e] = journal[e]
      /\ \E e \in AttemptEnds(journal') : journal'[e] = row
  BY <1>1 DEF AllAdding, Adding
<1>3. /\ ~Attempting(r, w)'
      /\ \A s \in Roles, v \in Threads : s # r \/ v # w =>
             thread'[s][v] = thread[s][v] /\ (Attempting(s, v)' <=> Attempting(s, v))
  BY DEF Moved, Attempting
<1>4. ASSUME NEW s \in AttemptStarts(journal')
      PROVE  \/ \E e \in AttemptEnds(journal') : SameAttempt(journal'[s], journal'[e])
             \/ \E q \in Roles, v \in Threads :
                    Attempting(q, v)' /\ Names(journal'[s], q, batches, thread'[q][v])
  <2>1. CASE \E e \in AttemptEnds(journal) : SameAttempt(journal[s], journal[e])
    BY <1>2, <2>1
  <2>2. CASE \E q \in Roles, v \in Threads : Attempting(q, v) /\ Names(journal[s], q, batches, thread[q][v])
    <3>1. PICK q \in Roles, v \in Threads : Attempting(q, v) /\ Names(journal[s], q, batches, thread[q][v])
      BY <2>2
    <3>2. CASE q = r /\ v = w
      <4>1. SameAttempt(journal'[s], row)
        BY <1>2, <3>1, <3>2 DEF Names, SameAttempt
      <4> QED BY <1>2, <4>1
    <3>3. CASE q # r \/ v # w
      BY <1>2, <1>3, <3>1, <3>3
    <3> QED BY <3>2, <3>3
  <2> QED BY <1>2, <2>1, <2>2 DEF OpenAttempts
<1>5. ASSUME NEW q \in Roles, NEW v \in Threads, Attempting(q, v)'
      PROVE  \E s \in AttemptStarts(journal') : Names(journal'[s], q, batches, thread'[q][v])
  <2>1. q # r \/ v # w
    BY <1>3, <1>5
  <2>2. PICK s \in AttemptStarts(journal) : Names(journal[s], q, batches, thread[q][v])
    BY <1>3, <1>5, <2>1 DEF OpenAttempts
  <2> QED BY <1>2, <1>3, <2>1, <2>2
<1> QED BY <1>4, <1>5 DEF OpenAttempts

\* An attempt that raised leaves its thread without a chunk, and the batch failed.
LEMMA ExceptHonest ==
    ASSUME JournalInv, Premises, HonestInv, Honest', NEW r \in Roles, NEW w \in Threads, NEW o \in Outcomes,
           Except(r, w, o)
    PROVE  HonestParts'
<1> DEFINE t == [thread[r][w] EXCEPT !.at = "idle"]
<1>1. PICK kind \in AttemptEndKinds : kind = "oracle_attempt_exception"
  BY DEF AttemptEndKinds
<1>2. /\ Attempting(r, w) /\ thread[r][w].at # "idle" /\ Resolve(r, w, kind, o) /\ SetThread(r, w, t)
      /\ failed' = [failed EXCEPT ![r] = TRUE]
  BY <1>1 DEF Except, Attempting, ChunkRaises
<1>3. UNCHANGED <<pc, batch, queue, batches>>
  BY <1>2 DEF Resolve
<1>4. HonestParts /\ Working(r) /\ Recorded'
  BY <1>2, OutcomeHonest
<1>5. PICK row : Adds(row) /\ row.kind = kind /\ Names(row, r, batches, thread[r][w])
  BY <1>2, OutcomeHonest
<1>6. row.kind \in AttemptEndKinds /\ row.kind \in ThreadKinds /\ row.kind # "oracle_attempt_started"
  BY <1>1, <1>5 DEF ThreadKinds
<1>7. t \in ThreadStates /\ t.at = "idle"
  BY ThreadType DEF ThreadStates
<1> HIDE DEF t
<1>8. Moved(r, w, t)
  BY <1>2, <1>7, ThreadMoved
<1>9. OnRecord' /\ OpenBatches' /\ OpenSlots' /\ OpenOracles'
  BY <1>3, <1>4, <1>5, <1>6, EvaluationHonest
<1>10. OpenAttempts'
  BY <1>2, <1>3, <1>4, <1>5, <1>6, <1>7, <1>8, OpenAttemptsEnd DEF HonestParts
<1>11. Divided'
  <2>1. failed'[r] /\ Unstarted(t) = {}
    BY <1>2, <1>7, TypedArrays DEF Unstarted, Ahead
  <2> QED BY <1>2, <1>3, <1>4, <1>5, <1>6, <1>7, <1>8, <2>1, DividedMove
<1> QED BY <1>4, <1>9, <1>10, <1>11 DEF HonestParts

\* An attempt that returned leaves its structure evaluated.
LEMMA ReturnHonest ==
    ASSUME JournalInv, Premises, HonestInv, Honest', NEW r \in Roles, NEW w \in Threads, NEW o \in Outcomes,
           Return(r, w, o)
    PROVE  HonestParts'
<1>1. PICK kind \in AttemptEndKinds : kind = "oracle_attempt_returned"
  BY DEF AttemptEndKinds
<1>2. Attempting(r, w) /\ thread[r][w].at = "calling" /\ Resolve(r, w, kind, o)
  BY <1>1 DEF Return, Attempting
<1>3. UNCHANGED <<pc, batch, queue, batches>>
  BY <1>2 DEF Resolve
<1>4. HonestParts /\ Working(r) /\ Recorded' /\ o = "written"
  BY <1>2, OutcomeHonest
<1>5. PICK row : Adds(row) /\ row.kind = kind /\ Names(row, r, batches, thread[r][w])
  BY <1>2, OutcomeHonest
<1>6. row.kind \in AttemptEndKinds /\ row.kind \in ThreadKinds /\ row.kind # "oracle_attempt_started"
  BY <1>1, <1>5 DEF ThreadKinds
<1>7. PICK u : u = thread[r][w]
  OBVIOUS
<1>8. u \in ThreadStates /\ u.item \in Int /\ u.last \in Int /\ u.item <= u.last
  <2>1. u \in ThreadStates /\ u.item \in Int /\ u.last \in Int
    BY <1>7, ThreadType
  <2>2. ThreadsApart(thread[r], queue[r], batch[r].size)
    BY <1>3, <1>4, DividedBatch
  <2>3. u.item \in 0 .. u.last
    BY <1>2, <1>7, <2>2 DEF ThreadsApart
  <2> QED BY <2>1, <2>3
<1>9. PICK t : t = NextItem(u)
  OBVIOUS
<1>10. /\ t \in ThreadStates /\ t.at \in {"idle", "item"}
       /\ t.at # "idle" => t.last = u.last /\ t.item \in u.item .. u.last
       /\ Unstarted(t) \subseteq Unstarted(u)
       /\ \A i \in Ahead(u) : i \in Ahead(t) \/ i = u.item
  <2>1. Unstarted(u) = (u.item .. u.last) \ {u.item} /\ Ahead(u) = u.item .. u.last
    BY <1>2, <1>7 DEF Unstarted, Ahead
  <2>2. CASE u.item < u.last
    <3>1. u.item + 1 \in Int
      BY <1>8
    <3>2. t = [u EXCEPT !.at = "item", !.item = u.item + 1]
      BY <1>9, <2>2 DEF NextItem
    <3>3. t \in ThreadStates /\ t.at = "item" /\ t.item = u.item + 1 /\ t.last = u.last
      BY <1>8, <3>1, <3>2 DEF ThreadStates
    <3>4. Unstarted(t) = u.item + 1 .. u.last /\ Ahead(t) = u.item + 1 .. u.last
      BY <3>3 DEF Unstarted, Ahead
    <3>5. u.item + 1 \in u.item .. u.last
      BY <1>8, <2>2
    <3>6. \A i \in u.item + 1 .. u.last : i \in u.item .. u.last /\ i # u.item
      BY <1>8
    <3>7. \A i \in u.item .. u.last : i \in u.item + 1 .. u.last \/ i = u.item
      BY <1>8
    <3> QED BY <2>1, <3>3, <3>4, <3>5, <3>6, <3>7
  <2>3. CASE ~(u.item < u.last)
    <3>1. t = [u EXCEPT !.at = "idle"]
      BY <1>9, <2>3 DEF NextItem
    <3>2. t \in ThreadStates /\ t.at = "idle"
      BY <1>8, <3>1 DEF ThreadStates
    <3>3. Unstarted(t) = {}
      BY <3>2 DEF Unstarted, Ahead
    <3>4. \A i \in u.item .. u.last : i = u.item
      BY <1>8, <2>3
    <3> QED BY <2>1, <3>2, <3>3, <3>4
  <2> QED BY <2>2, <2>3
<1>11. Moved(r, w, t) /\ UNCHANGED failed
  BY <1>4, <1>7, <1>9, <1>10, ThreadMoved DEF Return
<1>12. OnRecord' /\ OpenBatches' /\ OpenSlots' /\ OpenOracles'
  BY <1>3, <1>4, <1>5, <1>6, EvaluationHonest
<1>13. OpenAttempts'
  BY <1>2, <1>3, <1>4, <1>5, <1>6, <1>10, <1>11, OpenAttemptsEnd DEF HonestParts
<1>14. Evaluated(journal', batches, u.item)
  <2>1. AllAdding(row)
    BY <1>5, RowsAdded
  <2>2. PICK s \in AttemptStarts(journal) : Names(journal[s], r, batches, u)
    BY <1>2, <1>4, <1>7 DEF HonestParts, OpenAttempts
  <2>3. s \in AttemptStarts(journal') /\ journal'[s] = journal[s]
    BY <2>1, <2>2 DEF AllAdding, Adding
  <2>4. PICK e \in Rows(journal', {"oracle_attempt_returned"}) : journal'[e] = row
    BY <1>1, <1>5, <2>1 DEF AllAdding, Adding
  <2>5. SameAttempt(journal'[s], journal'[e]) /\ journal'[s].index = u.item /\ journal'[s].batch = batches
    BY <1>5, <1>7, <2>2, <2>3, <2>4 DEF Names, SameAttempt
  <2> QED BY <2>3, <2>5 DEF Evaluated, BatchAttempts
<1>15. Divided'
  <2>1. ~failed'[r] => ~failed[r] /\ \A i \in Ahead(u) : i \in Ahead(t) \/ Evaluated(journal', batches, i)
    BY <1>10, <1>11, <1>14
  <2> QED BY <1>2, <1>3, <1>4, <1>5, <1>6, <1>7, <1>10, <1>11, <2>1, DividedMove
<1> QED BY <1>4, <1>12, <1>13, <1>15 DEF HonestParts

-----------------------------------------------------------------------------
(* The end of a batch *)

\* Nobody has an attempt when the batch of r has joined its threads, or has none.
LEMMA NobodyAttempts ==
    ASSUME JournalInv, HonestParts, NEW r \in Roles, pc[r] \in InBatch, \A w \in Threads : thread[r][w].at = "idle"
    PROVE  /\ \A s \in Roles, w \in Threads : ~Attempting(s, w)
           /\ \A s \in AttemptStarts(journal) : \E e \in AttemptEnds(journal) : SameAttempt(journal[s], journal[e])
<1>1. \A s \in Roles : s # r => ~Working(s)
  BY SoleBatch DEF InBatch, Working
<1>2. \A s \in Roles, w \in Threads : ~Attempting(s, w)
  BY <1>1, NoAttempt DEF Attempting
<1> QED BY <1>2 DEF HonestParts, OpenAttempts

\* A batch that has joined its threads ends.
LEMMA EndBatchHonest ==
    ASSUME JournalInv, HonestParts, NEW r \in Roles, pc[r] \in InBatch, pc[r] # "constructing", EndBatch(r),
           \A w \in Threads : thread[r][w].at = "idle",
           NEW row, Adds(row), row.kind \in BatchEndKinds, row.role = r, row.batch = batches, Fits(journal, row),
           sequence' = sequence + 1, UNCHANGED <<attempts, batches>>
    PROVE  HonestParts'
<1>1. /\ pc' = [pc EXCEPT ![r] = "idle"] /\ batch' = [batch EXCEPT ![r] = NoBatch]
      /\ thread' = [thread EXCEPT ![r] = [w \in Threads |-> IdleThread]]
  BY DEF EndBatch
<1>2. /\ pc'[r] = "idle" /\ \A s \in Roles : s # r => pc'[s] = pc[s] /\ pc[s] \notin InBatch \cup {"making"}
      /\ pc[r] # "making"
  BY <1>1, TypedArrays, SoleBatch DEF InBatch
<1>3. \A s \in Roles : /\ pc'[s] \notin InBatch /\ ~Working(s)' /\ pc[s] # "constructing" /\ pc[s] # "making"
                       /\ (pc'[s] = "absent" => pc[s] = "absent")
  BY <1>2 DEF InBatch, Working
<1>4. /\ row # NoRow /\ row.kind # "oracle_attempt_started" /\ row.kind # "oracle_batch_started"
      /\ row.kind # "calculator_constructor_started" /\ row.kind # "oracle_constructor_started"
  BY DEF NoRow, BatchEndKinds
<1>5. AllAdding(row)
  BY RowsAdded
<1>6. Recorded'
  <2>1. batches \in Nat /\ batch \in [Roles -> [id : Nat, size : Nat, slot : Nat]]
    BY TypedArrays
  <2>2. batches <= batches /\ 0 <= batches
    BY <2>1
  <2>3. batch'[r].id = 0 /\ \A s \in Roles : s # r => batch'[s] = batch[s]
    BY <1>1, <2>1 DEF NoBatch
  <2>4. \A s \in Roles : batch'[s].id = batch[s].id \/ batch'[s].id <= batches'
    BY <2>2, <2>3
  <2> QED BY <1>4, <2>2, <2>4, RecordedStays DEF HonestParts
<1>7. OnRecord' /\ Divided'
  BY <1>3, NothingDivided DEF OnRecord
<1>8. OpenBatches'
  <2> SUFFICES ASSUME NEW s \in BatchStarts(journal')
               PROVE  \E e \in BatchEnds(journal') : SameBatch(journal'[s], journal'[e])
    BY DEF OpenBatches
  <2>1. s \in BatchStarts(journal) /\ journal'[s] = journal[s]
    BY <1>4, <1>5 DEF AllAdding, Adding
  <2>2. CASE \E e \in BatchEnds(journal) : SameBatch(journal[s], journal[e])
    BY <1>5, <2>1, <2>2 DEF AllAdding, Adding
  <2>3. CASE journal[s].batch = batches
    <3>1. journal[s].role = r
      BY <2>1, <2>3, BatchRecorded DEF BatchOnRecord
    <3>2. \E e \in BatchEnds(journal') : journal'[e] = row
      BY <1>5 DEF AllAdding, Adding
    <3> QED BY <2>1, <2>3, <3>1, <3>2 DEF SameBatch
  <2> QED BY <2>1, <2>2, <2>3 DEF HonestParts, OpenBatches
<1>9. OpenSlots' /\ OpenOracles'
  BY <1>3, <1>4, OpenSlotsStay, OpenOraclesStay DEF HonestParts
<1>10. OpenAttempts'
  <2>1. \A s \in Roles, w \in Threads : ~Attempting(s, w)
    BY NobodyAttempts
  <2>2. /\ \A w \in Threads : thread'[r][w].at = "idle"
        /\ \A s \in Roles : s # r => thread'[s] = thread[s]
    BY <1>1, TypedArrays DEF IdleThread
  <2>3. \A s \in Roles, w \in Threads : ~Attempting(s, w)'
    BY <2>1, <2>2 DEF Attempting
  <2> QED BY <1>4, <2>1, <2>3, OpenAttemptsStay DEF HonestParts
<1> QED BY <1>6, <1>7, <1>8, <1>9, <1>10 DEF HonestParts

\* A set of rows with the indices 0 .. n - 1, each once, has n rows.
LEMMA IndexedRows ==
    ASSUME NEW j, NEW S, NEW n \in Nat, \A s \in S : j[s].index \in 0 .. n - 1,
           \A s, t \in S : j[s].index = j[t].index => s = t,
           \A i \in 0 .. n - 1 : \E s \in S : j[s].index = i
    PROVE  Cardinality(S) = n
<1>1. IsFiniteSet(0 .. n - 1) /\ Cardinality(0 .. n - 1) = n
  <2>1. PICK m \in Int : m = n - 1
    OBVIOUS
  <2>2. /\ IsFiniteSet(0 .. m)
        /\ Cardinality(0 .. m) = IF 0 > m THEN 0 ELSE m - 0 + 1
    BY FS_Interval
  <2>3. (IF 0 > m THEN 0 ELSE m - 0 + 1) = n
    BY <2>1
  <2> QED BY <2>1, <2>2, <2>3
<1>2. PICK f : f = [s \in S |-> j[s].index]
  OBVIOUS
<1>3. f \in Injection(S, 0 .. n - 1) /\ f \in Surjection(S, 0 .. n - 1)
  BY <1>2 DEF Injection, Surjection, IsInjective
<1> QED BY <1>1, <1>3, FS_Injection

\* A batch of which no chunk raised has an attempt that returned of each of its structures.
LEMMA FinishBatchHonest ==
    ASSUME JournalInv, Premises, HonestInv, Honest', NEW r \in Roles, NEW o \in Outcomes, FinishBatch(r, o)
    PROVE  HonestParts'
<1>1. /\ Working(r) /\ queue[r] = <<>> /\ \A w \in Threads : thread[r][w].at = "idle"
      /\ ~failed[r] /\ Write(Row("oracle_batch_finished", r, batch[r].size, -1, ""), o) /\ EndBatch(r)
      /\ UNCHANGED <<attempts, batches>>
  BY DEF FinishBatch, Joined, ledger
<1>2. pc[r] \in InBatch /\ pc[r] # "constructing" /\ batch[r].id = batches
  <2>1. pc[r] \in InBatch /\ pc[r] # "constructing"
    BY <1>1 DEF InBatch, Working
  <2> QED BY <2>1, OracleFacts DEF OracleState
<1>3. batch[r].size \in Nat /\ batch[r].size \in Int
  <2>1. batch[r].size \in Nat
    BY RoleState DEF JournalInv
  <2>2. batch[r].size \in Int
    BY <2>1
  <2> QED BY <2>1, <2>2
<1>4. PICK row : Fields(row, "oracle_batch_finished", r, batches, batch[r].size, -1) /\ Write(row, o)
  <2>1. PICK m \in Int : m = -1
    OBVIOUS
  <2>2. "oracle_batch_finished" \in Kinds /\ "" \in {""} \cup Stages
    BY DEF Kinds
  <2> QED BY <1>1, <1>2, <1>3, <2>1, <2>2, RowWritten
<1>5. row \in JournalRows /\ row.kind = "oracle_batch_finished" /\ row.batch = batches /\ row.role = r
      /\ row.index = batch[r].size /\ row.sequence = sequence /\ row.kind \in Kinds
  BY <1>4 DEF Fields, Kinds
<1>6. /\ Honest /\ o = "written" /\ sequence' = sequence + 1 /\ Adds(row)
  BY <1>4, <1>5, HonestWrite
<1>7. HonestParts
  BY <1>6 DEF HonestInv
<1>8. BatchOnRecord(journal, r, batches, batch[r].size, batch[r].slot, pc[r]) /\ Len(journal) = sequence
  BY <1>2, <1>7, BatchRecorded
<1>9. \A i \in 0 .. batch[r].size - 1 : Evaluated(journal, batches, i)
  <2>1. Covered(journal, batches, thread[r], queue[r], batch[r].size)
    BY <1>1, <1>7 DEF HonestParts, Divided
  <2>2. \A w \in Threads : Ahead(thread[r][w]) = {}
    BY <1>1 DEF Ahead
  <2>3. PICK q : q = queue[r]
    OBVIOUS
  <2>4. q = <<>>
    BY <1>1, <2>3
  <2>5. DOMAIN q = {}
    BY <2>4
  <2> QED BY <2>1, <2>2, <2>3, <2>5 DEF Covered
<1> DEFINE A == BatchAttempts(journal, batches)
<1>10. /\ \A s \in A : journal[s].index \in 0 .. batch[r].size - 1
       /\ \A s, t \in A : journal[s].index = journal[t].index => s = t
  <2>1. AttemptsIdentified(journal)
    BY <1>7 DEF HonestParts, Recorded, Valid
  <2>2. ASSUME NEW s \in A
        PROVE  journal[s].index \in 0 .. batch[r].size - 1 /\ journal[s].role = r /\ journal[s].batch = batches
    <3>1. s \in AttemptStarts(journal) /\ journal[s].batch = batches
      BY DEF BatchAttempts
    <3>2. PICK b \in BatchStarts(journal) :
              SameBatch(journal[b], journal[s]) /\ journal[s].index \in 0 .. journal[b].index - 1
      BY <2>1, <3>1 DEF AttemptsIdentified
    <3>3. journal[b].role = r /\ journal[b].index = batch[r].size
      BY <1>8, <3>1, <3>2 DEF BatchOnRecord, SameBatch
    <3> QED BY <3>1, <3>2, <3>3 DEF SameBatch
  <2>3. ASSUME NEW s \in A, NEW t \in A, journal[s].index = journal[t].index PROVE s = t
    <3>1. s \in AttemptStarts(journal) /\ t \in AttemptStarts(journal) /\ SameBatch(journal[s], journal[t])
      BY <2>2 DEF BatchAttempts, SameBatch
    <3> QED BY <2>1, <2>3, <3>1 DEF AttemptsIdentified
  <2> QED BY <2>2, <2>3
<1>11. \A i \in 0 .. batch[r].size - 1 : \E s \in A : journal[s].index = i
  BY <1>9 DEF Evaluated
<1>12. Cardinality(A) = batch[r].size
  BY <1>3, <1>10, <1>11, IndexedRows
<1>13. \A s \in A : \E e \in AttemptEnds(journal) :
           SameAttempt(journal[s], journal[e]) /\ journal[e].kind = "oracle_attempt_returned"
  <2> TAKE s \in A
  <2>1. PICK t \in A, e \in Rows(journal, {"oracle_attempt_returned"}) :
            journal[t].index = journal[s].index /\ SameAttempt(journal[t], journal[e])
    BY <1>9, <1>10 DEF Evaluated
  <2>2. t = s
    BY <1>10, <2>1
  <2>3. e \in AttemptEnds(journal) /\ journal[e].kind = "oracle_attempt_returned"
    BY <2>1 DEF AttemptEnds, Rows
  <2> QED BY <2>1, <2>2, <2>3
<1>14. BatchMayEnd(journal, row)
  <2>1. \E s \in BatchStarts(journal) : SameBatch(journal[s], row)
    BY <1>5, <1>8 DEF BatchOnRecord, SameBatch
  <2>2. \A e \in BatchEnds(journal) : journal[e].batch # batches
    BY <1>8 DEF BatchOnRecord
  <2>3. \A s \in A : \E e \in AttemptEnds(journal) : SameAttempt(journal[s], journal[e])
    BY <1>13
  <2>4. \A s \in BatchStarts(journal) : journal[s].batch = batches => journal[s].index = batch[r].size
    BY <1>8 DEF BatchOnRecord
  <2> QED BY <1>5, <1>12, <1>13, <2>1, <2>2, <2>3, <2>4 DEF BatchMayEnd
<1>15. row.kind \in BatchEndKinds
  BY <1>5 DEF BatchEndKinds
<1>16. Fits(journal, row)
  BY <1>5, <1>8, <1>14 DEF Fits, OracleEndKinds, SlotEndKinds, AttemptEndKinds
<1> QED BY <1>1, <1>2, <1>5, <1>6, <1>7, <1>15, <1>16, EndBatchHonest

\* A batch that raised has no attempt if it was not evaluated.
LEMMA RaiseBatchHonest ==
    ASSUME JournalInv, Premises, HonestInv, Honest', NEW r \in Roles, NEW o \in Outcomes, NEW stage \in Stages,
           RaiseBatch(r, stage, o)
    PROVE  HonestParts'
<1>1. /\ \/ pc[r] \in {"raising-identity", "raising-construction"}
         \/ stage = "evaluation" /\ Working(r) /\ \A w \in Threads : thread[r][w].at = "idle"
      /\ Write(Row("oracle_batch_exception", r, -1, -1, stage), o) /\ EndBatch(r)
      /\ UNCHANGED <<attempts, batches>>
  BY DEF RaiseBatch, Joined, ledger, Stages
<1>2. /\ pc[r] \in InBatch /\ pc[r] # "constructing" /\ batch[r].id = batches
      /\ stage # "evaluation" => pc[r] # "evaluating"
  <2>1. /\ pc[r] \in InBatch /\ pc[r] # "constructing"
        /\ stage # "evaluation" => pc[r] # "evaluating"
    BY <1>1 DEF InBatch, Working
  <2> QED BY <2>1, OracleFacts DEF OracleState
<1>3. \A w \in Threads : thread[r][w].at = "idle"
  <2>1. CASE pc[r] \in {"raising-identity", "raising-construction"}
    BY <2>1, NoAttempt DEF Working
  <2> QED BY <1>1, <2>1
<1>4. PICK row : /\ Fields(row, "oracle_batch_exception", r, batches, -1, -1) /\ Write(row, o)
                 /\ row.stage = stage
  <2>1. PICK m \in Int : m = -1
    OBVIOUS
  <2>2. "oracle_batch_exception" \in Kinds /\ stage \in {""} \cup Stages /\ JournalTyped
    BY DEF Kinds, JournalInv
  <2>3. Fields(Row("oracle_batch_exception", r, m, m, stage), "oracle_batch_exception", r, batches, m, m)
    BY <1>2, <2>2, RowFields
  <2>4. Row("oracle_batch_exception", r, m, m, stage).stage = stage
    BY DEF Row
  <2> QED BY <1>1, <2>1, <2>3, <2>4
<1>5. row \in JournalRows /\ row.kind = "oracle_batch_exception" /\ row.batch = batches /\ row.role = r
      /\ row.sequence = sequence /\ row.kind \in Kinds
  BY <1>4 DEF Fields, Kinds
<1>6. /\ Honest /\ o = "written" /\ sequence' = sequence + 1 /\ Adds(row)
  BY <1>4, <1>5, HonestWrite
<1>7. HonestParts
  BY <1>6 DEF HonestInv
<1>8. BatchOnRecord(journal, r, batches, batch[r].size, batch[r].slot, pc[r]) /\ Len(journal) = sequence
  BY <1>2, <1>7, BatchRecorded
<1>9. BatchMayEnd(journal, row)
  <2>1. \E s \in BatchStarts(journal) : SameBatch(journal[s], row)
    BY <1>5, <1>8 DEF BatchOnRecord, SameBatch
  <2>2. \A e \in BatchEnds(journal) : journal[e].batch # batches
    BY <1>8 DEF BatchOnRecord
  <2>3. \A s \in BatchAttempts(journal, batches) : \E e \in AttemptEnds(journal) : SameAttempt(journal[s], journal[e])
    BY <1>2, <1>3, <1>7, NobodyAttempts DEF BatchAttempts
  <2>4. stage # "evaluation" => BatchAttempts(journal, batches) = {}
    BY <1>2, <1>8 DEF BatchOnRecord
  <2> QED BY <1>4, <1>5, <2>1, <2>2, <2>3, <2>4 DEF BatchMayEnd
<1>10. row.kind \in BatchEndKinds
  BY <1>5 DEF BatchEndKinds
<1>11. Fits(journal, row)
  BY <1>5, <1>8, <1>9 DEF Fits, OracleEndKinds, SlotEndKinds, AttemptEndKinds
<1> QED BY <1>1, <1>2, <1>3, <1>5, <1>6, <1>7, <1>10, <1>11, EndBatchHonest

-----------------------------------------------------------------------------
(* Every step, and what follows *)

\* A death leaves a torn row, so no honest journal.
LEMMA DieTears == ASSUME JournalInv, Premises, Die PROVE ~Honest'
<1>1. PICK r \in Roles : r = CHOOSE q \in Roles : TRUE
  BY DEF Premises, JournalAssumption
<1>2. Len(journal) \in Nat /\ journal \in Seq(JournalRows)
  BY DEF JournalInv, JournalTyped
<1>3. PICK row : row = Plain("torn", r)
  OBVIOUS
<1>4. row.kind = "torn" /\ journal' = Append(journal, row)
  BY <1>1, <1>3 DEF Die, Plain, Row
<1>5. Len(journal) + 1 \in DOMAIN journal' /\ journal'[Len(journal) + 1] = row
  BY <1>2, <1>4
<1>6. Len(journal) + 1 \in Rows(journal', {"torn"})
  BY <1>4, <1>5 DEF Rows
<1> QED BY <1>6 DEF Honest

\* The adapter begins with an empty journal.
LEMMA HonestInit == ASSUME Premises, Init PROVE HonestInv
<1>1. /\ journal = <<>> /\ sequence = 0 /\ attempts = 0 /\ batches = 0
      /\ pc = [r \in Roles |-> "absent"] /\ batch = [r \in Roles |-> NoBatch]
      /\ thread = [r \in Roles |-> [w \in Threads |-> IdleThread]]
  BY DEF Init
<1>2. \A K : Rows(journal, K) = {}
  BY <1>1 DEF Rows
<1>3. /\ AttemptStarts(journal) = {} /\ AttemptEnds(journal) = {} /\ BatchStarts(journal) = {}
      /\ BatchEnds(journal) = {} /\ OracleStarts(journal) = {} /\ OracleEnds(journal) = {}
      /\ SlotStarts(journal) = {} /\ SlotEnds(journal) = {} /\ Rows(journal, {"all_calculators_ready"}) = {}
  BY <1>2 DEF AttemptStarts, AttemptEnds, BatchStarts, BatchEnds, OracleStarts, OracleEnds, SlotStarts, SlotEnds
<1>4. /\ \A r \in Roles : pc[r] = "absent" /\ batch[r].id = 0
      /\ \A r \in Roles, w \in Threads : ~Attempting(r, w)
  BY <1>1 DEF NoBatch, IdleThread, Attempting
<1>5. Recorded
  <2>1. DOMAIN journal = {} /\ Len(journal) = 0
    BY <1>1
  <2>2. KnownRows(journal)
    BY <2>1 DEF KnownRows
  <2>3. /\ Paired(journal, BatchStarts(journal), BatchEnds(journal), SameBatch)
        /\ Paired(journal, OracleStarts(journal), OracleEnds(journal), SameOracle)
        /\ Paired(journal, SlotStarts(journal), SlotEnds(journal), SameSlot)
        /\ Paired(journal, AttemptStarts(journal), AttemptEnds(journal), SameAttempt)
    BY <1>3 DEF Paired
  <2>4. AttemptsIdentified(journal) /\ SlotsIdentified(journal) /\ BatchesJoined(journal) /\ PhasesApart(journal)
    BY <1>3 DEF AttemptsIdentified, SlotsIdentified, BatchesJoined, PhasesApart
  <2>5. Cardinality(AttemptStarts(journal)) = 0
    BY <1>3, FS_EmptySet
  <2>6. \A r \in Roles : batch[r].id <= batches
    BY <1>1, <1>4
  <2> QED BY <1>1, <2>1, <2>2, <2>3, <2>4, <2>5, <2>6 DEF Recorded, Valid
<1>6. OnRecord /\ Divided
  BY <1>4 DEF OnRecord, Divided, InBatch, Working
<1>7. OpenBatches /\ OpenSlots /\ OpenOracles /\ OpenAttempts
  BY <1>3, <1>4 DEF OpenBatches, OpenSlots, OpenOracles, OpenAttempts, OracleStarted
<1> QED BY <1>5, <1>6, <1>7 DEF HonestInv, HonestParts

\* A step of an oracle keeps what is known of an honest journal.
LEMMA OracleStepHonest ==
    ASSUME JournalInv, Premises, HonestInv, NEW r \in Roles, OracleStep(r) PROVE HonestInv'
<1> SUFFICES ASSUME Honest' PROVE HonestParts'
  BY DEF HonestInv
<1>1. CASE \E o \in Outcomes : BeginOracle(r, o)
  BY <1>1, BeginOracleHonest
<1>2. CASE \E o \in Outcomes, ok \in BOOLEAN : EndOracle(r, ok, o)
  BY <1>2, EndOracleHonest
<1>3. CASE \E o \in Outcomes, ok \in BOOLEAN : EndCalculator(r, ok, o)
  BY <1>3, EndCalculatorHonest
<1>4. CASE \E o \in Outcomes : \E size \in {b[2] : b \in UNION Range(Work)} : BeginBatch(r, size, o)
  BY <1>4, BeginBatchHonest
<1>5. CASE \E o \in Outcomes : BeginCalculator(r, o)
  BY <1>5, BeginCalculatorHonest
<1>6. CASE \E o \in Outcomes : CalculatorsReady(r, o)
  BY <1>6, CalculatorsReadyHonest
<1>7. CASE \E o \in Outcomes : FinishBatch(r, o)
  BY <1>7, FinishBatchHonest
<1>8. CASE \E o \in Outcomes : \E stage \in Stages : RaiseBatch(r, stage, o)
  BY <1>8, RaiseBatchHonest
<1>9. CASE IdentityRaises(r)
  BY <1>9, IdentityRaisesHonest
<1>10. CASE EvaluateSerially(r)
  BY <1>10, EvaluateSeriallyHonest
<1>11. CASE CancelChunks(r)
  BY <1>11, CancelChunksHonest
<1> QED BY <1>1, <1>2, <1>3, <1>4, <1>5, <1>6, <1>7, <1>8, <1>9, <1>10, <1>11 DEF OracleStep

\* A step of a worker thread keeps it.
LEMMA ThreadStepHonest ==
    ASSUME JournalInv, Premises, HonestInv, NEW r \in Roles, NEW w \in Threads, ThreadStep(r, w)
    PROVE  HonestInv'
<1> SUFFICES ASSUME Honest' PROVE HonestParts'
  BY DEF HonestInv
<1> QED BY TakeChunkHonest, CallHonest, CountAttemptHonest, AcquireHonest, ReturnHonest, ExceptHonest
        DEF ThreadStep

\* Nothing left to do.
LEMMA RestHonest == ASSUME HonestInv, UNCHANGED vars PROVE HonestInv'
<1>1. UNCHANGED <<journal, sequence, attempts, pc, batch, queue, thread, failed, batches, faults>>
  BY DEF vars, ledger, work
<1>2. Honest' <=> Honest
  BY <1>1 DEF Honest
<1>3. HonestParts => HonestParts'
  <2>1. Recorded => Recorded'
    BY <1>1 DEF Recorded
  <2>2. OnRecord => OnRecord'
    BY <1>1 DEF OnRecord
  <2>3. (OpenBatches => OpenBatches') /\ (OpenSlots => OpenSlots') /\ (OpenOracles => OpenOracles')
    BY <1>1 DEF OpenBatches, OpenSlots, OpenOracles
  <2>4. OpenAttempts => OpenAttempts'
    BY <1>1 DEF OpenAttempts, Attempting
  <2>5. Divided => Divided'
    BY <1>1 DEF Divided, Working
  <2> QED BY <2>1, <2>2, <2>3, <2>4, <2>5 DEF HonestParts
<1> QED BY <1>2, <1>3 DEF HonestInv

\* What the parts say: the journal is valid, and closed when nobody holds the lock.
LEMMA AcceptedFollows == ASSUME JournalInv, Premises, HonestInv PROVE HonestJournalAccepted
<1> SUFFICES ASSUME Honest PROVE Valid(journal) /\ (lifecycle = Nobody => Closed(journal))
  BY DEF HonestJournalAccepted, Honest
<1>1. HonestParts /\ Valid(journal)
  BY DEF HonestInv, HonestParts, Recorded
<1>2. ASSUME lifecycle = Nobody PROVE Closed(journal)
  <2>1. Nobody \notin Roles
    BY DEF Premises, JournalAssumption
  <2>2. \A r \in Roles : pc[r] \notin InBatch \cup {"making"}
    BY <1>2, <2>1, OracleFacts DEF OracleState
  <2>3. \A r \in Roles, w \in Threads : ~Attempting(r, w)
    BY <2>2, NoAttempt DEF Working, InBatch
  <2>4. \A r \in Roles : pc[r] \notin InBatch /\ pc[r] # "constructing" /\ pc[r] # "making"
    BY <2>2 DEF InBatch
  <2>5. Resolved(journal, AttemptStarts(journal), AttemptEnds(journal), SameAttempt)
    BY <1>1, <2>3 DEF HonestParts, OpenAttempts, Resolved
  <2>6. Resolved(journal, SlotStarts(journal), SlotEnds(journal), SameSlot)
    BY <1>1, <2>4 DEF HonestParts, OpenSlots, Resolved, SlotEnded, SameSlot
  <2>7. Resolved(journal, OracleStarts(journal), OracleEnds(journal), SameOracle)
    BY <1>1, <2>4 DEF HonestParts, OpenOracles, Resolved, OracleEnded, SameOracle
  <2>8. Resolved(journal, BatchStarts(journal), BatchEnds(journal), SameBatch)
    BY <1>1, <2>4 DEF HonestParts, OpenBatches, Resolved
  <2> QED BY <1>1, <2>5, <2>6, <2>7, <2>8 DEF Closed
<1> QED BY <1>1, <1>2

\* As long as no write raises and the process lives, the audit accepts the
\* journal whatever fails in the constructors, the identities and the
\* evaluations of whichever threads, and it is closed whenever the lifecycle
\* lock is free: batch_evaluate writes an outcome for all it began.
THEOREM HonestStaysAccepted == Spec => []HonestJournalAccepted
<1>1. Premises
  BY WorkersAssumption, JournalAssumption DEF Premises
<1>2. Init => HonestInv
  BY <1>1, HonestInit
<1>3. JournalInv /\ HonestInv /\ [Next]_vars => HonestInv'
  <2> SUFFICES ASSUME JournalInv, HonestInv, [Next]_vars PROVE HonestInv'
    OBVIOUS
  <2>1. CASE \E r \in Roles : OracleStep(r)
    BY <1>1, <2>1, OracleStepHonest
  <2>2. CASE \E r \in Roles, w \in Threads : ThreadStep(r, w)
    BY <1>1, <2>2, ThreadStepHonest
  <2>3. CASE Die
    BY <1>1, <2>3, DieTears DEF HonestInv
  <2>4. CASE Rest \/ UNCHANGED vars
    BY <2>4, RestHonest DEF Rest
  <2> QED BY <2>1, <2>2, <2>3, <2>4 DEF Next
<1>4. JournalInv /\ HonestInv => HonestJournalAccepted
  BY <1>1, AcceptedFollows
<1> QED BY <1>2, <1>3, <1>4, JournalKeepsInv, PTL DEF Spec

=============================================================================
