------------------------- MODULE ShardRunnerProofs -------------------------
(***************************************************************************)
(* The invariants of ShardRunner for any number of workers, shards and     *)
(* jobs, both kinds of study, and any number of faults and reruns.         *)
(*                                                                         *)
(* What a worker knows (WorkerOK) and what the files of a shard say        *)
(* (ShardOK) hold each other up; a step of one worker leaves the others'   *)
(* knowledge and the other shards alone (Elsewhere), because two workers   *)
(* never have the same shard open (Alone).                                 *)
(***************************************************************************)
EXTENDS ShardRunner, FiniteSetTheorems, SequenceTheorems, TLAPS

\* A worker that is inside holds the lock.  Its copy is the file, except
\* before it is read and after a finish that raised; at a job it has claimed
\* that job is running and its evidence as far as the steps have come; it
\* publishes only what is complete.
WorkerOK(w) ==
    /\ CopyOK(w)
    /\ pc[w] # "off" => lock[shard[w]] = w
    /\ pc[w] \notin {"off", "open", "halting"} => memory[w] = ledger[shard[w]]
    /\ pc[w] \in Attempting \cup {"halting"} => todo[w] # <<>>
    /\ pc[w] \in Attempting => StateOf(w) = "running"
    /\ pc[w] = "halting" /\ StateOf(w) = "running" => memory[w] = ledger[shard[w]]
    /\ pc[w] \in {"complete", "receipt"} => Complete(memory[w])
    /\ pc[w] = "receipt" => completion[shard[w]] = memory[w]
    /\ pc[w] = "claimed" => evidence[Head1(w)] = "none"
    /\ pc[w] = "rolling" => evidence[Head1(w)] = "started"
    /\ pc[w] = "closed" => evidence[Head1(w)] = "closed"

\* What is published is complete and still what the ledger says; no job with
\* a result has been written off; in the core study one output alone is used;
\* a pending job has left nothing behind, a succeeded one its result.
ShardOK(s) ==
    /\ LedgerOK(s)
    /\ completion[s] # Nothing =>
            ledger[s] # Nothing /\ Complete(ledger[s]) /\ completion[s] = ledger[s]
    /\ receipt[s] # Nothing => completion[s] # Nothing /\ receipt[s] = Pinned(s)
    /\ ledger[s] # Nothing => \A j \in JobsOf(s) : HasResult(j) => ledger[s].jobs[j] # "failed"
    /\ s \notin Active => ledger[s] = Nothing
    /\ s \in Active => \A j \in JobsOf(s) :
            /\ ledger[s] = Nothing \/ ledger[s].jobs[j] = "pending" => evidence[j] = "none"
            /\ ledger[s] # Nothing /\ ledger[s].jobs[j] = "succeeded" => evidence[j] = "result"

IInv ==
    /\ FilesOK /\ ProcessesOK
    /\ \A w \in Workers : WorkerOK(w)
    /\ \A s \in Shards : ShardOK(s)

-----------------------------------------------------------------------------
(* The jobs of the shards *)

\* The order of a shard is a sequence of its jobs, which are jobs of the study.
LEMMA OrderType ==
    ASSUME style \in {"core", "shards"}, NEW s \in Shards
    PROVE  Order(s) \in Seq(JobsOf(s)) /\ JobsOf(s) \in SUBSET Jobs
BY ShardAssumption DEF Order, JobsOf, Core, Jobs

\* No two shards in use have a job in common.
LEMMA Disjoint ==
    ASSUME style \in {"core", "shards"}, NEW s \in Active, NEW t \in Active, s # t
    PROVE  JobsOf(s) \cap JobsOf(t) = {}
BY ShardAssumption DEF Active, Order, JobsOf, Core

\* Every job belongs to a shard in use, the one Owner chooses.
LEMMA OwnerType ==
    ASSUME style \in {"core", "shards"}, NEW j \in Jobs
    PROVE  Owner(j) \in Shards /\ Owner(j) \in Active /\ j \in JobsOf(Owner(j))
<1>1. \E s \in Active : j \in JobsOf(s)
  BY ShardAssumption DEF Active, Order, JobsOf, Core, Jobs
<1>2. Owner(j) \in Active /\ j \in JobsOf(Owner(j))
  BY <1>1 DEF Owner
<1> QED BY <1>2, ShardAssumption DEF Active

\* Shards in use are shards.
LEMMA ActiveType == Active \subseteq Shards
BY ShardAssumption DEF Active

\* A ledger is never the absence of one.
LEMMA BookIsSomething ==
    ASSUME style \in {"core", "shards"}, NEW s \in Shards, NEW book \in Books(JobsOf(s))
    PROVE  book # Nothing
BY OrderType, ShardAssumption

\* An event more and one job moved: still a ledger, the other jobs as before.
LEMMA MovedType ==
    ASSUME NEW jobs, NEW book \in Books(jobs), NEW j \in jobs, NEW state \in States
    PROVE  /\ Moved(book, j, state) \in Books(jobs)
           /\ Moved(book, j, state).jobs[j] = state
           /\ \A k \in jobs \ {j} : Moved(book, j, state).jobs[k] = book.jobs[k]
BY DEF Books, Moved

\* A manifest lists finitely many jobs.
LEMMA JobsFinite == IsFiniteSet(Jobs)
<1>1. CoreOrder \in Seq(Jobs) /\ Jobs = {CoreOrder[i] : i \in DOMAIN CoreOrder}
  BY ShardAssumption DEF Jobs, ToSet
<1>2. DOMAIN CoreOrder = 1 .. Len(CoreOrder) /\ Len(CoreOrder) \in Nat
  BY <1>1
<1>3. IsFiniteSet(DOMAIN CoreOrder)
  BY <1>2, FS_Interval
<1>4. CoreOrder \in Surjection(DOMAIN CoreOrder, Jobs)
  BY <1>1, <1>2 DEF Surjection
<1> QED BY <1>3, <1>4, FS_Surjection

\* The quarantine leaves a complete ledger as it is and fails no job.
LEMMA QuarantinedType ==
    ASSUME NEW jobs \in SUBSET Jobs, NEW book \in Books(jobs)
    PROVE  /\ Quarantined(book) \in Books(jobs)
           /\ \A j \in jobs : Quarantined(book).jobs[j] \in {book.jobs[j], "orphaned"}
           /\ Complete(book) => Quarantined(book) = book
<1> DEFINE moved == [j \in jobs |-> IF book.jobs[j] = "running" THEN "orphaned" ELSE book.jobs[j]]
<1>1. book.jobs \in [jobs -> States] /\ book.events \in Nat /\ DOMAIN book.jobs = jobs
  BY DEF Books
<1>2. Quarantined(book) = [jobs |-> moved, events |-> book.events + Cardinality(RunningJobs(book))]
  BY <1>1 DEF Quarantined
<1>3. moved \in [jobs -> States]
  BY <1>1 DEF States
<1>4. Cardinality(RunningJobs(book)) \in Nat
  <2>1. RunningJobs(book) \subseteq Jobs
    BY <1>1 DEF RunningJobs
  <2>2. IsFiniteSet(RunningJobs(book))
    BY <2>1, JobsFinite, FS_Subset
  <2> QED BY <2>2, FS_CardinalityType
<1>5. ASSUME Complete(book) PROVE Quarantined(book) = book
  <2>1. RunningJobs(book) = {}
    BY <1>5 DEF RunningJobs, Complete
  <2>2. moved = book.jobs
    BY <1>1, <1>5 DEF Complete
  <2>3. Cardinality(RunningJobs(book)) = 0
    BY <2>1, FS_EmptySet
  <2>4. book = [jobs |-> book.jobs, events |-> book.events]
    BY DEF Books
  <2> HIDE DEF moved
  <2> QED BY <1>1, <1>2, <2>2, <2>3, <2>4
<1>6. Quarantined(book) \in Books(jobs)
  <2> HIDE DEF moved
  <2> QED BY <1>1, <1>2, <1>3, <1>4 DEF Books
<1>7. \A j \in jobs : Quarantined(book).jobs[j] \in {book.jobs[j], "orphaned"}
  BY <1>2
<1> QED BY <1>5, <1>6, <1>7

-----------------------------------------------------------------------------
(* What a step of one worker cannot disturb *)

\* Two workers never have the same shard open.
LEMMA Alone ==
    ASSUME IInv, NEW w \in Workers, NEW v \in Workers, v # w, pc[w] # "off", pc[v] # "off"
    PROVE  shard[v] # shard[w]
BY DEF IInv, WorkerOK

\* Only worker w, its shard and the evidence of that shard's jobs change.
Local(w) ==
    /\ style' = style /\ shard' = shard
    /\ \A v \in Workers \ {w} : pc'[v] = pc[v] /\ memory'[v] = memory[v] /\ todo'[v] = todo[v]
    /\ \A s \in Shards \ {shard[w]} :
        /\ ledger'[s] = ledger[s] /\ lock'[s] = lock[s]
        /\ completion'[s] = completion[s] /\ receipt'[s] = receipt[s]
    /\ \A j \in Jobs \ JobsOf(shard[w]) : evidence'[j] = evidence[j]

\* Then what the other workers know and what the other shards say stays true.
LEMMA Elsewhere ==
    ASSUME IInv, NEW w \in Workers, pc[w] # "off", Local(w)
    PROVE  /\ \A v \in Workers \ {w} : WorkerOK(v)'
           /\ \A s \in Shards \ {shard[w]} : ShardOK(s)'
<1>1. ASSUME NEW v \in Workers \ {w} PROVE WorkerOK(v)'
  <2>1. CASE pc[v] = "off"
    BY <2>1 DEF Local, WorkerOK, CopyOK, Attempting
  <2>2. CASE pc[v] # "off"
    <3>1. shard[v] \in Shards /\ shard[v] # shard[w]
      BY <2>2, Alone, ActiveType DEF IInv, FilesOK, ProcessesOK
    <3>2. WorkerOK(v)
      BY DEF IInv
    <3>3. pc[v] \notin {"off"} \cup Opening /\ todo[v] # <<>> =>
            /\ Head1(v) \in Jobs \ JobsOf(shard[w]) /\ evidence'[Head1(v)] = evidence[Head1(v)]
      <4> SUFFICES ASSUME pc[v] \notin {"off"} \cup Opening, todo[v] # <<>>
                   PROVE  Head1(v) \in Jobs \ JobsOf(shard[w])
        BY DEF Local
      <4>1. Head1(v) \in JobsOf(shard[v])
        BY <3>2, HeadTailProperties DEF WorkerOK, CopyOK, Head1
      <4>2. JobsOf(shard[v]) \cap JobsOf(shard[w]) = {} /\ JobsOf(shard[v]) \subseteq Jobs
        BY <3>1, Disjoint, OrderType DEF IInv, FilesOK, ProcessesOK
      <4> QED BY <4>1, <4>2
    <3> QED BY <3>1, <3>2, <3>3
         DEF Local, WorkerOK, CopyOK, StateOf, Head1, Complete, Attempting, Opening, JobsOf, Order, Core
  <2> QED BY <2>1, <2>2
<1>2. ASSUME NEW s \in Shards \ {shard[w]} PROVE ShardOK(s)'
  <2>1. ShardOK(s)
    BY DEF IInv
  <2>2. ledger'[s] = ledger[s] /\ completion'[s] = completion[s] /\ receipt'[s] = receipt[s]
    BY DEF Local
  <2>3. style' = style /\ JobsOf(s)' = JobsOf(s) /\ Active' = Active
    BY DEF Local, JobsOf, Order, Active, Core
  <2>4. CASE s \notin Active
    BY <2>1, <2>2, <2>3, <2>4 DEF ShardOK, LedgerOK, Complete, Pinned
  <2>5. CASE s \in Active
    <3>1. JobsOf(s) \cap JobsOf(shard[w]) = {} /\ JobsOf(s) \subseteq Jobs
      BY <2>5, Disjoint, OrderType DEF IInv, FilesOK, ProcessesOK
    <3>2. \A j \in JobsOf(s) : HasResult(j)' = HasResult(j) /\ evidence'[j] = evidence[j]
      BY <3>1 DEF Local, HasResult
    <3> QED BY <2>1, <2>2, <2>3, <2>5, <3>2 DEF ShardOK, LedgerOK, Complete, Pinned
  <2> QED BY <2>4, <2>5
<1> QED BY <1>1, <1>2

\* So a step has to be shown to keep only the types, its own worker and shard.
LEMMA LocalKeeps ==
    ASSUME IInv, NEW w \in Workers, pc[w] # "off", Local(w),
           FilesOK', ProcessesOK', WorkerOK(w)', ShardOK(shard[w])'
    PROVE  IInv'
BY Elsewhere DEF IInv, Local

\* What the invariant gives about a worker that is inside.
Inside(w) ==
    /\ pc[w] # "off"
    /\ shard[w] \in Shards /\ shard[w] \in Active /\ style \in {"core", "shards"}
    /\ JobsOf(shard[w]) \in SUBSET Jobs /\ Order(shard[w]) \in Seq(JobsOf(shard[w]))
    /\ WorkerOK(w) /\ ShardOK(shard[w])
    /\ lock[shard[w]] = w

LEMMA InsideHolds ==
    ASSUME IInv, NEW w \in Workers, pc[w] # "off"
    PROVE  Inside(w)
<1>1. WorkerOK(w) /\ shard[w] \in Shards /\ shard[w] \in Active /\ style \in {"core", "shards"}
  BY ActiveType DEF IInv, FilesOK, ProcessesOK
<1>2. ShardOK(shard[w]) /\ JobsOf(shard[w]) \in SUBSET Jobs /\ Order(shard[w]) \in Seq(JobsOf(shard[w]))
  BY <1>1, OrderType DEF IInv
<1>3. lock[shard[w]] = w
  BY <1>1 DEF WorkerOK
<1> QED BY <1>1, <1>2, <1>3 DEF Inside

\* Jobs and shards in use do not change.
LEMMA SameJobs ==
    ASSUME style' = style
    PROVE  /\ Core' = Core /\ Active' = Active
           /\ \A s : Order(s)' = Order(s) /\ JobsOf(s)' = JobsOf(s)
BY DEF Core, Active, Order, JobsOf

-----------------------------------------------------------------------------
\* Every initial state satisfies the inductive invariant.
LEMMA InitIInv == Init => IInv
<1> SUFFICES ASSUME Init PROVE IInv
  OBVIOUS
<1>1. FilesOK
  BY DEF Init, FilesOK
<1>a. 0 \in 0 .. MaxFaults /\ 0 \in 0 .. MaxReruns /\ First \in Active /\ "off" \in WorkerPcs
  BY ShardAssumption DEF Active, WorkerPcs
<1>b. ProcessesOK
  BY <1>a DEF Init, ProcessesOK
<1>2. ASSUME NEW w \in Workers PROVE WorkerOK(w)
  BY DEF Init, WorkerOK, CopyOK, Attempting
<1>3. ASSUME NEW s \in Shards PROVE ShardOK(s)
  <2>1. JobsOf(s) \subseteq Jobs
    BY OrderType DEF Init
  <2> QED BY <2>1 DEF Init, ShardOK, LedgerOK
<1> QED BY <1>1, <1>b, <1>2, <1>3 DEF IInv

\* Reading the ledger, or creating it, keeps the invariant.
LEMMA OpenLedgerKeeps ==
    ASSUME IInv, NEW w \in Workers, OpenLedger(w)
    PROVE  IInv' /\ Local(w)
<1> USE DEF At, Goto, Constant, Evaluated, Unpublished, Faultless, Save, files, aggregation
<1>1. pc[w] # "off" /\ Inside(w)
  BY InsideHolds DEF OpenLedger
<1>2. /\ style' = style /\ shard' = shard
      /\ FilesOK /\ ProcessesOK /\ w \in DOMAIN pc /\ w \in DOMAIN memory /\ w \in DOMAIN todo
      /\ shard[w] \in DOMAIN ledger /\ shard[w] \in DOMAIN completion /\ shard[w] \in DOMAIN receipt
  BY <1>1 DEF Inside, IInv, FilesOK, ProcessesOK, OpenLedger
<1>a. /\ FreshLedger(shard[w]) \in Books(JobsOf(shard[w]))
      /\ \A j \in JobsOf(shard[w]) : FreshLedger(shard[w]).jobs[j] = "pending"
  BY DEF FreshLedger, Books, States
<1>3. Local(w)
  <2>1. CASE ledger[shard[w]] = Nothing
    BY <2>1, <1>1, <1>2 DEF Inside, FilesOK, ProcessesOK, Local, OpenLedger
  <2>2. CASE ledger[shard[w]] # Nothing
    BY <2>2, <1>1, <1>2 DEF Inside, FilesOK, ProcessesOK, Local, OpenLedger
  <2> QED BY <2>1, <2>2
<1>4. FilesOK'
  BY <1>1, <1>2 DEF FilesOK, OpenLedger
<1>5. ProcessesOK'
  BY <1>1, <1>2, SameJobs DEF ProcessesOK, Inside, WorkerPcs, Opening, Attempting, OpenLedger
<1>6. WorkerOK(w)'
  <2>1. CASE ledger[shard[w]] = Nothing
    BY <2>1, <1>1, <1>2, SameJobs, <1>a
       DEF Inside, WorkerOK, CopyOK, Opening, Attempting, StateOf, Head1, ShardOK, LedgerOK,
           OpenLedger
  <2>2. CASE ledger[shard[w]] # Nothing
    BY <2>2, <1>1, <1>2, SameJobs, <1>a
       DEF Inside, WorkerOK, CopyOK, Opening, Attempting, StateOf, Head1, ShardOK, LedgerOK,
           OpenLedger
  <2> QED BY <2>1, <2>2
<1>7. ShardOK(shard[w])'
  <2>1. CASE ledger[shard[w]] = Nothing
    BY <2>1, <1>1, <1>2, SameJobs, <1>a, BookIsSomething
       DEF Inside, ShardOK, LedgerOK, WorkerOK, CopyOK, Opening, Attempting, StateOf, Head1,
           HasResult, Pinned, Complete, OpenLedger
  <2>2. CASE ledger[shard[w]] # Nothing
    BY <2>2, <1>1, <1>2, SameJobs, <1>a, BookIsSomething
       DEF Inside, ShardOK, LedgerOK, WorkerOK, CopyOK, Opening, Attempting, StateOf, Head1,
           HasResult, Pinned, Complete, OpenLedger
  <2> QED BY <2>1, <2>2
<1> QED BY <1>1, <1>2, <1>3, <1>4, <1>5, <1>6, <1>7, LocalKeeps

\* The quarantine changes nothing of a complete ledger and fails no job.
LEMMA QuarantineKeeps ==
    ASSUME IInv, NEW w \in Workers, Quarantine(w)
    PROVE  IInv' /\ Local(w)
<1> USE DEF At, Goto, Constant, Evaluated, Unpublished, Faultless, Save, files, aggregation
<1>1. pc[w] # "off" /\ Inside(w)
  BY InsideHolds DEF Quarantine
<1>2. /\ style' = style /\ shard' = shard
      /\ FilesOK /\ ProcessesOK /\ w \in DOMAIN pc /\ w \in DOMAIN memory /\ w \in DOMAIN todo
      /\ shard[w] \in DOMAIN ledger /\ shard[w] \in DOMAIN completion /\ shard[w] \in DOMAIN receipt
  BY <1>1 DEF Inside, IInv, FilesOK, ProcessesOK, Quarantine
<1>a. memory[w] \in Books(JobsOf(shard[w])) /\ memory[w] = ledger[shard[w]]
  BY <1>1 DEF Inside, WorkerOK, CopyOK, Quarantine, Opening
<1>b. /\ Quarantined(memory[w]) \in Books(JobsOf(shard[w]))
      /\ \A j \in JobsOf(shard[w]) : Quarantined(memory[w]).jobs[j] \in {memory[w].jobs[j], "orphaned"}
      /\ Complete(memory[w]) => Quarantined(memory[w]) = memory[w]
  BY <1>1, <1>a, QuarantinedType DEF Inside
<1>3. Local(w)
  BY <1>1, <1>2 DEF Inside, FilesOK, ProcessesOK, Local, Quarantine
<1>4. FilesOK'
  BY <1>1, <1>2 DEF FilesOK, Quarantine
<1>5. ProcessesOK'
  BY <1>1, <1>2, SameJobs DEF ProcessesOK, Inside, WorkerPcs, Opening, Attempting, Quarantine
<1>6. WorkerOK(w)'
  BY <1>1, <1>2, SameJobs, <1>b
     DEF Inside, WorkerOK, CopyOK, Opening, Attempting, StateOf, Head1, Quarantine
<1>7. ShardOK(shard[w])'
  BY <1>1, <1>2, SameJobs, <1>a, <1>b, BookIsSomething
     DEF Inside, ShardOK, LedgerOK, WorkerOK, CopyOK, Opening, Attempting, StateOf, Head1,
         HasResult, Pinned, Complete, Quarantine
<1> QED BY <1>1, <1>2, <1>3, <1>4, <1>5, <1>6, <1>7, LocalKeeps

\* At a job whose turn it is, the copy is a ledger and the job one of the shard.
ItsJob(w) ==
    /\ memory[w] \in Books(JobsOf(shard[w])) /\ DOMAIN memory[w].jobs = JobsOf(shard[w])
    /\ Head1(w) \in JobsOf(shard[w]) /\ JobsOf(shard[w]) \subseteq Jobs
    /\ Tail(todo[w]) \in Seq(JobsOf(shard[w]))

LEMMA AtJob ==
    ASSUME NEW w \in Workers, Inside(w), pc[w] \notin {"off"} \cup Opening, todo[w] # <<>>
    PROVE  ItsJob(w)
<1>1. todo[w] \in Seq(JobsOf(shard[w])) /\ memory[w] \in Books(JobsOf(shard[w]))
  BY DEF Inside, WorkerOK, CopyOK, Opening
<1>2. Head(todo[w]) \in JobsOf(shard[w]) /\ Tail(todo[w]) \in Seq(JobsOf(shard[w]))
  BY <1>1, HeadTailProperties
<1>3. DOMAIN memory[w].jobs = JobsOf(shard[w])
  BY <1>1 DEF Books
<1>4. JobsOf(shard[w]) \subseteq Jobs
  BY DEF Inside
<1> QED BY <1>1, <1>2, <1>3, <1>4 DEF Head1, ItsJob

\* Moving that job in the copy moves no other.
OnlyMoves(w, state) ==
    /\ Moved(memory[w], Head1(w), state) \in Books(JobsOf(shard[w]))
    /\ Moved(memory[w], Head1(w), state).jobs[Head1(w)] = state
    /\ \A k \in JobsOf(shard[w]) \ {Head1(w)} :
            Moved(memory[w], Head1(w), state).jobs[k] = memory[w].jobs[k]

LEMMA MovesItsJob ==
    ASSUME NEW w \in Workers, ItsJob(w), NEW state \in States
    PROVE  OnlyMoves(w, state)
BY MovedType DEF ItsJob, OnlyMoves

\* The preflight starts the round over the jobs or gives up.
LEMMA PreflightKeeps ==
    ASSUME IInv, NEW w \in Workers, Preflight(w)
    PROVE  IInv' /\ Local(w)
<1> USE DEF At, Goto, Constant, Evaluated, Unpublished, Faultless, Leave, files, aggregation
<1>1. pc[w] # "off" /\ Inside(w)
  BY InsideHolds DEF Preflight
<1>2. /\ style' = style /\ shard' = shard
      /\ FilesOK /\ ProcessesOK /\ w \in DOMAIN pc /\ w \in DOMAIN memory /\ w \in DOMAIN todo
      /\ shard[w] \in DOMAIN ledger /\ shard[w] \in DOMAIN completion /\ shard[w] \in DOMAIN receipt
  BY <1>1 DEF Inside, IInv, FilesOK, ProcessesOK, Preflight
<1>3. Local(w)
  <2>1. CASE Admitted(w)
    BY <2>1, <1>1, <1>2 DEF Inside, FilesOK, ProcessesOK, Local, Preflight
  <2>2. CASE ~Admitted(w)
    BY <2>2, <1>1, <1>2 DEF Inside, FilesOK, ProcessesOK, Local, Preflight
  <2> QED BY <2>1, <2>2
<1>4. FilesOK'
  BY <1>1, <1>2 DEF FilesOK, Preflight
<1>5. ProcessesOK'
  <2>1. CASE Admitted(w)
    BY <2>1, <1>1, <1>2, SameJobs
       DEF ProcessesOK, Inside, WorkerPcs, Opening, Attempting, Preflight
  <2>2. CASE ~Admitted(w)
    BY <2>2, <1>1, <1>2, SameJobs
       DEF ProcessesOK, Inside, WorkerPcs, Opening, Attempting, Preflight
  <2> QED BY <2>1, <2>2
<1>6. WorkerOK(w)'
  <2>1. CASE Admitted(w)
    BY <2>1, <1>1, <1>2, SameJobs
       DEF Inside, WorkerOK, CopyOK, Opening, Attempting, StateOf, Head1, Preflight
  <2>2. CASE ~Admitted(w)
    BY <2>2, <1>1, <1>2, SameJobs
       DEF Inside, WorkerOK, CopyOK, Opening, Attempting, StateOf, Head1, Preflight
  <2> QED BY <2>1, <2>2
<1>7. ShardOK(shard[w])'
  <2>1. CASE Admitted(w)
    BY <2>1, <1>1, <1>2, SameJobs
       DEF Inside, ShardOK, LedgerOK, WorkerOK, CopyOK, Opening, Attempting, StateOf, Head1,
           HasResult, Pinned, Complete, Preflight
  <2>2. CASE ~Admitted(w)
    BY <2>2, <1>1, <1>2, SameJobs
       DEF Inside, ShardOK, LedgerOK, WorkerOK, CopyOK, Opening, Attempting, StateOf, Head1,
           HasResult, Pinned, Complete, Preflight
  <2> QED BY <2>1, <2>2
<1> QED BY <1>1, <1>2, <1>3, <1>4, <1>5, <1>6, <1>7, LocalKeeps

\* Verifying a finished job or committing a complete orphan keeps the invariant.
LEMMA ReconcileKeeps ==
    ASSUME IInv, NEW w \in Workers, Reconcile(w)
    PROVE  IInv' /\ Local(w)
<1> USE DEF At, Goto, Constant, Evaluated, Unpublished, Faultless, Leave, Next1, Save,
            files, aggregation, ItsJob, OnlyMoves
<1>1. pc[w] # "off" /\ Inside(w)
  BY InsideHolds DEF Reconcile, Verifying
<1>2. /\ style' = style /\ shard' = shard
      /\ FilesOK /\ ProcessesOK /\ w \in DOMAIN pc /\ w \in DOMAIN memory /\ w \in DOMAIN todo
      /\ shard[w] \in DOMAIN ledger /\ shard[w] \in DOMAIN completion /\ shard[w] \in DOMAIN receipt
  BY <1>1 DEF Inside, IInv, FilesOK, ProcessesOK, Reconcile
<1>a. ItsJob(w)
  BY <1>1, AtJob DEF Reconcile, Verifying, Opening
<1>b. OnlyMoves(w, "succeeded")
  BY <1>a, MovesItsJob DEF States
<1>3. Local(w)
  <2>1. CASE evidence[Head1(w)] # "result"
    BY <2>1, <1>1, <1>2 DEF Inside, FilesOK, ProcessesOK, Local, Reconcile
  <2>2. CASE evidence[Head1(w)] = "result" /\ StateOf(w) = "orphaned"
    BY <2>2, <1>1, <1>2 DEF Inside, FilesOK, ProcessesOK, Local, Reconcile
  <2>3. CASE evidence[Head1(w)] = "result" /\ StateOf(w) # "orphaned"
    BY <2>3, <1>1, <1>2 DEF Inside, FilesOK, ProcessesOK, Local, Reconcile
  <2> QED BY <2>1, <2>2, <2>3
<1>4. FilesOK'
  BY <1>1, <1>2 DEF FilesOK, Reconcile
<1>5. ProcessesOK'
  BY <1>1, <1>2, SameJobs DEF ProcessesOK, Inside, WorkerPcs, Opening, Attempting, Reconcile
<1>6. WorkerOK(w)'
  <2>1. CASE evidence[Head1(w)] # "result"
    BY <2>1, <1>1, <1>2, SameJobs, <1>a, <1>b
       DEF Inside, WorkerOK, CopyOK, Opening, Attempting, StateOf, Head1, Verifying,
           Reconcile
  <2>2. CASE evidence[Head1(w)] = "result" /\ StateOf(w) = "orphaned"
    BY <2>2, <1>1, <1>2, SameJobs, <1>a, <1>b
       DEF Inside, WorkerOK, CopyOK, Opening, Attempting, StateOf, Head1, Verifying,
           Reconcile
  <2>3. CASE evidence[Head1(w)] = "result" /\ StateOf(w) # "orphaned"
    BY <2>3, <1>1, <1>2, SameJobs, <1>a, <1>b
       DEF Inside, WorkerOK, CopyOK, Opening, Attempting, StateOf, Head1, Verifying,
           Reconcile
  <2> QED BY <2>1, <2>2, <2>3
<1>7. ShardOK(shard[w])'
  <2>1. CASE evidence[Head1(w)] # "result" \/ StateOf(w) # "orphaned"
    BY <2>1, <1>1, <1>2, SameJobs
       DEF Inside, ShardOK, LedgerOK, HasResult, Pinned, Complete, Reconcile
  <2>2. CASE evidence[Head1(w)] = "result" /\ StateOf(w) = "orphaned"
    <3>1. /\ ledger'[shard[w]] = Moved(memory[w], Head1(w), "succeeded")
          /\ evidence' = evidence /\ completion' = completion /\ receipt' = receipt
      BY <2>2, <1>1, <1>2 DEF Reconcile
    <3>2. memory[w] = ledger[shard[w]] /\ ledger[shard[w]].jobs[Head1(w)] = "orphaned"
      BY <2>2, <1>1 DEF Inside, WorkerOK, StateOf, Reconcile, Verifying
    <3>3. ledger[shard[w]] # Nothing /\ ~Complete(ledger[shard[w]]) /\ ledger'[shard[w]] # Nothing
      BY <3>1, <3>2, <1>1, <1>a, <1>b, BookIsSomething DEF Inside, Complete
    <3> QED BY <3>1, <3>2, <3>3, <2>2, <1>1, <1>2, <1>a, <1>b, SameJobs
            DEF Inside, ShardOK, LedgerOK, HasResult
  <2> QED BY <2>1, <2>2
<1> QED BY <1>1, <1>2, <1>3, <1>4, <1>5, <1>6, <1>7, LocalKeeps

\* Passing a job over moves on.
LEMMA PassOverKeeps ==
    ASSUME IInv, NEW w \in Workers, PassOver(w)
    PROVE  IInv' /\ Local(w)
<1> USE DEF At, Goto, Constant, Evaluated, Unpublished, Faultless, Next1, files,
            aggregation, ItsJob, OnlyMoves
<1>1. pc[w] # "off" /\ Inside(w)
  BY InsideHolds DEF PassOver
<1>2. /\ style' = style /\ shard' = shard
      /\ FilesOK /\ ProcessesOK /\ w \in DOMAIN pc /\ w \in DOMAIN memory /\ w \in DOMAIN todo
      /\ shard[w] \in DOMAIN ledger /\ shard[w] \in DOMAIN completion /\ shard[w] \in DOMAIN receipt
  BY <1>1 DEF Inside, IInv, FilesOK, ProcessesOK, PassOver
<1>a. ItsJob(w)
  BY <1>1, AtJob DEF PassOver, Opening
<1>3. Local(w)
  BY <1>1, <1>2 DEF Inside, FilesOK, ProcessesOK, Local, PassOver
<1>4. FilesOK'
  BY <1>1, <1>2 DEF FilesOK, PassOver
<1>5. ProcessesOK'
  BY <1>1, <1>2, SameJobs DEF ProcessesOK, Inside, WorkerPcs, Opening, Attempting, PassOver
<1>6. WorkerOK(w)'
  BY <1>1, <1>2, SameJobs, <1>a
     DEF Inside, WorkerOK, CopyOK, Opening, Attempting, StateOf, Head1, PassOver
<1>7. ShardOK(shard[w])'
  BY <1>1, <1>2, SameJobs
     DEF Inside, ShardOK, LedgerOK, WorkerOK, CopyOK, Opening, Attempting, StateOf, Head1,
         HasResult, Pinned, Complete, PassOver
<1> QED BY <1>1, <1>2, <1>3, <1>4, <1>5, <1>6, <1>7, LocalKeeps

\* After the reconciliation a complete copy is published, another one worked on.
LEMMA EndReconcileKeeps ==
    ASSUME IInv, NEW w \in Workers, EndReconcile(w)
    PROVE  IInv' /\ Local(w)
<1> USE DEF At, Goto, Constant, Evaluated, Unpublished, Faultless, files, aggregation
<1>1. pc[w] # "off" /\ Inside(w)
  BY InsideHolds DEF EndReconcile
<1>2. /\ style' = style /\ shard' = shard
      /\ FilesOK /\ ProcessesOK /\ w \in DOMAIN pc /\ w \in DOMAIN memory /\ w \in DOMAIN todo
      /\ shard[w] \in DOMAIN ledger /\ shard[w] \in DOMAIN completion /\ shard[w] \in DOMAIN receipt
  BY <1>1 DEF Inside, IInv, FilesOK, ProcessesOK, EndReconcile
<1>3. Local(w)
  <2>1. CASE Complete(memory[w])
    BY <2>1, <1>1, <1>2 DEF Inside, FilesOK, ProcessesOK, Local, EndReconcile
  <2>2. CASE ~Complete(memory[w])
    BY <2>2, <1>1, <1>2 DEF Inside, FilesOK, ProcessesOK, Local, EndReconcile
  <2> QED BY <2>1, <2>2
<1>4. FilesOK'
  BY <1>1, <1>2 DEF FilesOK, EndReconcile
<1>5. ProcessesOK'
  <2>1. CASE Complete(memory[w])
    BY <2>1, <1>1, <1>2, SameJobs
       DEF ProcessesOK, Inside, WorkerPcs, Opening, Attempting, EndReconcile
  <2>2. CASE ~Complete(memory[w])
    BY <2>2, <1>1, <1>2, SameJobs
       DEF ProcessesOK, Inside, WorkerPcs, Opening, Attempting, EndReconcile
  <2> QED BY <2>1, <2>2
<1>6. WorkerOK(w)'
  <2>1. CASE Complete(memory[w])
    BY <2>1, <1>1, <1>2, SameJobs
       DEF Inside, WorkerOK, CopyOK, Opening, Attempting, StateOf, Head1, EndReconcile
  <2>2. CASE ~Complete(memory[w])
    BY <2>2, <1>1, <1>2, SameJobs
       DEF Inside, WorkerOK, CopyOK, Opening, Attempting, StateOf, Head1, EndReconcile
  <2> QED BY <2>1, <2>2
<1>7. ShardOK(shard[w])'
  BY <1>1, <1>2, SameJobs
     DEF Inside, ShardOK, LedgerOK, WorkerOK, CopyOK, Opening, Attempting, StateOf, Head1,
         HasResult, Pinned, Complete, EndReconcile
<1> QED BY <1>1, <1>2, <1>3, <1>4, <1>5, <1>6, <1>7, LocalKeeps

\* A claim is saved with the job running.
LEMMA ClaimKeeps ==
    ASSUME IInv, NEW w \in Workers, Claim(w)
    PROVE  IInv' /\ Local(w)
<1> USE DEF At, Goto, Constant, Evaluated, Unpublished, Faultless, Save, files, aggregation,
            ItsJob, OnlyMoves
<1>1. pc[w] # "off" /\ Inside(w)
  BY InsideHolds DEF Claim
<1>2. /\ style' = style /\ shard' = shard
      /\ FilesOK /\ ProcessesOK /\ w \in DOMAIN pc /\ w \in DOMAIN memory /\ w \in DOMAIN todo
      /\ shard[w] \in DOMAIN ledger /\ shard[w] \in DOMAIN completion /\ shard[w] \in DOMAIN receipt
  BY <1>1 DEF Inside, IInv, FilesOK, ProcessesOK, Claim
<1>a. ItsJob(w)
  BY <1>1, AtJob DEF Claim, Opening
<1>b. OnlyMoves(w, "running")
  BY <1>a, MovesItsJob DEF States
<1>3. Local(w)
  BY <1>1, <1>2 DEF Inside, FilesOK, ProcessesOK, Local, Claim
<1>4. FilesOK'
  BY <1>1, <1>2 DEF FilesOK, Claim
<1>5. ProcessesOK'
  BY <1>1, <1>2, SameJobs DEF ProcessesOK, Inside, WorkerPcs, Opening, Attempting, Claim
<1>6. WorkerOK(w)'
  BY <1>1, <1>2, SameJobs, <1>a, <1>b, BookIsSomething
     DEF Inside, WorkerOK, CopyOK, Opening, Attempting, StateOf, Head1, ShardOK, Claim
<1>7. ShardOK(shard[w])'
  <2>1. /\ ledger'[shard[w]] = Moved(memory[w], Head1(w), "running")
        /\ evidence' = evidence /\ completion' = completion /\ receipt' = receipt
    BY <1>1, <1>2 DEF Claim
  <2>2. memory[w] = ledger[shard[w]] /\ ledger[shard[w]].jobs[Head1(w)] = "pending"
    BY <1>1 DEF Inside, WorkerOK, StateOf, Claim
  <2>3. ledger[shard[w]] # Nothing /\ ~Complete(ledger[shard[w]]) /\ ledger'[shard[w]] # Nothing
    BY <2>1, <2>2, <1>1, <1>a, <1>b, BookIsSomething DEF Inside, Complete
  <2>4. completion[shard[w]] = Nothing /\ receipt[shard[w]] = Nothing
    BY <2>3, <1>1 DEF Inside, ShardOK
  <2>5. LedgerOK(shard[w])'
    BY <2>1, <1>1, <1>2, <1>b, SameJobs DEF Inside, LedgerOK
  <2>6. \A j \in JobsOf(shard[w]) :
          /\ HasResult(j) => ledger'[shard[w]].jobs[j] # "failed"
          /\ ledger'[shard[w]].jobs[j] = "pending" => evidence[j] = "none"
          /\ ledger'[shard[w]].jobs[j] = "succeeded" => evidence[j] = "result"
    BY <2>1, <2>2, <2>3, <1>1, <1>b DEF Inside, ShardOK
  <2> QED BY <2>1, <2>3, <2>4, <2>5, <2>6, <1>1, <1>2, SameJobs
          DEF Inside, ShardOK, HasResult
<1> QED BY <1>1, <1>2, <1>3, <1>4, <1>5, <1>6, <1>7, LocalKeeps

\* A rollout begins on a running job.
LEMMA BeginRolloutKeeps ==
    ASSUME IInv, NEW w \in Workers, BeginRollout(w)
    PROVE  IInv' /\ Local(w)
<1> USE DEF At, Goto, Constant, Unpublished, Faultless, Keeps, Left, files, aggregation,
            ItsJob, OnlyMoves
<1>1. pc[w] # "off" /\ Inside(w)
  BY InsideHolds DEF BeginRollout
<1>2. /\ style' = style /\ shard' = shard
      /\ FilesOK /\ ProcessesOK /\ w \in DOMAIN pc /\ w \in DOMAIN memory /\ w \in DOMAIN todo
      /\ shard[w] \in DOMAIN ledger /\ shard[w] \in DOMAIN completion /\ shard[w] \in DOMAIN receipt
  BY <1>1 DEF Inside, IInv, FilesOK, ProcessesOK, BeginRollout
<1>c. todo[w] # <<>> /\ StateOf(w) = "running" /\ memory[w] = ledger[shard[w]]
  BY <1>1 DEF Inside, WorkerOK, Attempting, BeginRollout
<1>a. ItsJob(w)
  BY <1>1, <1>c, AtJob DEF BeginRollout, Opening
<1>b. /\ ledger' = ledger /\ completion' = completion /\ receipt' = receipt
      /\ \A j \in JobsOf(shard[w]) : evidence'[j] = evidence[j] \/ ledger[shard[w]].jobs[j] = "running"
  BY <1>1, <1>2, <1>a, <1>c DEF BeginRollout, FilesOK, StateOf, Head1
<1>d. Head1(w) \in DOMAIN evidence /\ ledger[shard[w]] # Nothing
  BY <1>1, <1>2, <1>a, <1>c, BookIsSomething DEF FilesOK, Inside
<1>3. Local(w)
  BY <1>1, <1>2, <1>a DEF Inside, FilesOK, ProcessesOK, Local, BeginRollout
<1>4. FilesOK'
  BY <1>1, <1>2, <1>a DEF FilesOK, BeginRollout
<1>5. ProcessesOK'
  BY <1>1, <1>2, SameJobs DEF ProcessesOK, Inside, WorkerPcs, Opening, Attempting, BeginRollout
<1>6. WorkerOK(w)'
  BY <1>1, <1>2, SameJobs, <1>a, <1>c, <1>d
     DEF Inside, WorkerOK, CopyOK, Opening, Attempting, StateOf, Head1, BeginRollout
<1>7. ShardOK(shard[w])'
  BY <1>1, <1>2, <1>b, <1>d, SameJobs DEF Inside, ShardOK, LedgerOK, HasResult, Pinned, Complete
<1> QED BY <1>1, <1>2, <1>3, <1>4, <1>5, <1>6, <1>7, LocalKeeps

\* A rollout ends, or raises.
LEMMA EndRolloutKeeps ==
    ASSUME IInv, NEW w \in Workers, EndRollout(w)
    PROVE  IInv' /\ Local(w)
<1> USE DEF At, Goto, Constant, Unpublished, Faultless, Keeps, Left, files, aggregation,
            ItsJob, OnlyMoves
<1>1. pc[w] # "off" /\ Inside(w)
  BY InsideHolds DEF EndRollout
<1>2. /\ style' = style /\ shard' = shard
      /\ FilesOK /\ ProcessesOK /\ w \in DOMAIN pc /\ w \in DOMAIN memory /\ w \in DOMAIN todo
      /\ shard[w] \in DOMAIN ledger /\ shard[w] \in DOMAIN completion /\ shard[w] \in DOMAIN receipt
  BY <1>1 DEF Inside, IInv, FilesOK, ProcessesOK, EndRollout
<1>c. todo[w] # <<>> /\ StateOf(w) = "running" /\ memory[w] = ledger[shard[w]]
  BY <1>1 DEF Inside, WorkerOK, Attempting, EndRollout
<1>a. ItsJob(w)
  BY <1>1, <1>c, AtJob DEF EndRollout, Opening
<1>b. /\ ledger' = ledger /\ completion' = completion /\ receipt' = receipt
      /\ \A j \in JobsOf(shard[w]) : evidence'[j] = evidence[j] \/ ledger[shard[w]].jobs[j] = "running"
  BY <1>1, <1>2, <1>a, <1>c DEF EndRollout, FilesOK, StateOf, Head1
<1>d. Head1(w) \in DOMAIN evidence /\ ledger[shard[w]] # Nothing
  BY <1>1, <1>2, <1>a, <1>c, BookIsSomething DEF FilesOK, Inside
<1>3. Local(w)
  BY <1>1, <1>2, <1>a DEF Inside, FilesOK, ProcessesOK, Local, EndRollout
<1>4. FilesOK'
  BY <1>1, <1>2, <1>a DEF FilesOK, EndRollout
<1>5. ProcessesOK'
  BY <1>1, <1>2, SameJobs DEF ProcessesOK, Inside, WorkerPcs, Opening, Attempting, EndRollout
<1>6. WorkerOK(w)'
  BY <1>1, <1>2, SameJobs, <1>a, <1>c, <1>d
     DEF Inside, WorkerOK, CopyOK, Opening, Attempting, StateOf, Head1, EndRollout
<1>7. ShardOK(shard[w])'
  BY <1>1, <1>2, <1>b, <1>d, SameJobs DEF Inside, ShardOK, LedgerOK, HasResult, Pinned, Complete
<1> QED BY <1>1, <1>2, <1>3, <1>4, <1>5, <1>6, <1>7, LocalKeeps

\* A result is written, or not: the job it is about is running.
LEMMA WriteResultKeeps ==
    ASSUME IInv, NEW w \in Workers, WriteResult(w)
    PROVE  IInv' /\ Local(w)
<1> USE DEF At, Goto, Constant, Unpublished, Faultless, Keeps, Left, files, aggregation,
            ItsJob, OnlyMoves
<1>1. pc[w] # "off" /\ Inside(w)
  BY InsideHolds DEF WriteResult
<1>2. /\ style' = style /\ shard' = shard
      /\ FilesOK /\ ProcessesOK /\ w \in DOMAIN pc /\ w \in DOMAIN memory /\ w \in DOMAIN todo
      /\ shard[w] \in DOMAIN ledger /\ shard[w] \in DOMAIN completion /\ shard[w] \in DOMAIN receipt
  BY <1>1 DEF Inside, IInv, FilesOK, ProcessesOK, WriteResult
<1>c. todo[w] # <<>> /\ StateOf(w) = "running" /\ memory[w] = ledger[shard[w]]
  BY <1>1 DEF Inside, WorkerOK, Attempting, WriteResult
<1>a. ItsJob(w)
  BY <1>1, <1>c, AtJob DEF WriteResult, Opening
<1>b. /\ ledger' = ledger /\ completion' = completion /\ receipt' = receipt
      /\ \A j \in JobsOf(shard[w]) : evidence'[j] = evidence[j] \/ ledger[shard[w]].jobs[j] = "running"
  BY <1>1, <1>2, <1>a, <1>c DEF WriteResult, FilesOK, StateOf, Head1
<1>d. Head1(w) \in DOMAIN evidence /\ ledger[shard[w]] # Nothing
  BY <1>1, <1>2, <1>a, <1>c, BookIsSomething DEF FilesOK, Inside
<1>3. Local(w)
  BY <1>1, <1>2, <1>a DEF Inside, FilesOK, ProcessesOK, Local, WriteResult
<1>4. FilesOK'
  BY <1>1, <1>2, <1>a DEF FilesOK, WriteResult
<1>5. ProcessesOK'
  BY <1>1, <1>2, SameJobs DEF ProcessesOK, Inside, WorkerPcs, Opening, Attempting, WriteResult
<1>6. WorkerOK(w)'
  BY <1>1, <1>2, SameJobs, <1>a, <1>c, <1>d
     DEF Inside, WorkerOK, CopyOK, Opening, Attempting, StateOf, Head1, WriteResult
<1>7. ShardOK(shard[w])'
  BY <1>1, <1>2, <1>b, <1>d, SameJobs DEF Inside, ShardOK, LedgerOK, HasResult, Pinned, Complete
<1> QED BY <1>1, <1>2, <1>3, <1>4, <1>5, <1>6, <1>7, LocalKeeps

\* A refused envelope sends the worker to halt.
LEMMA VerifyRaisesKeeps ==
    ASSUME IInv, NEW w \in Workers, VerifyRaises(w)
    PROVE  IInv' /\ Local(w)
<1> USE DEF At, Goto, Constant, Evaluated, Unpublished, Faultless, Keeps, files, aggregation
<1>1. pc[w] # "off" /\ Inside(w)
  BY InsideHolds DEF VerifyRaises
<1>2. /\ style' = style /\ shard' = shard
      /\ FilesOK /\ ProcessesOK /\ w \in DOMAIN pc /\ w \in DOMAIN memory /\ w \in DOMAIN todo
      /\ shard[w] \in DOMAIN ledger /\ shard[w] \in DOMAIN completion /\ shard[w] \in DOMAIN receipt
  BY <1>1 DEF Inside, IInv, FilesOK, ProcessesOK, VerifyRaises
<1>3. Local(w)
  BY <1>1, <1>2 DEF Inside, FilesOK, ProcessesOK, Local, VerifyRaises
<1>4. FilesOK'
  BY <1>1, <1>2 DEF FilesOK, VerifyRaises
<1>5. ProcessesOK'
  BY <1>1, <1>2, SameJobs DEF ProcessesOK, Inside, WorkerPcs, Opening, Attempting, VerifyRaises
<1>6. WorkerOK(w)'
  BY <1>1, <1>2, SameJobs
     DEF Inside, WorkerOK, CopyOK, Opening, Attempting, StateOf, Head1, VerifyRaises
<1>7. ShardOK(shard[w])'
  BY <1>1, <1>2, SameJobs
     DEF Inside, ShardOK, LedgerOK, WorkerOK, CopyOK, Opening, Attempting, StateOf, Head1,
         HasResult, Pinned, Complete, VerifyRaises
<1> QED BY <1>1, <1>2, <1>3, <1>4, <1>5, <1>6, <1>7, LocalKeeps

\* A verified result is saved as succeeded.
LEMMA FinishKeeps ==
    ASSUME IInv, NEW w \in Workers, Finish(w)
    PROVE  IInv' /\ Local(w)
<1> USE DEF At, Goto, Constant, Evaluated, Unpublished, Faultless, Next1, Save, files,
            aggregation, ItsJob, OnlyMoves
<1>1. pc[w] # "off" /\ Inside(w)
  BY InsideHolds DEF Finish
<1>2. /\ style' = style /\ shard' = shard
      /\ FilesOK /\ ProcessesOK /\ w \in DOMAIN pc /\ w \in DOMAIN memory /\ w \in DOMAIN todo
      /\ shard[w] \in DOMAIN ledger /\ shard[w] \in DOMAIN completion /\ shard[w] \in DOMAIN receipt
  BY <1>1 DEF Inside, IInv, FilesOK, ProcessesOK, Finish
<1>c. todo[w] # <<>> /\ StateOf(w) = "running" /\ memory[w] = ledger[shard[w]]
  BY <1>1 DEF Inside, WorkerOK, Attempting, Finish
<1>a. ItsJob(w)
  BY <1>1, <1>c, AtJob DEF Finish, Opening
<1>b. OnlyMoves(w, "succeeded")
  BY <1>a, MovesItsJob DEF States
<1>3. Local(w)
  BY <1>1, <1>2 DEF Inside, FilesOK, ProcessesOK, Local, Finish
<1>4. FilesOK'
  BY <1>1, <1>2 DEF FilesOK, Finish
<1>5. ProcessesOK'
  BY <1>1, <1>2, SameJobs DEF ProcessesOK, Inside, WorkerPcs, Opening, Attempting, Finish
<1>6. WorkerOK(w)'
  BY <1>1, <1>2, SameJobs, <1>a, <1>b, <1>c
     DEF Inside, WorkerOK, CopyOK, Opening, Attempting, StateOf, Head1, Finish
<1>7. ShardOK(shard[w])'
  <2>1. /\ ledger'[shard[w]] = Moved(memory[w], Head1(w), "succeeded")
        /\ evidence' = evidence /\ completion' = completion /\ receipt' = receipt
    BY <1>1, <1>2 DEF Finish
  <2>2. ledger[shard[w]].jobs[Head1(w)] = "running" /\ evidence[Head1(w)] = "result"
    BY <1>c DEF StateOf, Finish
  <2>3. ledger[shard[w]] # Nothing /\ ~Complete(ledger[shard[w]]) /\ ledger'[shard[w]] # Nothing
    BY <2>1, <2>2, <1>1, <1>a, <1>b, <1>c, BookIsSomething DEF Inside, Complete
  <2> QED BY <2>1, <2>2, <2>3, <1>1, <1>2, <1>a, <1>b, <1>c, SameJobs
          DEF Inside, ShardOK, LedgerOK, HasResult
<1> QED BY <1>1, <1>2, <1>3, <1>4, <1>5, <1>6, <1>7, LocalKeeps

\* A finish that raises leaves the copy ahead of the file, or level with it.
LEMMA FinishRaisesKeeps ==
    ASSUME IInv, NEW w \in Workers, FinishRaises(w)
    PROVE  IInv' /\ Local(w)
<1> USE DEF At, Goto, Constant, Evaluated, Unpublished, files, aggregation, ItsJob, OnlyMoves
<1>1. pc[w] # "off" /\ Inside(w)
  BY InsideHolds DEF FinishRaises
<1>2. /\ style' = style /\ shard' = shard
      /\ FilesOK /\ ProcessesOK /\ w \in DOMAIN pc /\ w \in DOMAIN memory /\ w \in DOMAIN todo
      /\ shard[w] \in DOMAIN ledger /\ shard[w] \in DOMAIN completion /\ shard[w] \in DOMAIN receipt
  BY <1>1 DEF Inside, IInv, FilesOK, ProcessesOK, FinishRaises
<1>c. todo[w] # <<>> /\ StateOf(w) = "running" /\ memory[w] = ledger[shard[w]]
  BY <1>1 DEF Inside, WorkerOK, Attempting, FinishRaises
<1>a. ItsJob(w)
  BY <1>1, <1>c, AtJob DEF FinishRaises, Opening
<1>b. OnlyMoves(w, "succeeded")
  BY <1>a, MovesItsJob DEF States
<1>q. faults + 1 \in 0 .. MaxFaults
  BY <1>2, ShardAssumption DEF ProcessesOK, FinishRaises
<1>3. Local(w)
  BY <1>1, <1>2 DEF Inside, FilesOK, ProcessesOK, Local, FinishRaises
<1>4. FilesOK'
  BY <1>1, <1>2 DEF FilesOK, FinishRaises
<1>5. ProcessesOK'
  BY <1>1, <1>2, <1>q, SameJobs
     DEF ProcessesOK, Inside, WorkerPcs, Opening, Attempting, FinishRaises
<1>6. WorkerOK(w)'
  BY <1>1, <1>2, SameJobs, <1>a, <1>b, <1>c
     DEF Inside, WorkerOK, CopyOK, Opening, Attempting, StateOf, Head1, FinishRaises
<1>7. ShardOK(shard[w])'
  <2>1. /\ ledger'[shard[w]] \in {ledger[shard[w]], Moved(memory[w], Head1(w), "succeeded")}
        /\ evidence' = evidence /\ completion' = completion /\ receipt' = receipt
    BY <1>1, <1>2 DEF FinishRaises
  <2>2. ledger[shard[w]].jobs[Head1(w)] = "running" /\ evidence[Head1(w)] = "result"
    BY <1>c DEF StateOf, FinishRaises
  <2>3. CASE ledger'[shard[w]] = ledger[shard[w]]
    BY <2>1, <2>3, <1>1, <1>2, SameJobs
       DEF Inside, ShardOK, LedgerOK, HasResult, Pinned, Complete
  <2>4. CASE ledger'[shard[w]] = Moved(memory[w], Head1(w), "succeeded")
    <3>1. ledger[shard[w]] # Nothing /\ ~Complete(ledger[shard[w]]) /\ ledger'[shard[w]] # Nothing
      BY <2>2, <2>4, <1>1, <1>a, <1>b, <1>c, BookIsSomething DEF Inside, Complete
    <3> QED BY <2>1, <2>2, <2>4, <3>1, <1>1, <1>2, <1>a, <1>b, <1>c, SameJobs
            DEF Inside, ShardOK, LedgerOK, HasResult
  <2> QED BY <2>1, <2>3, <2>4
<1> QED BY <1>1, <1>2, <1>3, <1>4, <1>5, <1>6, <1>7, LocalKeeps


\* A halt fails only a job without a result, and only one that still runs in the copy.
LEMMA HaltKeeps ==
    ASSUME IInv, NEW w \in Workers, Halt(w)
    PROVE  IInv' /\ Local(w)
<1> USE DEF At, Goto, Constant, Evaluated, Unpublished, Faultless, Leave, files,
            aggregation, ItsJob, OnlyMoves
<1>1. pc[w] # "off" /\ Inside(w)
  BY InsideHolds DEF Halt
<1>2. /\ style' = style /\ shard' = shard
      /\ FilesOK /\ ProcessesOK /\ w \in DOMAIN pc /\ w \in DOMAIN memory /\ w \in DOMAIN todo
      /\ shard[w] \in DOMAIN ledger /\ shard[w] \in DOMAIN completion /\ shard[w] \in DOMAIN receipt
  BY <1>1 DEF Inside, IInv, FilesOK, ProcessesOK, Halt
<1>c. todo[w] # <<>> /\ (StateOf(w) = "running" => memory[w] = ledger[shard[w]])
  BY <1>1 DEF Inside, WorkerOK, Halt
<1>a. ItsJob(w)
  BY <1>1, <1>c, AtJob DEF Halt, Opening
<1>b. OnlyMoves(w, "failed") /\ OnlyMoves(w, "orphaned")
  BY <1>a, MovesItsJob DEF States
<1>3. Local(w)
  <2>1. CASE StateOf(w) # "running"
    BY <2>1, <1>1, <1>2 DEF Inside, FilesOK, ProcessesOK, Local, Halt
  <2>2. CASE StateOf(w) = "running"
    BY <2>2, <1>1, <1>2 DEF Inside, FilesOK, ProcessesOK, Local, Halt
  <2> QED BY <2>1, <2>2
<1>4. FilesOK'
  BY <1>1, <1>2 DEF FilesOK, Halt
<1>5. ProcessesOK'
  BY <1>1, <1>2, SameJobs DEF ProcessesOK, Inside, WorkerPcs, Opening, Attempting, Halt
<1>6. WorkerOK(w)'
  BY <1>1, <1>2, SameJobs, <1>c
     DEF Inside, WorkerOK, CopyOK, Opening, Attempting, StateOf, Head1, Halt
<1>7. ShardOK(shard[w])'
  <2>1. CASE StateOf(w) # "running"
    BY <2>1, <1>1, <1>2, SameJobs
       DEF Inside, ShardOK, LedgerOK, HasResult, Pinned, Complete, Halt
  <2>2. CASE StateOf(w) = "running"
    <3>1. PICK state \in {"failed", "orphaned"} :
            /\ ledger'[shard[w]] = Moved(memory[w], Head1(w), state)
            /\ state = "failed" => evidence[Head1(w)] = "closed"
      BY <2>2, <1>1, <1>2 DEF Halt, Closed
    <3>2. evidence' = evidence /\ completion' = completion /\ receipt' = receipt
      BY DEF Halt
    <3>3. memory[w] = ledger[shard[w]] /\ ledger[shard[w]].jobs[Head1(w)] = "running"
      BY <2>2, <1>c DEF StateOf
    <3>4. ledger[shard[w]] # Nothing /\ ~Complete(ledger[shard[w]]) /\ ledger'[shard[w]] # Nothing
      BY <3>1, <3>3, <1>1, <1>a, <1>b, BookIsSomething DEF Inside, Complete
    <3> QED BY <3>1, <3>2, <3>3, <3>4, <1>1, <1>2, <1>a, <1>b, SameJobs
            DEF Inside, ShardOK, LedgerOK, HasResult
  <2> QED BY <2>1, <2>2
<1> QED BY <1>1, <1>2, <1>3, <1>4, <1>5, <1>6, <1>7, LocalKeeps

\* At the end a complete copy is published.
LEMMA EndJobsKeeps ==
    ASSUME IInv, NEW w \in Workers, EndJobs(w)
    PROVE  IInv' /\ Local(w)
<1> USE DEF At, Goto, Constant, Evaluated, Unpublished, Faultless, Keeps, Leave, files,
            aggregation
<1>1. pc[w] # "off" /\ Inside(w)
  BY InsideHolds DEF EndJobs
<1>2. /\ style' = style /\ shard' = shard
      /\ FilesOK /\ ProcessesOK /\ w \in DOMAIN pc /\ w \in DOMAIN memory /\ w \in DOMAIN todo
      /\ shard[w] \in DOMAIN ledger /\ shard[w] \in DOMAIN completion /\ shard[w] \in DOMAIN receipt
  BY <1>1 DEF Inside, IInv, FilesOK, ProcessesOK, EndJobs
<1>3. Local(w)
  <2>1. CASE Complete(memory[w])
    BY <2>1, <1>1, <1>2 DEF Inside, FilesOK, ProcessesOK, Local, EndJobs
  <2>2. CASE ~Complete(memory[w])
    BY <2>2, <1>1, <1>2 DEF Inside, FilesOK, ProcessesOK, Local, EndJobs
  <2> QED BY <2>1, <2>2
<1>4. FilesOK'
  BY <1>1, <1>2 DEF FilesOK, EndJobs
<1>5. ProcessesOK'
  <2>1. CASE Complete(memory[w])
    BY <2>1, <1>1, <1>2, SameJobs
       DEF ProcessesOK, Inside, WorkerPcs, Opening, Attempting, EndJobs
  <2>2. CASE ~Complete(memory[w])
    BY <2>2, <1>1, <1>2, SameJobs
       DEF ProcessesOK, Inside, WorkerPcs, Opening, Attempting, EndJobs
  <2> QED BY <2>1, <2>2
<1>6. WorkerOK(w)'
  <2>1. CASE Complete(memory[w])
    BY <2>1, <1>1, <1>2, SameJobs
       DEF Inside, WorkerOK, CopyOK, Opening, Attempting, StateOf, Head1, EndJobs
  <2>2. CASE ~Complete(memory[w])
    BY <2>2, <1>1, <1>2, SameJobs
       DEF Inside, WorkerOK, CopyOK, Opening, Attempting, StateOf, Head1, EndJobs
  <2> QED BY <2>1, <2>2
<1>7. ShardOK(shard[w])'
  BY <1>1, <1>2, SameJobs
     DEF Inside, ShardOK, LedgerOK, WorkerOK, CopyOK, Opening, Attempting, StateOf, Head1,
         HasResult, Pinned, Complete, EndJobs
<1> QED BY <1>1, <1>2, <1>3, <1>4, <1>5, <1>6, <1>7, LocalKeeps

\* completion.json describes the ledger as it is.
LEMMA PublishCompletionKeeps ==
    ASSUME IInv, NEW w \in Workers, PublishCompletion(w)
    PROVE  IInv' /\ Local(w)
<1> USE DEF At, Goto, Constant, Evaluated, Faultless, Keeps, Leave, files, aggregation
<1>1. pc[w] # "off" /\ Inside(w)
  BY InsideHolds DEF PublishCompletion
<1>2. /\ style' = style /\ shard' = shard
      /\ FilesOK /\ ProcessesOK /\ w \in DOMAIN pc /\ w \in DOMAIN memory /\ w \in DOMAIN todo
      /\ shard[w] \in DOMAIN ledger /\ shard[w] \in DOMAIN completion /\ shard[w] \in DOMAIN receipt
  BY <1>1 DEF Inside, IInv, FilesOK, ProcessesOK, PublishCompletion
<1>c. memory[w] = ledger[shard[w]] /\ Complete(memory[w]) /\ memory[w] \in Books(JobsOf(shard[w]))
  BY <1>1 DEF Inside, WorkerOK, CopyOK, Opening, PublishCompletion
<1>3. Local(w)
  <2>1. CASE MayPublish(completion[shard[w]], memory[w])
    BY <2>1, <1>1, <1>2 DEF Inside, FilesOK, ProcessesOK, Local, PublishCompletion
  <2>2. CASE ~MayPublish(completion[shard[w]], memory[w])
    BY <2>2, <1>1, <1>2 DEF Inside, FilesOK, ProcessesOK, Local, PublishCompletion
  <2> QED BY <2>1, <2>2
<1>4. FilesOK'
  <2>1. CASE MayPublish(completion[shard[w]], memory[w])
    BY <2>1, <1>1, <1>2 DEF FilesOK, PublishCompletion
  <2>2. CASE ~MayPublish(completion[shard[w]], memory[w])
    BY <2>2, <1>1, <1>2 DEF FilesOK, PublishCompletion
  <2> QED BY <2>1, <2>2
<1>5. ProcessesOK'
  <2>1. CASE MayPublish(completion[shard[w]], memory[w])
    BY <2>1, <1>1, <1>2, SameJobs
       DEF ProcessesOK, Inside, WorkerPcs, Opening, Attempting, PublishCompletion
  <2>2. CASE ~MayPublish(completion[shard[w]], memory[w])
    BY <2>2, <1>1, <1>2, SameJobs
       DEF ProcessesOK, Inside, WorkerPcs, Opening, Attempting, PublishCompletion
  <2> QED BY <2>1, <2>2
<1>6. WorkerOK(w)'
  <2>1. CASE MayPublish(completion[shard[w]], memory[w])
    BY <2>1, <1>1, <1>2, SameJobs, <1>c
       DEF Inside, WorkerOK, CopyOK, Opening, Attempting, StateOf, Head1, PublishCompletion
  <2>2. CASE ~MayPublish(completion[shard[w]], memory[w])
    BY <2>2, <1>1, <1>2, SameJobs, <1>c
       DEF Inside, WorkerOK, CopyOK, Opening, Attempting, StateOf, Head1, PublishCompletion
  <2> QED BY <2>1, <2>2
<1>7. ShardOK(shard[w])'
  <2>1. CASE MayPublish(completion[shard[w]], memory[w])
    BY <2>1, <1>1, <1>2, SameJobs, <1>c, BookIsSomething
       DEF Inside, ShardOK, LedgerOK, WorkerOK, CopyOK, Opening, Attempting, StateOf, Head1,
           HasResult, Pinned, Complete, MayPublish, PublishCompletion
  <2>2. CASE ~MayPublish(completion[shard[w]], memory[w])
    BY <2>2, <1>1, <1>2, SameJobs, <1>c, BookIsSomething
       DEF Inside, ShardOK, LedgerOK, WorkerOK, CopyOK, Opening, Attempting, StateOf, Head1,
           HasResult, Pinned, Complete, MayPublish, PublishCompletion
  <2> QED BY <2>1, <2>2
<1> QED BY <1>1, <1>2, <1>3, <1>4, <1>5, <1>6, <1>7, LocalKeeps

\* The receipt pins the files as they are.
LEMMA PublishReceiptKeeps ==
    ASSUME IInv, NEW w \in Workers, PublishReceipt(w)
    PROVE  IInv' /\ Local(w)
<1> USE DEF At, Goto, Constant, Evaluated, Faultless, Leave, files, aggregation
<1>1. pc[w] # "off" /\ Inside(w)
  BY InsideHolds DEF PublishReceipt
<1>2. /\ style' = style /\ shard' = shard
      /\ FilesOK /\ ProcessesOK /\ w \in DOMAIN pc /\ w \in DOMAIN memory /\ w \in DOMAIN todo
      /\ shard[w] \in DOMAIN ledger /\ shard[w] \in DOMAIN completion /\ shard[w] \in DOMAIN receipt
  BY <1>1 DEF Inside, IInv, FilesOK, ProcessesOK, PublishReceipt
<1>c. memory[w] = ledger[shard[w]] /\ Complete(memory[w]) /\ memory[w] \in Books(JobsOf(shard[w]))
  BY <1>1 DEF Inside, WorkerOK, CopyOK, Opening, PublishReceipt
<1>d. completion[shard[w]] = memory[w]
  BY <1>1 DEF Inside, WorkerOK, PublishReceipt
<1>3. Local(w)
  <2>1. CASE MayPublish(receipt[shard[w]], Pinned(shard[w]))
    BY <2>1, <1>1, <1>2 DEF Inside, FilesOK, ProcessesOK, Local, PublishReceipt
  <2>2. CASE ~MayPublish(receipt[shard[w]], Pinned(shard[w]))
    BY <2>2, <1>1, <1>2 DEF Inside, FilesOK, ProcessesOK, Local, PublishReceipt
  <2> QED BY <2>1, <2>2
<1>4. FilesOK'
  BY <1>1, <1>2 DEF FilesOK, PublishReceipt
<1>5. ProcessesOK'
  BY <1>1, <1>2, SameJobs
     DEF ProcessesOK, Inside, WorkerPcs, Opening, Attempting, PublishReceipt
<1>6. WorkerOK(w)'
  BY <1>1, <1>2, SameJobs, <1>c
     DEF Inside, WorkerOK, CopyOK, Opening, Attempting, StateOf, Head1, PublishReceipt
<1>7. ShardOK(shard[w])'
  <2>1. CASE MayPublish(receipt[shard[w]], Pinned(shard[w]))
    BY <2>1, <1>1, <1>2, SameJobs, <1>c, <1>d, BookIsSomething
       DEF Inside, ShardOK, LedgerOK, WorkerOK, CopyOK, Opening, Attempting, StateOf, Head1,
           HasResult, Pinned, Complete, MayPublish, PublishReceipt
  <2>2. CASE ~MayPublish(receipt[shard[w]], Pinned(shard[w]))
    BY <2>2, <1>1, <1>2, SameJobs, <1>c, <1>d, BookIsSomething
       DEF Inside, ShardOK, LedgerOK, WorkerOK, CopyOK, Opening, Attempting, StateOf, Head1,
           HasResult, Pinned, Complete, MayPublish, PublishReceipt
  <2> QED BY <2>1, <2>2
<1> QED BY <1>1, <1>2, <1>3, <1>4, <1>5, <1>6, <1>7, LocalKeeps

\* A death leaves the files.
LEMMA DieKeeps ==
    ASSUME IInv, NEW w \in Workers, Die(w)
    PROVE  IInv' /\ Local(w)
<1> USE DEF At, Goto, Constant, Evaluated, Unpublished, Leave, files, aggregation
<1>1. pc[w] # "off" /\ Inside(w)
  BY InsideHolds DEF Die
<1>2. /\ style' = style /\ shard' = shard
      /\ FilesOK /\ ProcessesOK /\ w \in DOMAIN pc /\ w \in DOMAIN memory /\ w \in DOMAIN todo
      /\ shard[w] \in DOMAIN ledger /\ shard[w] \in DOMAIN completion /\ shard[w] \in DOMAIN receipt
  BY <1>1 DEF Inside, IInv, FilesOK, ProcessesOK, Die
<1>q. faults + 1 \in 0 .. MaxFaults
  BY <1>2, ShardAssumption DEF ProcessesOK, Die
<1>3. Local(w)
  BY <1>1, <1>2 DEF Inside, FilesOK, ProcessesOK, Local, Die
<1>4. FilesOK'
  BY <1>1, <1>2 DEF FilesOK, Die
<1>5. ProcessesOK'
  BY <1>1, <1>2, <1>q, SameJobs DEF ProcessesOK, Inside, WorkerPcs, Opening, Attempting, Die
<1>6. WorkerOK(w)'
  BY <1>1, <1>2, SameJobs DEF Inside, WorkerOK, CopyOK, Opening, Attempting, StateOf, Head1, Die
<1>7. ShardOK(shard[w])'
  BY <1>1, <1>2, SameJobs
     DEF Inside, ShardOK, LedgerOK, WorkerOK, CopyOK, Opening, Attempting, StateOf, Head1,
         HasResult, Pinned, Complete, Die
<1> QED BY <1>1, <1>2, <1>3, <1>4, <1>5, <1>6, <1>7, LocalKeeps

\* A worker starts on a shard whose lock is free.
LEMMA StartKeeps ==
    ASSUME IInv, NEW w \in Workers, NEW s \in Shards, Start(w, s)
    PROVE  IInv'
<1> USE DEF At, Goto
<1>1. /\ FilesOK /\ ProcessesOK /\ w \in DOMAIN pc /\ w \in DOMAIN shard /\ s \in DOMAIN lock
      /\ style' = style /\ s \in Active /\ pc[w] = "off" /\ lock[s] = Nobody
  BY DEF IInv, FilesOK, ProcessesOK, Start, LockFree
<1>2. FilesOK'
  BY <1>1 DEF FilesOK, Start, Evaluated, files
<1>3. reruns' \in 0 .. MaxReruns
  <2>1. CASE receipt[s] = Nothing
    BY <2>1, <1>1 DEF ProcessesOK, Start
  <2>2. CASE receipt[s] # Nothing
    BY <2>2, <1>1, ShardAssumption DEF ProcessesOK, Start
  <2> QED BY <2>1, <2>2
<1>4. ProcessesOK'
  BY <1>1, <1>3, SameJobs DEF ProcessesOK, Start, WorkerPcs, Opening, files, aggregation
<1>5. ASSUME NEW v \in Workers PROVE WorkerOK(v)'
  <2>1. CASE v = w
    BY <2>1, <1>1 DEF WorkerOK, CopyOK, Opening, Attempting, Start, files
  <2>2. CASE v # w
    <3>1. WorkerOK(v)
      BY DEF IInv
    <3>2. /\ pc'[v] = pc[v] /\ shard'[v] = shard[v] /\ memory'[v] = memory[v] /\ todo'[v] = todo[v]
          /\ ledger' = ledger /\ completion' = completion
      BY <2>2, <1>1 DEF Start, files
    <3>4. evidence' = evidence
      BY DEF Start, Evaluated
    <3>3. pc[v] # "off" => lock'[shard[v]] = v
      <4>1. pc[v] # "off" => lock[shard[v]] = v /\ v # Nobody
        BY <3>1, ShardAssumption DEF WorkerOK
      <4> QED BY <4>1, <1>1 DEF Start
    <3> QED BY <3>1, <3>2, <3>3, <3>4, <1>1, SameJobs DEF WorkerOK, CopyOK, StateOf, Head1, Complete
  <2> QED BY <2>1, <2>2
<1>6. ASSUME NEW t \in Shards PROVE ShardOK(t)'
  <2>1. ShardOK(t)
    BY DEF IInv
  <2>2. ledger' = ledger /\ completion' = completion /\ receipt' = receipt /\ evidence' = evidence
    BY DEF Start, Evaluated, files
  <2> QED BY <2>1, <2>2, <1>1, SameJobs DEF ShardOK, LedgerOK, HasResult, Complete, Pinned
<1> QED BY <1>2, <1>4, <1>5, <1>6 DEF IInv

\* A step that leaves the workers and the files of the shards alone.
LEMMA UntouchedKeeps ==
    ASSUME IInv, WorkersUntouched, ProcessesOK'
    PROVE  IInv'
<1>1. FilesOK'
  BY DEF IInv, FilesOK, WorkersUntouched
<1>2. ASSUME NEW v \in Workers PROVE WorkerOK(v)'
  BY SameJobs DEF IInv, WorkerOK, CopyOK, StateOf, Head1, Complete, WorkersUntouched
<1>3. ASSUME NEW t \in Shards PROVE ShardOK(t)'
  BY SameJobs DEF IInv, ShardOK, LedgerOK, HasResult, Complete, Pinned, WorkersUntouched
<1> QED BY <1>1, <1>2, <1>3 DEF IInv

\* The aggregator only reads what the workers have written.
LEMMA AggregatorKeeps ==
    ASSUME IInv, AggStep \/ AggDie
    PROVE  IInv'
<1>1. ProcessesOK /\ WorkersUntouched
  BY DEF IInv, AggStep, AggDie, AggStart, AggReport, AggAccept, AggRead
<1>2. Active' = Active
  BY <1>1, SameJobs DEF WorkersUntouched
<1>3. CASE AggStart
  BY <1>1, <1>2, <1>3, UntouchedKeeps DEF ProcessesOK, WorkersUntouched, AggStart
<1>4. CASE AggReport
  BY <1>1, <1>2, <1>4, UntouchedKeeps DEF ProcessesOK, WorkersUntouched, AggReport
<1>5. CASE AggAccept
  BY <1>1, <1>2, <1>5, UntouchedKeeps DEF ProcessesOK, WorkersUntouched, AggAccept
<1>6. ASSUME NEW s \in Shards, AggRead(s) PROVE IInv'
  <2>1. CASE Readable(s)
    BY <1>1, <1>2, <1>6, <2>1, UntouchedKeeps DEF ProcessesOK, WorkersUntouched, AggRead
  <2>2. CASE ~Readable(s)
    BY <1>1, <1>2, <1>6, <2>2, UntouchedKeeps DEF ProcessesOK, WorkersUntouched, AggRead
  <2> QED BY <2>1, <2>2
<1>7. CASE AggDie
  <2>1. faults + 1 \in 0 .. MaxFaults
    BY <1>1, <1>7, ShardAssumption DEF ProcessesOK, AggDie
  <2> QED BY <1>1, <1>2, <1>7, <2>1, UntouchedKeeps DEF ProcessesOK, WorkersUntouched, AggDie
<1> QED BY <1>3, <1>4, <1>5, <1>6, <1>7 DEF AggStep

-----------------------------------------------------------------------------
(* The theorems *)

\* Every step of a worker keeps the invariant.
LEMMA WorkerStepKeeps ==
    ASSUME IInv, NEW w \in Workers, WorkerStep(w)
    PROVE  IInv'
BY OpenLedgerKeeps, QuarantineKeeps, PreflightKeeps, ReconcileKeeps, PassOverKeeps,
   EndReconcileKeeps,
   ClaimKeeps, BeginRolloutKeeps, EndRolloutKeeps, WriteResultKeeps, VerifyRaisesKeeps, FinishKeeps,
   HaltKeeps, EndJobsKeeps, PublishCompletionKeeps, PublishReceiptKeeps
   DEF WorkerStep

\* Every step of the system keeps it.
LEMMA NextIInv == IInv /\ [Next]_vars => IInv'
<1> SUFFICES ASSUME IInv, [Next]_vars PROVE IInv'
  OBVIOUS
<1>1. CASE UNCHANGED vars
  <2>1. ProcessesOK' /\ WorkersUntouched
    BY <1>1, SameJobs DEF IInv, ProcessesOK, WorkersUntouched, vars, files, aggregation
  <2> QED BY <2>1, UntouchedKeeps
<1>2. ASSUME NEW w \in Workers, WorkerStep(w) PROVE IInv'
  BY <1>2, WorkerStepKeeps
<1>3. ASSUME NEW w \in Workers, FinishRaises(w) PROVE IInv'
  BY <1>3, FinishRaisesKeeps
<1>4. ASSUME NEW w \in Workers, Die(w) PROVE IInv'
  BY <1>4, DieKeeps
<1>5. ASSUME NEW w \in Workers, NEW s \in Shards, Start(w, s) PROVE IInv'
  BY <1>5, StartKeeps
<1>6. CASE AggStep \/ AggDie
  BY <1>6, AggregatorKeeps
<1> QED BY <1>1, <1>2, <1>3, <1>4, <1>5, <1>6 DEF Next

LEMMA Invariant == Spec => []IInv
BY InitIInv, NextIInv, PTL DEF Spec

\* Every file and every worker has its type: a copy is a ledger of the worker's
\* shard from the moment it has been read (CoreFinalLedger.validate).
THEOREM TypeCorrect == Spec => []TypeOK
<1>1. IInv => TypeOK
  BY DEF IInv, TypeOK, WorkerOK, ShardOK
<1> QED BY Invariant, <1>1, PTL

\* What a shard has published stays what its ledger says, whoever runs the
\* shard again (publish_once and quarantine_running).
THEOREM PinnedForever == Spec => []ReceiptsPinTheLedger
<1>1. IInv => ReceiptsPinTheLedger
  BY DEF IInv, ShardOK, ReceiptsPinTheLedger
<1> QED BY Invariant, <1>1, PTL

\* No job is written off once its result is on disk (the except branch of run).
THEOREM ResultsSurvive == Spec => []ResultsAreNotWrittenOff
<1>1. IInv => ResultsAreNotWrittenOff
  <2> SUFFICES ASSUME IInv, NEW j \in Jobs, HasResult(j) PROVE Recorded(j) # "failed"
    BY DEF ResultsAreNotWrittenOff, HasResult
  <2>1. Owner(j) \in Shards /\ j \in JobsOf(Owner(j))
    BY OwnerType DEF IInv, FilesOK
  <2>2. ShardOK(Owner(j))
    BY <2>1 DEF IInv
  <2> QED BY <2>1, <2>2 DEF ShardOK, Recorded
<1> QED BY Invariant, <1>1, PTL

-----------------------------------------------------------------------------
(***************************************************************************)
(* ShardRunner implements JobAcceptance                                    *)
(***************************************************************************)

\* A pass of the aggregator has found published what it has read.
AggInv ==
    /\ agg # "off" => ~Core /\ \A s \in Shards \ unread : completion[s] # Nothing
    /\ agg = "reported" => unread = {}

\* A published shard stays published.
LEMMA CompletionStays ==
    ASSUME IInv, NEW w \in Workers, WorkerStep(w) \/ FinishRaises(w) \/ Die(w), NEW s \in Shards,
           completion[s] # Nothing
    PROVE  completion'[s] # Nothing
<1>1. CASE PublishCompletion(w)
  <2>1. pc[w] # "off" /\ Inside(w) /\ memory[w] \in Books(JobsOf(shard[w]))
    BY <1>1, InsideHolds DEF PublishCompletion, At, Inside, WorkerOK, CopyOK
  <2>2. memory[w] # Nothing
    BY <2>1, BookIsSomething DEF Inside
  <2>3. s \in DOMAIN completion
    BY DEF IInv, FilesOK
  <2> QED BY <1>1, <2>2, <2>3 DEF PublishCompletion
<1>2. CASE PublishReceipt(w)
  BY <1>2 DEF PublishReceipt
<1>3. CASE ~PublishCompletion(w) /\ ~PublishReceipt(w)
  BY <1>3
     DEF WorkerStep, FinishRaises, Die, OpenLedger, Quarantine, Preflight, Reconcile,
         PassOver,
              EndReconcile, Claim, BeginRollout, EndRollout, WriteResult, VerifyRaises, Finish, Halt,
              EndJobs, Unpublished
<1> QED BY <1>1, <1>2, <1>3

LEMMA AggInvStep == IInv /\ AggInv /\ [Next]_vars => AggInv'
<1> SUFFICES ASSUME IInv, AggInv, [Next]_vars PROVE AggInv'
  OBVIOUS
<1>1. ASSUME NEW w \in Workers, WorkerStep(w) \/ FinishRaises(w) \/ Die(w) PROVE AggInv'
  <2>1. agg' = agg /\ unread' = unread /\ Core' = Core
    BY <1>1 DEF WorkerStep, FinishRaises, Die, OpenLedger, Quarantine, Preflight, Reconcile,
                PassOver, EndReconcile, Claim, BeginRollout, EndRollout, WriteResult, VerifyRaises,
                Finish, Halt, EndJobs, PublishCompletion, PublishReceipt, Constant, Core, aggregation
  <2> QED BY <1>1, <2>1, CompletionStays DEF AggInv
<1>2. ASSUME NEW w \in Workers, NEW s \in Shards, Start(w, s) PROVE AggInv'
  BY <1>2 DEF AggInv, Start, Core, files, aggregation
<1>3. CASE AggStart
  BY <1>3 DEF AggInv, AggStart, WorkersUntouched, Core
<1>4. ASSUME NEW s \in Shards, AggRead(s) PROVE AggInv'
  BY <1>4 DEF AggInv, AggRead, Readable, WorkersUntouched, Core
<1>5. CASE AggReport \/ AggAccept \/ AggDie \/ UNCHANGED vars
  BY <1>5
     DEF AggInv, AggReport, AggAccept, AggDie, WorkersUntouched, Core, vars, files,
         aggregation
<1> QED BY <1>1, <1>2, <1>3, <1>4, <1>5 DEF Next, AggStep

\* What the promise sees of a job, from its entry in the ledger and its evidence.
Level(state, found) ==
    CASE state = "pending" -> "open"
      [] state = "succeeded" -> "accepted"
      [] state \notin {"pending", "succeeded"} ->
            CASE found = "none" -> "reserved"
              [] found = "result" -> "evidenced"
              [] found \notin {"none", "result"} -> "spent"

Here(w, j) == IF ledger[shard[w]] = Nothing THEN "pending" ELSE ledger[shard[w]].jobs[j]

\* The jobs of the worker's shard are seen through its ledger, the others not touched.
LEMMA Seen ==
    ASSUME IInv, NEW w \in Workers, pc[w] # "off", Local(w)
    PROVE  /\ \A j \in JobsOf(shard[w]) : Phase(j) = Level(Here(w, j), evidence[j])
           /\ \A j \in JobsOf(shard[w]) : Phase(j)' = Level(Here(w, j)', evidence'[j])
           /\ \A j \in Jobs \ JobsOf(shard[w]) : Phase(j)' = Phase(j)
           /\ Core' = Core /\ JobsOf(shard[w]) \subseteq Jobs
<1>1. Inside(w) /\ style' = style /\ shard' = shard
  BY InsideHolds DEF Local
<1>2. \A j \in Jobs :
        Owner(j)' = Owner(j) /\ Owner(j) \in Shards /\ Owner(j) \in Active /\ j \in JobsOf(Owner(j))
  BY <1>1, SameJobs, OwnerType DEF Owner, Inside
<1>3. \A j \in JobsOf(shard[w]) : j \in Jobs /\ Owner(j) = shard[w]
  BY <1>1, <1>2, Disjoint DEF Inside
<1>4. \A j \in JobsOf(shard[w]) : Recorded(j) = Here(w, j) /\ Recorded(j)' = Here(w, j)'
  BY <1>1, <1>2, <1>3 DEF Recorded, Here
<1>5. \A j \in Jobs \ JobsOf(shard[w]) : Recorded(j)' = Recorded(j) /\ evidence'[j] = evidence[j]
  BY <1>1, <1>2 DEF Recorded, Local
<1>6. \A j : Phase(j) = Level(Recorded(j), evidence[j])
  BY DEF Phase, Level
<1>7. \A j : Phase(j)' = Level(Recorded(j)', evidence'[j])
  BY DEF Phase, Level
<1>8. \A j \in Jobs \ JobsOf(shard[w]) : Phase(j)' = Phase(j)
  BY <1>5, <1>6, <1>7
<1> QED BY <1>1, <1>3, <1>4, <1>6, <1>7, <1>8, SameJobs DEF Inside

\* A step after which the ledger and the evidence say the same of every job.
LEMMA Stutters ==
    ASSUME IInv, NEW w \in Workers, pc[w] # "off", Local(w),
           UNCHANGED <<calls, receipt, final>>,
           \A j \in JobsOf(shard[w]) : Level(Here(w, j)', evidence'[j]) = Level(Here(w, j), evidence[j])
    PROVE  UNCHANGED Promise!vars
<1>1. \A j \in Jobs : Phase(j)' = Phase(j)
  BY Seen
<1>2. Published' = Published
  BY Seen DEF Published
<1> QED BY <1>1, <1>2 DEF Promise!vars

\* A step that changes what they say of one job moves that job alone.
LEMMA MovesOne ==
    ASSUME IInv, NEW w \in Workers, pc[w] # "off", Local(w), UNCHANGED <<receipt, final>>,
           NEW h \in JobsOf(shard[w]),
           \A j \in JobsOf(shard[w]) \ {h} :
                Level(Here(w, j)', evidence'[j]) = Level(Here(w, j), evidence[j]),
           NEW from, NEW to, from = Level(Here(w, h), evidence[h]), to = Level(Here(w, h)', evidence'[h])
    PROVE  h \in Jobs /\ Promise!Move(h, from, to)
<1>1. h \in Jobs /\ Phase(h) = from /\ Phase(h)' = to
  BY Seen
<1>2. \A j \in Jobs \ {h} : Phase(j)' = Phase(j)
  BY Seen
<1>3. Published' = Published
  BY Seen DEF Published
<1> QED BY <1>1, <1>2, <1>3 DEF Promise!Move

\* Steps that touch nothing of what the promise sees.
seen == <<style, ledger, evidence, calls, receipt, final>>

LEMMA Unseen == UNCHANGED seen => UNCHANGED Promise!vars
BY DEF seen, Promise!vars, Phase, Recorded, Owner, Published, Active, JobsOf, Order, Core

\* Reading, creating and quarantining a ledger.
LEMMA OpenLedgerRefines ==
    ASSUME IInv, NEW w \in Workers, OpenLedger(w)
    PROVE  [Promise!Next]_Promise!vars
<1> USE DEF At, Goto, Constant, Evaluated, Unpublished, Faultless, Keeps, Next1, Left, Save,
            ItsJob
<1>1. pc[w] # "off" /\ Inside(w) /\ Local(w) /\ FilesOK /\ shard[w] \in DOMAIN ledger
  BY InsideHolds, OpenLedgerKeeps DEF OpenLedger, Inside, IInv, FilesOK
<1>2. UNCHANGED <<calls, receipt, final, evidence>>
  BY DEF OpenLedger, files
<1>3. \A j \in JobsOf(shard[w]) : Here(w, j)' = Here(w, j)
  <2>1. CASE ledger[shard[w]] = Nothing
    BY <2>1, <1>1 DEF OpenLedger, Here, FreshLedger
  <2>2. CASE ledger[shard[w]] # Nothing
    BY <2>2, <1>1 DEF OpenLedger, Here
  <2> QED BY <2>1, <2>2
<1> QED BY <1>1, <1>2, <1>3, Stutters

LEMMA QuarantineRefines ==
    ASSUME IInv, NEW w \in Workers, Quarantine(w)
    PROVE  [Promise!Next]_Promise!vars
<1> USE DEF At, Goto, Constant, Evaluated, Unpublished, Faultless, Keeps, Next1, Left, Save,
            ItsJob
<1>1. pc[w] # "off" /\ Inside(w) /\ Local(w) /\ FilesOK /\ shard[w] \in DOMAIN ledger
  BY InsideHolds, QuarantineKeeps DEF Quarantine, Inside, IInv, FilesOK
<1>2. UNCHANGED <<calls, receipt, final, evidence>>
  BY DEF Quarantine, files
<1>3. memory[w] \in Books(JobsOf(shard[w])) /\ memory[w] = ledger[shard[w]] /\ memory[w] # Nothing
  BY <1>1, BookIsSomething DEF Inside, WorkerOK, CopyOK, Quarantine, Opening
<1>4. ledger'[shard[w]] = Quarantined(memory[w]) /\ ledger'[shard[w]] # Nothing /\ shard' = shard
  BY <1>1, <1>3, QuarantinedType, BookIsSomething DEF Quarantine, Inside
<1>5. \A j \in JobsOf(shard[w]) :
        Here(w, j)' = Here(w, j) \/ (Here(w, j) = "running" /\ Here(w, j)' = "orphaned")
  BY <1>1, <1>3, <1>4 DEF Here, Quarantined, Books
<1>6. \A j \in JobsOf(shard[w]) : Level(Here(w, j)', evidence'[j]) = Level(Here(w, j), evidence[j])
  BY <1>2, <1>5 DEF Level
<1> QED BY <1>1, <1>2, <1>6, Stutters

\* A halt fails or orphans a running job, which the promise does not tell apart.
LEMMA HaltRefines ==
    ASSUME IInv, NEW w \in Workers, Halt(w)
    PROVE  [Promise!Next]_Promise!vars
<1> USE DEF At, Goto, Constant, Evaluated, Unpublished, Faultless, Keeps, Next1, Left, Save,
            ItsJob
<1>1. pc[w] # "off" /\ Inside(w) /\ Local(w) /\ FilesOK /\ shard[w] \in DOMAIN ledger
  BY InsideHolds, HaltKeeps DEF Halt, Inside, IInv, FilesOK
<1>2. UNCHANGED <<calls, receipt, final, evidence>>
  BY DEF Halt, files
<1>3. CASE StateOf(w) # "running"
  <2>1. UNCHANGED seen
    BY <1>3 DEF Halt, seen, files
  <2> QED BY <2>1, Unseen
<1>4. CASE StateOf(w) = "running"
  <2>1. memory[w] = ledger[shard[w]] /\ todo[w] # <<>>
    BY <1>1, <1>4 DEF Inside, WorkerOK, Halt
  <2>2. ItsJob(w)
    BY <1>1, <2>1, AtJob DEF Halt, Opening
  <2>3. PICK state \in {"failed", "orphaned"} : ledger'[shard[w]] = Moved(memory[w], Head1(w), state)
    BY <1>1, <1>4 DEF Halt
  <2>4. OnlyMoves(w, state)
    BY <2>2, MovesItsJob DEF States
  <2>5. memory[w] # Nothing /\ ledger'[shard[w]] # Nothing /\ shard' = shard
    BY <1>1, <2>2, <2>3, <2>4, BookIsSomething DEF OnlyMoves, Inside, Halt
  <2>6. \A j \in JobsOf(shard[w]) :
            Here(w, j)' = Here(w, j) \/ (Here(w, j) = "running" /\ Here(w, j)' = state)
    BY <1>4, <2>1, <2>2, <2>3, <2>4, <2>5 DEF Here, OnlyMoves, StateOf
  <2>7. \A j \in JobsOf(shard[w]) : Level(Here(w, j)', evidence'[j]) = Level(Here(w, j), evidence[j])
    BY <1>2, <2>6 DEF Level
  <2> QED BY <1>1, <1>2, <2>7, Stutters
<1> QED BY <1>3, <1>4

\* A claim reserves the job.
LEMMA ClaimRefines ==
    ASSUME IInv, NEW w \in Workers, Claim(w)
    PROVE  [Promise!Next]_Promise!vars
<1> USE DEF At, Goto, Constant, Evaluated, Unpublished, Faultless, Keeps, Next1, Left, Save,
            ItsJob
<1>1. pc[w] # "off" /\ Inside(w) /\ Local(w) /\ FilesOK /\ shard[w] \in DOMAIN ledger
  BY InsideHolds, ClaimKeeps DEF Claim, Inside, IInv, FilesOK
<1>2. UNCHANGED <<calls, receipt, final, evidence>>
  BY DEF Claim, files
<1>3. ItsJob(w) /\ OnlyMoves(w, "running")
  <2>1. ItsJob(w)
    BY <1>1, AtJob DEF Claim, Inside, WorkerOK, Opening, Attempting
  <2> QED BY <2>1, MovesItsJob DEF States
<1>4. memory[w] = ledger[shard[w]] /\ memory[w] # Nothing /\ StateOf(w) = "pending"
  BY <1>1, <1>3, BookIsSomething DEF Inside, WorkerOK, Attempting, Opening, Claim
<1>5. ledger'[shard[w]] = Moved(memory[w], Head1(w), "running") /\ ledger'[shard[w]] # Nothing /\ shard' = shard
  BY <1>1, <1>3, BookIsSomething DEF Claim, OnlyMoves, Inside
<1>6. PICK h \in JobsOf(shard[w]) : h = Head1(w)
  BY <1>3
<1>7. /\ Here(w, h) = "pending" /\ Here(w, h)' = "running"
      /\ \A j \in JobsOf(shard[w]) \ {h} : Here(w, j)' = Here(w, j)
  BY <1>3, <1>4, <1>5, <1>6 DEF Here, OnlyMoves, StateOf
<1>8. evidence[h] = "none"
  BY <1>1, <1>3, <1>4, <1>6 DEF Inside, ShardOK, Claim, StateOf
<1>9. Level(Here(w, h), evidence[h]) = "open" /\ Level(Here(w, h)', evidence'[h]) = "reserved"
  BY <1>2, <1>7, <1>8 DEF Level
<1>10. h \in Jobs /\ Promise!Move(h, "open", "reserved")
  BY <1>1, <1>2, <1>7, <1>9, MovesOne
<1> QED BY <1>2, <1>10 DEF Promise!Next, Promise!Reserve

\* Moving a job with a verified result to succeeded accepts it.
LEMMA Accepts ==
    ASSUME IInv, NEW w \in Workers, pc[w] # "off", Local(w), ItsJob(w),
           memory[w] = ledger[shard[w]], StateOf(w) \in {"running", "orphaned"},
           evidence[Head1(w)] = "result",
           ledger'[shard[w]] = Moved(memory[w], Head1(w), "succeeded"),
           UNCHANGED <<calls, receipt, final, evidence>>
    PROVE  [Promise!Next]_Promise!vars
<1>1. Inside(w) /\ OnlyMoves(w, "succeeded") /\ shard' = shard
  BY InsideHolds, MovesItsJob DEF States, Local
<1>2. memory[w] # Nothing /\ ledger'[shard[w]] # Nothing
  BY <1>1, BookIsSomething DEF Inside, ItsJob, OnlyMoves
<1>3. PICK h \in JobsOf(shard[w]) : h = Head1(w)
  BY DEF ItsJob
<1>4. /\ Here(w, h) \in {"running", "orphaned"} /\ Here(w, h)' = "succeeded"
      /\ \A j \in JobsOf(shard[w]) \ {h} : Here(w, j)' = Here(w, j)
  BY <1>1, <1>2, <1>3 DEF Here, OnlyMoves, StateOf
<1>5. Level(Here(w, h), evidence[h]) = "evidenced" /\ Level(Here(w, h)', evidence'[h]) = "accepted"
  BY <1>3, <1>4 DEF Level
<1>6. h \in Jobs /\ Promise!Move(h, "evidenced", "accepted")
  BY <1>4, <1>5, MovesOne
<1> QED BY <1>6 DEF Promise!Next, Promise!Accept

\* It is accepted by finish, by a finish that raises after the file is replaced,
\* and when a later run finds the result of an orphan.
LEMMA FinishRefines ==
    ASSUME IInv, NEW w \in Workers, Finish(w)
    PROVE  [Promise!Next]_Promise!vars
<1> USE DEF At, Goto, Constant, Evaluated, Unpublished, Faultless, Keeps, Next1, Left, Save,
            ItsJob
<1>1. pc[w] # "off" /\ Inside(w) /\ Local(w) /\ FilesOK /\ shard[w] \in DOMAIN ledger
  BY InsideHolds, FinishKeeps DEF Finish, Inside, IInv, FilesOK
<1>2. UNCHANGED <<calls, receipt, final, evidence>> /\ evidence[Head1(w)] = "result"
  BY DEF Finish, files
<1>3. memory[w] = ledger[shard[w]] /\ todo[w] # <<>> /\ StateOf(w) = "running"
  BY <1>1 DEF Inside, WorkerOK, Attempting, Finish
<1>4. ItsJob(w)
  BY <1>1, <1>3, AtJob DEF Finish, Opening
<1>5. ledger'[shard[w]] = Moved(memory[w], Head1(w), "succeeded")
  BY <1>1 DEF Finish
<1> QED BY <1>1, <1>2, <1>3, <1>4, <1>5, Accepts

LEMMA FinishRaisesRefines ==
    ASSUME IInv, NEW w \in Workers, FinishRaises(w)
    PROVE  [Promise!Next]_Promise!vars
<1> USE DEF At, Goto, Constant, Evaluated, Unpublished, Faultless, Keeps, Next1, Left, Save,
            ItsJob
<1>1. pc[w] # "off" /\ Inside(w) /\ Local(w) /\ FilesOK /\ shard[w] \in DOMAIN ledger
  BY InsideHolds, FinishRaisesKeeps DEF FinishRaises, Inside, IInv, FilesOK
<1>2. UNCHANGED <<calls, receipt, final, evidence>> /\ evidence[Head1(w)] = "result"
  BY DEF FinishRaises, files
<1>3. memory[w] = ledger[shard[w]] /\ todo[w] # <<>> /\ StateOf(w) = "running"
  BY <1>1 DEF Inside, WorkerOK, Attempting, FinishRaises
<1>4. ItsJob(w)
  BY <1>1, <1>3, AtJob DEF FinishRaises, Opening
<1>5. PICK kept \in {ledger[shard[w]], Moved(memory[w], Head1(w), "succeeded")} :
        ledger' = [ledger EXCEPT ![shard[w]] = kept]
  BY DEF FinishRaises
<1>6. CASE kept = ledger[shard[w]]
  <2>1. ledger' = ledger
    BY <1>1, <1>5, <1>6 DEF FilesOK
  <2>2. UNCHANGED seen
    BY <1>2, <2>1 DEF seen, FinishRaises
  <2> QED BY <2>2, Unseen
<1>7. CASE kept = Moved(memory[w], Head1(w), "succeeded")
  <2>1. ledger'[shard[w]] = Moved(memory[w], Head1(w), "succeeded")
    BY <1>1, <1>5, <1>7
  <2> QED BY <1>1, <1>2, <1>3, <1>4, <2>1, Accepts
<1> QED BY <1>5, <1>6, <1>7

LEMMA ReconcileRefines ==
    ASSUME IInv, NEW w \in Workers, Reconcile(w)
    PROVE  [Promise!Next]_Promise!vars
<1> USE DEF At, Goto, Constant, Evaluated, Unpublished, Faultless, Keeps, Next1, Left, Save,
            ItsJob
<1>1. pc[w] # "off" /\ Inside(w) /\ Local(w) /\ FilesOK /\ shard[w] \in DOMAIN ledger
  BY InsideHolds, ReconcileKeeps DEF Reconcile, Verifying, Inside, IInv, FilesOK
<1>2. UNCHANGED <<calls, receipt, final, evidence>>
  BY DEF Reconcile, files
<1>3. CASE evidence[Head1(w)] # "result" \/ StateOf(w) # "orphaned"
  <2>1. UNCHANGED seen
    BY <1>2, <1>3 DEF seen, Reconcile, Leave
  <2> QED BY <2>1, Unseen
<1>4. CASE evidence[Head1(w)] = "result" /\ StateOf(w) = "orphaned"
  <2>1. memory[w] = ledger[shard[w]] /\ todo[w] # <<>>
    BY <1>1 DEF Inside, WorkerOK, Reconcile, Verifying
  <2>2. ItsJob(w)
    BY <1>1, <2>1, AtJob DEF Reconcile, Verifying, Opening
  <2>3. ledger'[shard[w]] = Moved(memory[w], Head1(w), "succeeded")
    BY <1>1, <1>4 DEF Reconcile
  <2> QED BY <1>1, <1>2, <1>4, <2>1, <2>2, <2>3, Accepts
<1> QED BY <1>3, <1>4

\* The start of the rollout spends the job, its one result is evidence.
LEMMA BeginRolloutRefines ==
    ASSUME IInv, NEW w \in Workers, BeginRollout(w)
    PROVE  [Promise!Next]_Promise!vars
<1> USE DEF At, Goto, Constant, Evaluated, Unpublished, Faultless, Keeps, Next1, Left, Save,
            ItsJob
<1>1. pc[w] # "off" /\ Inside(w) /\ Local(w) /\ FilesOK /\ shard[w] \in DOMAIN ledger
  BY InsideHolds, BeginRolloutKeeps DEF BeginRollout, Inside, IInv, FilesOK
<1>2. /\ UNCHANGED <<receipt, final>> /\ ledger' = ledger /\ shard' = shard
      /\ todo[w] # <<>> /\ memory[w] = ledger[shard[w]] /\ StateOf(w) = "running"
  BY <1>1 DEF BeginRollout, files, Inside, WorkerOK, Attempting
<1>3. ItsJob(w) /\ memory[w] # Nothing
  <2>1. ItsJob(w)
    BY <1>1, <1>2, AtJob DEF BeginRollout, Opening
  <2> QED BY <1>1, <2>1, BookIsSomething DEF Inside
<1>4. PICK h \in JobsOf(shard[w]) : h = Head1(w) /\ h \in DOMAIN evidence /\ h \in DOMAIN calls
  BY <1>1, <1>3 DEF FilesOK
<1>5. Here(w, h) = "running" /\ \A j \in JobsOf(shard[w]) : Here(w, j)' = Here(w, j)
  BY <1>2, <1>3, <1>4 DEF Here, StateOf
<1>6. /\ evidence[h] = "none" /\ evidence'[h] = "started"
      /\ \A j \in JobsOf(shard[w]) \ {h} : evidence'[j] = evidence[j]
      /\ calls' = [calls EXCEPT ![h] = calls[h] + 1]
  BY <1>1, <1>4 DEF Inside, WorkerOK, BeginRollout
<1>7. Level(Here(w, h), evidence[h]) = "reserved" /\ Level(Here(w, h)', evidence'[h]) = "spent"
  BY <1>5, <1>6 DEF Level
<1>8. h \in Jobs /\ Promise!Move(h, "reserved", "spent")
  BY <1>1, <1>2, <1>5, <1>6, <1>7, MovesOne
<1> QED BY <1>6, <1>8 DEF Promise!Next, Promise!Execute

LEMMA EndRolloutRefines ==
    ASSUME IInv, NEW w \in Workers, EndRollout(w)
    PROVE  [Promise!Next]_Promise!vars
<1> USE DEF At, Goto, Constant, Evaluated, Unpublished, Faultless, Keeps, Next1, Left, Save,
            ItsJob
<1>1. pc[w] # "off" /\ Inside(w) /\ Local(w) /\ FilesOK /\ shard[w] \in DOMAIN ledger
  BY InsideHolds, EndRolloutKeeps DEF EndRollout, Inside, IInv, FilesOK
<1>2. /\ UNCHANGED <<receipt, final>> /\ ledger' = ledger /\ shard' = shard
      /\ todo[w] # <<>> /\ memory[w] = ledger[shard[w]] /\ StateOf(w) = "running"
  BY <1>1 DEF EndRollout, files, Inside, WorkerOK, Attempting
<1>3. ItsJob(w) /\ memory[w] # Nothing
  <2>1. ItsJob(w)
    BY <1>1, <1>2, AtJob DEF EndRollout, Opening
  <2> QED BY <1>1, <2>1, BookIsSomething DEF Inside
<1>4. PICK h \in JobsOf(shard[w]) : h = Head1(w) /\ h \in DOMAIN evidence /\ h \in DOMAIN calls
  BY <1>1, <1>3 DEF FilesOK
<1>5. Here(w, h) = "running" /\ \A j \in JobsOf(shard[w]) : Here(w, j)' = Here(w, j)
  BY <1>2, <1>3, <1>4 DEF Here, StateOf
<1>6. /\ evidence[h] = "started" /\ evidence'[h] \in {"started", "closed"} /\ calls' = calls
      /\ \A j \in JobsOf(shard[w]) \ {h} : evidence'[j] = evidence[j]
  <2>1. evidence' = evidence \/ evidence' = [evidence EXCEPT ![h] = "closed"]
    BY <1>4 DEF EndRollout
  <2>2. evidence[h] = "started" /\ calls' = calls
    BY <1>1, <1>4 DEF Inside, WorkerOK, EndRollout
  <2> QED BY <2>1, <2>2, <1>1, <1>4 DEF Inside, FilesOK
<1>7. \A j \in JobsOf(shard[w]) : Level(Here(w, j)', evidence'[j]) = Level(Here(w, j), evidence[j])
  BY <1>5, <1>6 DEF Level
<1> QED BY <1>1, <1>2, <1>6, <1>7, Stutters

LEMMA WriteResultRefines ==
    ASSUME IInv, NEW w \in Workers, WriteResult(w)
    PROVE  [Promise!Next]_Promise!vars
<1> USE DEF At, Goto, Constant, Evaluated, Unpublished, Faultless, Keeps, Next1, Left, Save,
            ItsJob
<1>1. pc[w] # "off" /\ Inside(w) /\ Local(w) /\ FilesOK /\ shard[w] \in DOMAIN ledger
  BY InsideHolds, WriteResultKeeps DEF WriteResult, Inside, IInv, FilesOK
<1>2. /\ UNCHANGED <<receipt, final>> /\ ledger' = ledger /\ shard' = shard
      /\ todo[w] # <<>> /\ memory[w] = ledger[shard[w]] /\ StateOf(w) = "running"
  BY <1>1 DEF WriteResult, files, Inside, WorkerOK, Attempting
<1>3. ItsJob(w) /\ memory[w] # Nothing
  <2>1. ItsJob(w)
    BY <1>1, <1>2, AtJob DEF WriteResult, Opening
  <2> QED BY <1>1, <2>1, BookIsSomething DEF Inside
<1>4. PICK h \in JobsOf(shard[w]) : h = Head1(w) /\ h \in DOMAIN evidence /\ h \in DOMAIN calls
  BY <1>1, <1>3 DEF FilesOK
<1>5. Here(w, h) = "running" /\ \A j \in JobsOf(shard[w]) : Here(w, j)' = Here(w, j)
  BY <1>2, <1>3, <1>4 DEF Here, StateOf
<1>6. /\ evidence[h] = "closed" /\ evidence'[h] \in {"closed", "result", "bad"} /\ calls' = calls
      /\ \A j \in JobsOf(shard[w]) \ {h} : evidence'[j] = evidence[j]
  <2>1. evidence' = evidence \/ \E found \in {"result", "bad"} : evidence' = [evidence EXCEPT ![h] = found]
    BY <1>4 DEF WriteResult
  <2>2. evidence[h] = "closed" /\ calls' = calls
    BY <1>1, <1>4 DEF Inside, WorkerOK, WriteResult
  <2> QED BY <2>1, <2>2, <1>1, <1>4 DEF Inside, FilesOK
<1>7. CASE evidence'[h] # "result"
  <2>1. \A j \in JobsOf(shard[w]) : Level(Here(w, j)', evidence'[j]) = Level(Here(w, j), evidence[j])
    BY <1>5, <1>6, <1>7 DEF Level
  <2> QED BY <1>1, <1>2, <1>6, <2>1, Stutters
<1>8. CASE evidence'[h] = "result"
  <2>1. Level(Here(w, h), evidence[h]) = "spent" /\ Level(Here(w, h)', evidence'[h]) = "evidenced"
    BY <1>5, <1>6, <1>8 DEF Level
  <2>2. h \in Jobs /\ Promise!Move(h, "spent", "evidenced")
    BY <1>1, <1>2, <1>5, <1>6, <2>1, MovesOne
  <2> QED BY <1>6, <2>2 DEF Promise!Next, Promise!Evidence
<1> QED BY <1>7, <1>8

\* The receipt of the core study is written when its ledger is complete.
LEMMA AllAccepted ==
    ASSUME IInv, \A s \in Active : ledger[s] # Nothing /\ Complete(ledger[s])
    PROVE  \A j \in Jobs : Phase(j) = "accepted"
<1> TAKE j \in Jobs
<1>1. Owner(j) \in Shards /\ Owner(j) \in Active /\ j \in JobsOf(Owner(j))
  BY OwnerType DEF IInv, FilesOK
<1>2. ledger[Owner(j)] \in Books(JobsOf(Owner(j)))
  BY <1>1 DEF IInv, ShardOK, LedgerOK
<1>3. Recorded(j) = "succeeded"
  BY <1>1, <1>2 DEF Recorded, Complete, Books
<1> QED BY <1>3 DEF Phase

LEMMA PublishReceiptRefines ==
    ASSUME IInv, NEW w \in Workers, PublishReceipt(w)
    PROVE  [Promise!Next]_Promise!vars
<1> USE DEF At, Goto, Constant, Evaluated, Unpublished, Faultless, Keeps, Next1, Left, Save,
            ItsJob
<1>1. pc[w] # "off" /\ Inside(w) /\ Local(w) /\ FilesOK /\ shard[w] \in DOMAIN ledger
  BY InsideHolds, PublishReceiptKeeps DEF PublishReceipt, Inside, IInv, FilesOK
<1>2. UNCHANGED <<style, ledger, evidence, calls, completion, final, shard>>
  BY DEF PublishReceipt, files
<1>3. \A j \in Jobs : Phase(j)' = Phase(j)
  BY <1>2 DEF Phase, Recorded, Owner, Active, JobsOf, Order, Core
<1>4. CASE ~Core
  <2>1. Published' = Published
    BY <1>2, <1>4 DEF Published, Core
  <2> QED BY <1>2, <1>3, <2>1 DEF Promise!vars
<1>5. CASE Core
  <2>1. Active = {First} /\ shard[w] = First
    BY <1>1, <1>5 DEF Active, Inside
  <2>2. ledger[First] # Nothing /\ Complete(ledger[First])
    <3>1. memory[w] \in Books(JobsOf(shard[w])) /\ memory[w] = ledger[shard[w]] /\ Complete(memory[w])
      BY <1>1 DEF Inside, WorkerOK, CopyOK, PublishReceipt, Opening
    <3> QED BY <1>1, <2>1, <3>1, BookIsSomething DEF Inside
  <2>3. \A j \in Jobs : Phase(j) = "accepted"
    BY <2>1, <2>2, AllAccepted
  <2>4. CASE Published' = Published
    BY <1>2, <1>3, <2>4 DEF Promise!vars
  <2>5. CASE Published' # Published
    <3>1. Published' = TRUE /\ Published \in BOOLEAN
      <4>1. receipt[First] # Nothing => receipt'[First] = receipt[First]
        BY <1>1, <2>1 DEF PublishReceipt, MayPublish, Inside, ShardOK, FilesOK
      <4>2. Published = (receipt[First] # Nothing) /\ Published' = (receipt'[First] # Nothing)
        BY <1>2, <1>5 DEF Published, Core
      <4> QED BY <2>5, <4>1, <4>2
    <3> QED BY <1>2, <1>3, <2>3, <3>1 DEF Promise!Next, Promise!Publish
  <2> QED BY <2>4, <2>5
<1> QED BY <1>4, <1>5

\* The acceptance of the shards is written when every shard has been read.
LEMMA AggAcceptRefines ==
    ASSUME IInv, AggInv, AggAccept
    PROVE  [Promise!Next]_Promise!vars
<1>1. ~Core /\ \A s \in Shards : completion[s] # Nothing
  BY DEF AggInv, AggAccept
<1>2. \A s \in Active : ledger[s] # Nothing /\ Complete(ledger[s])
  BY <1>1, ActiveType DEF IInv, ShardOK
<1>3. \A j \in Jobs : Phase(j) = "accepted"
  BY <1>2, AllAccepted
<1>4. UNCHANGED <<style, ledger, evidence, calls>> /\ final' = TRUE
  BY DEF AggAccept, WorkersUntouched
<1>5. \A j \in Jobs : Phase(j)' = Phase(j)
  BY <1>4 DEF Phase, Recorded, Owner, Active, JobsOf, Order, Core
<1>6. Published' = TRUE
  BY <1>1, <1>4 DEF Published, Core
<1> QED BY <1>3, <1>4, <1>5, <1>6 DEF Promise!Next, Promise!Publish

LEMMA RefinementStep == IInv /\ AggInv /\ [Next]_vars => [Promise!Next]_Promise!vars
<1> SUFFICES ASSUME IInv, AggInv, [Next]_vars PROVE [Promise!Next]_Promise!vars
  OBVIOUS
<1>1. ASSUME NEW w \in Workers, WorkerStep(w) \/ FinishRaises(w) PROVE [Promise!Next]_Promise!vars
  <2>1. CASE Preflight(w) \/ PassOver(w) \/ EndReconcile(w) \/ VerifyRaises(w) \/ EndJobs(w)
    <3>1. UNCHANGED seen
      BY <2>1 DEF seen, files, Constant, Evaluated, Unpublished,
                  Preflight, PassOver, EndReconcile, VerifyRaises, EndJobs
    <3> QED BY <3>1, Unseen
  <2>2. CASE PublishCompletion(w)
    <3>1. UNCHANGED seen
      BY <2>2 DEF seen, Constant, Evaluated, PublishCompletion
    <3> QED BY <3>1, Unseen
  <2> QED BY <1>1, <2>1, <2>2, OpenLedgerRefines, QuarantineRefines, ReconcileRefines, ClaimRefines,
             BeginRolloutRefines, EndRolloutRefines, WriteResultRefines, FinishRefines,
             FinishRaisesRefines, HaltRefines, PublishReceiptRefines DEF WorkerStep
<1>2. ASSUME NEW w \in Workers, Die(w) PROVE UNCHANGED seen
  BY <1>2 DEF seen, Constant, Evaluated, Unpublished, Die
<1>3. ASSUME NEW w \in Workers, NEW s \in Shards, Start(w, s) PROVE UNCHANGED seen
  BY <1>3 DEF seen, Evaluated, files, Start
<1>4. CASE AggAccept
  BY <1>4, AggAcceptRefines
<1>5. ASSUME NEW s \in Shards, AggRead(s) PROVE UNCHANGED seen
  BY <1>5 DEF seen, WorkersUntouched, AggRead
<1>6. AggStart \/ AggReport \/ AggDie \/ UNCHANGED vars => UNCHANGED seen
  BY DEF seen, WorkersUntouched, AggStart, AggReport, AggDie, vars, files
<1> QED BY <1>1, <1>2, <1>3, <1>4, <1>5, <1>6, Unseen DEF Next, AggStep

\* Both kinds of study keep the promise of JobAcceptance, with any number of
\* workers that die or lose a save at any point (core_final.py,
\* evaluation_extension_runner.py, made_all30_runner.py).
THEOREM Refinement == Spec => KeepsPromise
<1>1. Init => AggInv
  BY DEF Init, AggInv
<1>2. Init => Promise!Init
  <2> SUFFICES ASSUME Init PROVE Promise!Init
    OBVIOUS
  <2>1. \A j \in Jobs : Owner(j) \in Shards
    BY OwnerType DEF Init
  <2>2. \A j \in Jobs : Phase(j) = "open"
    BY <2>1 DEF Init, Phase, Recorded
  <2>3. Published = FALSE
    BY ShardAssumption DEF Init, Published
  <2> QED BY <2>2, <2>3 DEF Init, Promise!Init
<1> QED BY <1>1, <1>2, Invariant, AggInvStep, RefinementStep, PTL DEF Spec, KeepsPromise, Promise!Spec

=============================================================================
