---------------------------- MODULE ShardRunner ----------------------------
(***************************************************************************)
(* Evaluation workers with a JSON ledger: CoreFinalRunner of core_final.py *)
(* (style "core": one output that owns every job), and                     *)
(* EvaluationExtensionRunner and MadeAll30Runner with their aggregators    *)
(* (style "shards": every shard owns some jobs, a CPU pass joins them).    *)
(*                                                                         *)
(* A worker holds the lock of its output, changes a copy of the ledger in  *)
(* memory and saves it as a whole.  It may die anywhere; a save may raise  *)
(* before or after the file has been replaced.  Policies, profiles, inputs *)
(* and the launch proof of all-30 do not change and are left out.          *)
(***************************************************************************)
EXTENDS Naturals, Sequences, FiniteSets, SequencesExt

CONSTANTS
    Workers,
    First,        \* the output of the core study
    CoreOrder,    \* the jobs of the core manifest
    ShardOrder,   \* ShardOrder[s]: the jobs of the manifest of shard s
    Nobody, Nothing,
    MaxFaults, MaxReruns    \* bounds: deaths and lost saves; runs of a finished shard

Jobs == ToSet(CoreOrder)
Shards == DOMAIN ShardOrder

States == {"pending", "running", "orphaned", "failed", "succeeded"}
Books(jobs) == [jobs : [jobs -> States], events : Nat]

ASSUME ShardAssumption ==
    /\ First \in Shards /\ Nobody \notin Workers
    /\ CoreOrder \in Seq(Jobs)
    /\ \A s \in Shards : ShardOrder[s] \in Seq(ToSet(ShardOrder[s]))
    /\ \A jobs \in SUBSET Jobs : Nothing \notin Books(jobs)
    /\ Jobs = UNION {ToSet(ShardOrder[s]) : s \in Shards}
    /\ \A s, t \in Shards : s # t => ToSet(ShardOrder[s]) \cap ToSet(ShardOrder[t]) = {}
    /\ {MaxFaults, MaxReruns} \subseteq Nat

VARIABLES
    style,      \* "core" or "shards"
    ledger,     \* ledger[s]: ledger.json
    evidence,   \* evidence[j]: what the attempt's directory holds
    calls,      \* calls[j]: rollouts begun
    completion, \* completion[s]: the ledger completion.json describes
    receipt,    \* receipt[s]: the ledger and completion stage_receipt.json pins
    lock,       \* lock[s]: holder of .runner.lock
    pc, shard, memory, todo,    \* of each worker
    agg, unread,    \* the aggregator and the shards it has still to read
    report, final,  \* report.json and the global receipt
    faults, reruns

files == <<completion, receipt, report, final>>
aggregation == <<agg, unread>>
vars == <<style, ledger, evidence, calls, files, lock, pc, shard, memory, todo, aggregation, faults, reruns>>

Core == style = "core"
Active == IF Core THEN {First} ELSE Shards
Order(s) == IF Core THEN CoreOrder ELSE ShardOrder[s]
JobsOf(s) == ToSet(Order(s))

FreshLedger(s) == [jobs |-> [j \in JobsOf(s) |-> "pending"], events |-> 0]

\* The steps of a worker: outside, before the jobs, at a job, after them.
Opening == {"open", "quarantine", "preflight"}
Attempting == {"claimed", "rolling", "closed", "written"}
WorkerPcs == {"off", "reconcile", "jobs", "halting", "complete", "receipt"} \cup Opening \cup Attempting

LedgerOK(s) == ledger[s] \in Books(JobsOf(s)) \cup {Nothing}

CopyOK(w) ==
    /\ pc[w] \notin {"off", "open"} => memory[w] \in Books(JobsOf(shard[w]))
    /\ pc[w] \notin {"off"} \cup Opening => todo[w] \in Seq(JobsOf(shard[w]))

FilesOK ==
    /\ style \in {"core", "shards"}
    /\ evidence \in [Jobs -> {"none", "started", "closed", "result", "bad"}] /\ calls \in [Jobs -> Nat]
    /\ ledger = [s \in Shards |-> ledger[s]]
    /\ completion = [s \in Shards |-> completion[s]] /\ receipt = [s \in Shards |-> receipt[s]]

ProcessesOK ==
    /\ lock \in [Shards -> Workers \cup {Nobody}]
    /\ pc \in [Workers -> WorkerPcs] /\ shard \in [Workers -> Active]
    /\ memory = [w \in Workers |-> memory[w]] /\ todo = [w \in Workers |-> todo[w]]
    /\ agg \in {"off", "reading", "reported"} /\ unread \subseteq Shards
    /\ report \in BOOLEAN /\ final \in BOOLEAN
    /\ faults \in 0 .. MaxFaults /\ reruns \in 0 .. MaxReruns

TypeOK == FilesOK /\ ProcessesOK /\ (\A s \in Shards : LedgerOK(s)) /\ (\A w \in Workers : CopyOK(w))

Complete(book) == \A j \in DOMAIN book.jobs : book.jobs[j] = "succeeded"

Init ==
    /\ style \in {"core", "shards"}
    /\ ledger = [s \in Shards |-> Nothing]
    /\ evidence = [j \in Jobs |-> "none"] /\ calls = [j \in Jobs |-> 0]
    /\ completion = [s \in Shards |-> Nothing] /\ receipt = [s \in Shards |-> Nothing]
    /\ lock = [s \in Shards |-> Nobody]
    /\ pc = [w \in Workers |-> "off"] /\ shard = [w \in Workers |-> First]
    /\ memory = [w \in Workers |-> Nothing] /\ todo = [w \in Workers |-> <<>>]
    /\ agg = "off" /\ unread = {} /\ report = FALSE /\ final = FALSE
    /\ faults = 0 /\ reruns = 0

---------------------------------------------------------------------------
(* The steps of a worker *)

Goto(w, label) == pc' = [pc EXCEPT ![w] = label]

\* The worker returns or raises out of the lock.
Leave(w) ==
    /\ Goto(w, "off") /\ lock' = [lock EXCEPT ![shard[w]] = Nobody]
    /\ memory' = [memory EXCEPT ![w] = Nothing] /\ todo' = [todo EXCEPT ![w] = <<>>]

Keeps(w) == UNCHANGED <<lock, memory, todo>>

\* save: the copy in memory replaces the file.
Save(w, book) ==
    /\ memory' = [memory EXCEPT ![w] = book]
    /\ ledger' = [ledger EXCEPT ![shard[w]] = book]

\* One more event, and the new state of a job.
Moved(book, j, state) == [jobs |-> [book.jobs EXCEPT ![j] = state], events |-> book.events + 1]

Constant == UNCHANGED <<style, shard, aggregation, report, final>>
Evaluated == UNCHANGED <<evidence, calls>>
Unpublished == UNCHANGED <<completion, receipt>>
Faultless == UNCHANGED <<faults, reruns>>

At(w, label) == pc[w] = label
Head1(w) == Head(todo[w])
StateOf(w) == memory[w].jobs[Head1(w)]
Next1(w) == todo' = [todo EXCEPT ![w] = Tail(@)]

\* Faulty: the lock does not exclude.
LockFree_Shared(s) == TRUE
LockFree(s) == lock[s] = Nobody

\* A second worker of the same output is refused, which changes nothing.
Start(w, s) ==
    /\ At(w, "off") /\ s \in Active /\ LockFree(s)
    /\ receipt[s] # Nothing => reruns < MaxReruns
    /\ reruns' = IF receipt[s] # Nothing THEN reruns + 1 ELSE reruns
    /\ lock' = [lock EXCEPT ![s] = w] /\ shard' = [shard EXCEPT ![w] = s] /\ Goto(w, "open")
    /\ UNCHANGED <<style, ledger, files, memory, todo, aggregation, faults>> /\ Evaluated

OpenLedger(w) ==
    /\ At(w, "open")
    /\ IF ledger[shard[w]] = Nothing THEN Save(w, FreshLedger(shard[w]))
                                     ELSE memory' = [memory EXCEPT ![w] = ledger[shard[w]]] /\ UNCHANGED ledger
    /\ Goto(w, "quarantine")
    /\ UNCHANGED <<lock, todo>> /\ Constant /\ Evaluated /\ Unpublished /\ Faultless

RunningJobs(book) == {j \in DOMAIN book.jobs : book.jobs[j] = "running"}

\* Faulty: the quarantine leaves an event even when nothing was running.
Quarantined_Logged(book) ==
    [jobs |-> [j \in DOMAIN book.jobs |-> IF book.jobs[j] = "running" THEN "orphaned" ELSE book.jobs[j]],
     events |-> book.events + 1]

Quarantined(book) ==
    [jobs |-> [j \in DOMAIN book.jobs |-> IF book.jobs[j] = "running" THEN "orphaned" ELSE book.jobs[j]],
     events |-> book.events + Cardinality(RunningJobs(book))]

Quarantine(w) ==
    /\ At(w, "quarantine")
    /\ Save(w, Quarantined(memory[w]))
    /\ Goto(w, "preflight")
    /\ UNCHANGED <<lock, todo>> /\ Constant /\ Evaluated /\ Unpublished /\ Faultless

HasResult(j) == evidence[j] \in {"result", "bad"}

Admitted(w) ==
    \A j \in DOMAIN memory[w].jobs :
        memory[w].jobs[j] # "failed" /\ (memory[w].jobs[j] = "orphaned" => HasResult(j))

\* No failed or unknown physical outcome may be passed over.  The core worker
\* verifies what is there on its way through the jobs, the others before.
Preflight(w) ==
    /\ At(w, "preflight")
    /\ IF Admitted(w)
       THEN /\ Goto(w, IF Core THEN "jobs" ELSE "reconcile")
            /\ todo' = [todo EXCEPT ![w] = Order(shard[w])] /\ UNCHANGED <<lock, memory>>
       ELSE Leave(w)
    /\ UNCHANGED ledger /\ Constant /\ Evaluated /\ Unpublished /\ Faultless

Verifying(w) == todo[w] # <<>> /\ (At(w, "reconcile") \/ (At(w, "jobs") /\ Core))

\* A finished job is verified again; a complete orphan is committed.
Reconcile(w) ==
    /\ Verifying(w) /\ StateOf(w) \in {"succeeded", "orphaned"}
    /\ IF evidence[Head1(w)] # "result"
       THEN Leave(w) /\ UNCHANGED ledger
       ELSE /\ IF StateOf(w) = "orphaned" THEN Save(w, Moved(memory[w], Head1(w), "succeeded"))
                                          ELSE UNCHANGED <<memory, ledger>>
            /\ Next1(w) /\ UNCHANGED <<pc, lock>>
    /\ Constant /\ Evaluated /\ Unpublished /\ Faultless

PassOver(w) ==
    /\ todo[w] # <<>>
    /\ \/ At(w, "reconcile") /\ StateOf(w) = "pending"
       \/ At(w, "jobs") /\ ~Core /\ StateOf(w) = "succeeded"
    /\ Next1(w)
    /\ UNCHANGED <<pc, lock, memory, ledger>> /\ Constant /\ Evaluated /\ Unpublished /\ Faultless

\* The policy is loaded only when jobs are left.
EndReconcile(w) ==
    /\ At(w, "reconcile") /\ todo[w] = <<>>
    /\ IF Complete(memory[w]) THEN Goto(w, "complete") /\ UNCHANGED todo
                              ELSE Goto(w, "jobs") /\ todo' = [todo EXCEPT ![w] = Order(shard[w])]
    /\ UNCHANGED <<lock, memory, ledger>> /\ Constant /\ Evaluated /\ Unpublished /\ Faultless

\* The claim is saved before anything of the attempt exists.
Claim(w) ==
    /\ At(w, "jobs") /\ todo[w] # <<>> /\ StateOf(w) = "pending"
    /\ Save(w, Moved(memory[w], Head1(w), "running"))
    /\ Goto(w, "claimed")
    /\ UNCHANGED <<lock, todo>> /\ Constant /\ Evaluated /\ Unpublished /\ Faultless

Left(w, state) == evidence' = [evidence EXCEPT ![Head1(w)] = state]

BeginRollout(w) ==
    /\ At(w, "claimed")
    /\ Left(w, "started") /\ calls' = [calls EXCEPT ![Head1(w)] = @ + 1]
    /\ Goto(w, "rolling")
    /\ Keeps(w) /\ UNCHANGED ledger /\ Constant /\ Unpublished /\ Faultless

\* The environment has closed cleanly; what follows may still raise.
EndRollout(w) ==
    /\ At(w, "rolling")
    /\ \/ Left(w, "closed") /\ Goto(w, "closed")
       \/ UNCHANGED evidence /\ Goto(w, "halting")
    /\ Keeps(w) /\ UNCHANGED <<ledger, calls>> /\ Constant /\ Unpublished /\ Faultless

\* result.json, which the verifier may turn out to refuse.  The reconstruction
\* of the evidence raises before it, the write also after the replacement.
WriteResult(w) ==
    /\ At(w, "closed")
    /\ \/ \E result \in {"result", "bad"} : Left(w, result) /\ (Goto(w, "written") \/ Goto(w, "halting"))
       \/ UNCHANGED evidence /\ Goto(w, "halting")
    /\ Keeps(w) /\ UNCHANGED <<ledger, calls>> /\ Constant /\ Unpublished /\ Faultless

\* The inputs changed or the envelope does not verify.
VerifyRaises(w) ==
    /\ At(w, "written")
    /\ Goto(w, "halting")
    /\ Keeps(w) /\ UNCHANGED ledger /\ Constant /\ Evaluated /\ Unpublished /\ Faultless

Finish(w) ==
    /\ At(w, "written") /\ evidence[Head1(w)] = "result"
    /\ Save(w, Moved(memory[w], Head1(w), "succeeded"))
    /\ Next1(w) /\ Goto(w, "jobs")
    /\ UNCHANGED lock /\ Constant /\ Evaluated /\ Unpublished /\ Faultless

\* finish changes the copy in memory before the save raises.
FinishRaises(w) ==
    /\ At(w, "written") /\ evidence[Head1(w)] = "result" /\ faults < MaxFaults
    /\ LET book == Moved(memory[w], Head1(w), "succeeded")
       IN  /\ memory' = [memory EXCEPT ![w] = book]
           /\ \E kept \in {ledger[shard[w]], book} : ledger' = [ledger EXCEPT ![shard[w]] = kept]
    /\ Goto(w, "halting") /\ faults' = faults + 1
    /\ UNCHANGED <<lock, todo, reruns>> /\ Constant /\ Evaluated /\ Unpublished

\* Faulty: a clean transcript alone proves that the job failed.
Closed_ByTranscript(j) == evidence[j] \in {"closed", "result", "bad"}
Closed(j) == evidence[j] = "closed"

\* halt refuses a job that is no longer running in memory.
Halt(w) ==
    /\ At(w, "halting")
    /\ ledger' = IF StateOf(w) # "running" THEN ledger
                 ELSE [ledger EXCEPT ![shard[w]] =
                        Moved(memory[w], Head1(w), IF Closed(Head1(w)) THEN "failed" ELSE "orphaned")]
    /\ Leave(w)
    /\ Constant /\ Evaluated /\ Unpublished /\ Faultless

\* Every envelope verifies once more before the shard is published.
EndJobs(w) ==
    /\ At(w, "jobs") /\ todo[w] = <<>>
    /\ IF Complete(memory[w]) THEN Goto(w, "complete") /\ Keeps(w) ELSE Leave(w)
    /\ UNCHANGED ledger /\ Constant /\ Evaluated /\ Unpublished /\ Faultless

\* Faulty: a receipt that is already there refuses the run.
MayPublish_Once(file, value) == file = Nothing
\* publish_once: what is there has to be the same.
MayPublish(file, value) == file \in {Nothing, value}

PublishCompletion(w) ==
    /\ At(w, "complete")
    /\ IF MayPublish(completion[shard[w]], memory[w])
       THEN /\ completion' = [completion EXCEPT ![shard[w]] = memory[w]]
            /\ Goto(w, "receipt") /\ Keeps(w)
       ELSE Leave(w) /\ UNCHANGED completion
    /\ UNCHANGED <<ledger, receipt>> /\ Constant /\ Evaluated /\ Faultless

\* The files as they are on disk.
Pinned(s) == [ledger |-> ledger[s], completion |-> completion[s]]

PublishReceipt(w) ==
    /\ At(w, "receipt")
    /\ receipt' = IF MayPublish(receipt[shard[w]], Pinned(shard[w]))
                  THEN [receipt EXCEPT ![shard[w]] = Pinned(shard[w])] ELSE receipt
    /\ Leave(w)
    /\ UNCHANGED <<ledger, completion>> /\ Constant /\ Evaluated /\ Faultless

\* Killed, or an exception outside of the try block.
Die(w) ==
    /\ ~At(w, "off") /\ faults < MaxFaults
    /\ faults' = faults + 1 /\ Leave(w)
    /\ UNCHANGED <<ledger, reruns>> /\ Constant /\ Evaluated /\ Unpublished

---------------------------------------------------------------------------
(* aggregate_extension and aggregate_all30 *)

WorkersUntouched == UNCHANGED <<style, ledger, evidence, calls, completion, receipt, lock, pc, shard, memory, todo, reruns>>

\* A missing receipt: pending, nothing is written.
AggStart ==
    /\ agg = "off" /\ ~Core /\ ~final /\ \A s \in Shards : receipt[s] # Nothing
    /\ agg' = "reading" /\ unread' = Shards
    /\ UNCHANGED <<report, final, faults>> /\ WorkersUntouched

Readable(s) ==
    /\ lock[s] = Nobody
    /\ ledger[s] # Nothing /\ Complete(ledger[s])
    /\ receipt[s] = Pinned(s) /\ completion[s] = ledger[s]
    /\ \A j \in JobsOf(s) : evidence[j] = "result"

\* One shard is read under its lock; a worker that holds it ends the pass.
AggRead(s) ==
    /\ agg = "reading" /\ s \in unread
    /\ IF Readable(s) THEN unread' = unread \ {s} /\ UNCHANGED agg
                      ELSE agg' = "off" /\ unread' = {}
    /\ UNCHANGED <<report, final, faults>> /\ WorkersUntouched

AggReport ==
    /\ agg = "reading" /\ unread = {}
    /\ report' = TRUE /\ agg' = "reported"
    /\ UNCHANGED <<unread, final, faults>> /\ WorkersUntouched

AggAccept ==
    /\ agg = "reported"
    /\ final' = TRUE /\ agg' = "off"
    /\ UNCHANGED <<unread, report, faults>> /\ WorkersUntouched

AggDie ==
    /\ agg # "off" /\ faults < MaxFaults
    /\ faults' = faults + 1 /\ agg' = "off" /\ unread' = {}
    /\ UNCHANGED <<report, final>> /\ WorkersUntouched

---------------------------------------------------------------------------
WorkerStep(w) ==
    \/ OpenLedger(w) \/ Quarantine(w) \/ Preflight(w) \/ Reconcile(w) \/ PassOver(w) \/ EndReconcile(w)
    \/ Claim(w) \/ BeginRollout(w) \/ EndRollout(w) \/ WriteResult(w) \/ VerifyRaises(w)
    \/ Finish(w) \/ Halt(w) \/ EndJobs(w) \/ PublishCompletion(w) \/ PublishReceipt(w)

AggStep == AggStart \/ AggReport \/ AggAccept \/ \E s \in Shards : AggRead(s)

Next ==
    \/ \E w \in Workers : WorkerStep(w) \/ FinishRaises(w) \/ Die(w) \/ \E s \in Shards : Start(w, s)
    \/ AggStep \/ AggDie

Spec == Init /\ [][Next]_vars

\* Running processes go on; somebody runs a shard that has no receipt yet and
\* the aggregator again and again, as the refusals ask for.
Fairness ==
    /\ \A w \in Workers : WF_vars(WorkerStep(w))
    /\ \A s \in Shards : WF_vars(receipt[s] = Nothing /\ \E w \in Workers : Start(w, s))
    /\ WF_vars(AggStep)

FairSpec == Spec /\ Fairness

---------------------------------------------------------------------------
(* Properties *)

Owner(j) == CHOOSE s \in Active : j \in JobsOf(s)
Recorded(j) == IF ledger[Owner(j)] = Nothing THEN "pending" ELSE ledger[Owner(j)].jobs[j]

Published == IF Core THEN receipt[First] # Nothing ELSE final

Phase(j) ==
    CASE Recorded(j) = "pending" -> "open"
      [] Recorded(j) = "succeeded" -> "accepted"
      [] Recorded(j) \notin {"pending", "succeeded"} ->
            CASE evidence[j] = "none" -> "reserved"
              [] evidence[j] = "result" -> "evidenced"
              [] evidence[j] \notin {"none", "result"} -> "spent"

Promise == INSTANCE JobAcceptance WITH
    phase <- [j \in Jobs |-> Phase(j)], published <- Published

\* Both kinds of study keep what every runner promises: one rollout at most
\* for a job, acceptance only of a verified result, publication only of all.
KeepsPromise == Promise!Spec

\* What a shard has published stays what its ledger says, whoever runs it
\* again: otherwise no aggregator would ever accept it.
ReceiptsPinTheLedger ==
    \A s \in Shards : receipt[s] # Nothing => receipt[s] = Pinned(s) /\ completion[s] = ledger[s]

\* A job is never written off as failed once its result is on disk, however
\* the steps after the write fail: the next run has to be able to commit it.
ResultsAreNotWrittenOff ==
    \A j \in Jobs : evidence[j] \in {"result", "bad"} => Recorded(j) # "failed"

\* Nobody works on a job whose outcome is failed, unknown or unacceptable.
Blocked(j) ==
    /\ Recorded(j) \in {"running", "orphaned", "failed"} /\ evidence[j] # "result"
    /\ lock[Owner(j)] = Nobody

\* However often workers and aggregator die, the study is published in the
\* end, or refuses to go on for a job whose physical outcome is not known good.
StudyEnds == <>(Published \/ \E j \in Jobs : Blocked(j))

=============================================================================
