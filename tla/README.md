# TLA+ project for uncertainty_matsci

This directory specifies, model-checks and proves the coordination logic of the
materials-discovery experiments in `src/`: how jobs of an immutable matrix are
reserved, executed at most once, evidenced, accepted and published by processes
that share files and may die at any point. The science itself (policies, risk
networks, transcoders, relaxations) is an input of these models.

## Inventory

The program is a set of Python processes that coordinate through directories,
lock files, JSON documents and SQLite databases. There is no server; a component
is a library module and the script that runs it. The parts with coordination of
their own:

| Component | State | Operations | Interaction | Hard behaviour | What makes it correct |
|---|---|---|---|---|---|
| Budget sweep (`made_budget_runner.py`) | one directory per job: claim, result, receipt, failure, temporary files; reports; invocations | claim the next job, execute, finish, wait, record a failure; aggregate | GPU actors and a CPU aggregator share the directory; `mkdir`, `O_EXCL`, `flock` | races for a job, deaths between two files, temporary files, an aggregator reading while actors write | one attempt per job, B30 before B50, reports count only evidence, each death costs one job at most |
| Run ledger (`accounting.py`) | rows (state, attempt, heartbeat), events, manifest | claim, succeed, fail, mark_orphaned, reconcile, retry_failed, resume_plan, completion | every serial runner; SQLite transactions | unknown outcomes, retries, changed results | nothing is retried without authorization |
| Final evaluation (`final_evaluation.py`) | study files, ledger, attempt directories | run (start, resume, per-job loop, failure handler, completion) | ledger, environment process, operator | a death after the envelope and before the commit; an abandoned environment | complete work is kept, retries never overlap a running action |
| Environment RPC (`rpc.py`, `env_server.py`) | request id, audit file, child process | request, close, `__exit__` | pipes to the isolated environment | a timeout leaves an action running | a closed transcript proves the stop |
| Stage pipeline (`run_stage_queue.py`, `build_stage_queue.py`, `finalize_stage_queue.py`) | queue file, status file, supervisor lock | supervise, build, finalize | two JSON files that all three replace as a whole | read-modify-write races, a child that outlives its supervisor | no stage is replayed or skipped, completion means that every stage succeeded |
| Ledger workers (`core_final.py`, `evaluation_extension_runner.py`, `made_all30_runner.py`) | per output: JSON ledger, attempt directories, `completion.json`, `stage_receipt.json`, `.runner.lock`; `report.json` and a global receipt | run an output (quarantine, verify, claim, finish or halt, publish), aggregate | several workers and an aggregator meet at an output's lock | a copy of the ledger in memory, saves that raise before or after the replacement, deaths, runs of a finished shard | receipts stay true, a result is never written off, one rollout for a job |
| ES training (`es_training.py`, `training_jobs.py`, `core_es.py`) | request records, generation checkpoints, histories, markers | evaluate a request, commit, resume, reconcile | rollouts as callbacks | a death inside a commit, unknown rollouts | resume reaches the same history, no request runs twice |
| Checkpoint retention (`checkpoint_retention.py`) | retirement receipt, checkpoints | validate, retire | the training lock | an interrupted retirement | what is removed can be rebuilt |
| Audited oracles (`mace_parallel.py`, `benchmark_adapters.py`) | attempt journal, counters, calculator pool, lifecycle lock | construct, batch, invoke, audit | worker threads of two oracles in one process | one of several calls fails, a row cannot be written | every physical call is on record once, no construction beside an evaluation |
| Rollouts (`rollouts.py`, `benchmark_adapters.py`, `training_jobs.py`, `pause_bf16_collection.py`) | adapter, transcript, curve | the loop, recovery, requests; reconstruction of the evidence; the stop by a script | client process, environment process, script | late answers, steps that raise, a stop in the middle | the budget is kept, what counts as fitness was evaluated |
| Hash cache and locked stages (`immutable_hash_cache.py`, `run_locked_stage.py`) | digests by stat, snapshots by fingerprint | hash a file; hash, copy, rename, start | an editor, several stages at once | a stat that does not change, a source that does | no digest or snapshot of a content that never was |
| Transcoder banks (`representation_training.py`, `core_representation.py`, `deferred_transcoder_publisher.py`) | manifest, layer checkpoints, filtered shards, receipts, marks of an installation | precompute, train layer after layer, validate, install | a stage and a publisher | a death between two layers or two files, shards that change | a ready bank is sound, no layer is fitted twice |

Everything else (numerical training and attribution, policies, reports, one-off
recoveries, installation) is listed in `PROJECT.json` with the reason it is not
modelled. `PROJECT.json` "hazards" lists what is hard to test, each at its line.

## Modules

| Module | Models | Extends |
|---|---|---|
| `JobAcceptance` | abstract promise of a runner: a job goes open, reserved, spent, evidenced, accepted; one execution; publication needs all | |
| `BudgetSweep` | actors and aggregator of the B30/B50 sweep | |
| `BudgetSweepProofs` | its inductive invariant and theorems | `BudgetSweep` |
| `RunLedger` | rows and transactions of the SQLite ledger, as operators for its clients | |
| `FinalEvaluation` | the serial runner, the environment process, the operator | `RunLedger` |
| `StageSupervisor` | supervisors, builder, finalizer and stage processes | |
| `PipelineProofs` | inductive invariants and theorems of the pipeline, for one supervisor, and of the final evaluation | `StageSupervisor`, `FinalEvaluation` |
| `ESTraining` | one ES training condition: sessions, requests, commits, resume, retirement | |
| `ESTrainingProofs` | its inductive invariant, theorems and refinement | `ESTraining` |
| `OracleAudit` | what the audit accepts of a journal of oracle attempts, as predicates | |
| `OracleJournal` | the executor, its threads, calculators and rows that make the journal | `OracleAudit` |
| `OracleJournalProofs` | its inductive invariants and theorems | `OracleJournal` |
| `MadeAdapter`, `CrystalAdapter` | the two benchmark adapters, as operators on one episode's state | |
| `Episode` | one rollout: client, RPC, environment, reconstruction of its evidence, pause script | both adapters |
| `EpisodeProofs` | its three inductive invariants and theorems | `Episode` |
| `ShardRunner` | the workers with a JSON ledger and their aggregator | |
| `ShardRunnerProofs` | its inductive invariant, theorems and refinement | `ShardRunner` |
| `ProjectFiles` | files that are read while they are edited: paths, inodes, blocks, change times | |
| `HashCache` | the digest cache of an audit | `ProjectFiles` |
| `LockedStage` | stages that take snapshots of the source | `ProjectFiles` |
| `ProjectReaders` | the two readers composed with the editor of the files | `HashCache`, `LockedStage` |
| `ProjectReadersProofs` | their inductive invariant and theorems | `ProjectReaders` |
| `TranscoderBank` | two banks, the stage and the publisher that fill them | |
| `TranscoderBankProofs` | its inductive invariant, theorems and refinement | `TranscoderBank` |
| `MC...` | the instance of a module for TLC; `MCStageSupervisor` holds the build plans | |

`JobAcceptance` is the one abstract specification: `BudgetSweep`, `ESTraining`,
`ShardRunner` and (twice, once per bank) `TranscoderBank` implement it under a
refinement mapping, each called `KeepsPromise`.

An action is one step between two points at which another process can observe
or a death can leave a difference. A definition whose name ends in `_Something`
is a faulty variant of the definition it precedes; a property must notice it.

### BudgetSweep

`reserved`, `claim`, `attempt`, `receipt`, `failure`, `temps` are the files of a
job directory; `invoked`, `reports`, `accepted` those of the sweep; `prior` says
that the imported B10 matrix is complete. `pc[a]` is where
`MadeBudgetActor.run` stands: `launching`, `scanning` (inside
`claim_next_job`), `reserving` and `claiming` (after its `mkdir`, while
`claim.json` is being written), `claimed`, `claim_returned`, `running` to
`finished` (under the execution lock), `waiting`, `failing` and `recording` (the
handler). `aggPc` does the same for `aggregate_sweep`. `Raise` is an exception
at any statement of the try block, `Crash` and `AggCrash` the death of a
process. Abstracted: contents of results (a result is absent, partial or
complete), the exact sort key below budget and method, GPU memory and polling.

### RunLedger and FinalEvaluation

`state`, `number`, `retries` are the columns state and attempt_number and the
count of retry events. Every ledger transaction is atomic because the code runs
it under `BEGIN IMMEDIATE`. `study` is the pair of files written at creation,
`transcript` and `result` the rpc.jsonl and result.json of the latest attempt
(an older attempt keeps its own directory and is never read again), `busy` the
environments that are executing an action, abandoned ones included. `place` follows
`FinalEvaluationRunner.run`: `creating`, `jobs` (the loop), `claimed` (before
the try), `rollout`, `closed`, `resulted` (inside it), `handling`. An exception
outside the try block is a `Crash`: both leave the row running. The loop order
of the batch is left open. `mark_orphaned` compares wall clocks; a clock set
back between claim and resume hides the running rows and is counted as a fault.
The operator uses `reconcile`, `retry_failed` and `resume_plan`, which no script
calls; the model assumes that what the operator asserts is true, that is, an
orphan is failed only when its environment is idle and no complete envelope
exists. `Tamper` alters a finished result. Heartbeats are left out: nothing
calls `heartbeat`.

### StageSupervisor

`queue` and `status` are the two JSON files as they are on disk; `mem[s]` is the
status a supervisor holds and always writes as a whole, `seen[s]` the queue it
read last. `launched` is every process ever started, with its outcome; a process
goes on when its supervisor dies. A command is a version number. The finalizer
is a stage process that reads queue and status, checks them and writes the queue
back (`FinalizerReads`, `FinalizerWrites`); its checks of reports, ledger and
costs are part of `StageFails`. The builder reads both files, checks
(`MayBuild`), and replaces the queue in a later step (`BuilderReads`,
`BuilderWrites`). The alignment gate of `--seal` is left to the operator's plan.

### ESTraining

`manifest`, `record`, `rollout`, `policy`, `driver`, `marker`, `summary` and
`receipt` are the files of one condition; everything else of a session
(`weights`, `values`, `done`, `best`, `arithmetic`) is in memory and gone when it
leaves. `pc` is `serving` between two requests, `started`, `rolling` and
`evaluated` inside `_evaluate_request`, `policy`, `driver` and `marker` inside
`_commit`, `finished` between `run` and the retirement of
`train_es_condition.py`, and `retiring`. Weights are not numbers but the updates
that made them, and a stamp is what `actual_model_state_hash` stands for; a
session may run on hardware that rounds differently (`arithmetic`), which is the
case the semantic identity of a request is compared for. `Raise` is an exception
inside an evaluation, which is recorded as `outcome_unknown`; every other
exception only ends the session, like `Crash`. The directory lock admits one
session, so the model has one. Abstracted: one case per candidate, the
perturbation of a candidate and its exact restoration, `policy.pt.json` and
`es_history.json` (written with `policy.pt`, before the driver state), files
altered from outside. `Fitness` is what `reconstruct_scientific_evidence` returns.

### OracleAudit and OracleJournal

`OracleAudit` translates `audit_oracle_attempt_journal` to predicates of a
sequence of rows: which rows pair, in what order, what a journal must have to
be valid, closed or successful, and how many calls it reports. It has no state.
In `OracleJournal`, `journal` is the file, `sequence`, `attempts`, `counts` and
`pending` the numbers the adapter keeps beside it, `lifecycle` the holder of
`ORACLE_LIFECYCLE_LOCK`. `pc[r]` is where the thread that called an oracle
stands, `thread[r][w]` its worker threads, `queue` and `spare` the chunks and
calculators they draw from, and `calls` a history of the evaluations begun. A row
and its counters are one step, because they share the state lock. A row whose
write raises is lost or leaves a row whose number the next one repeats; `Die`
may tear the last row. How MADE splits inputs and makes threads is external.

### MadeAdapter, CrystalAdapter and Episode

`adapter` is the state of the environment's adapter; what generators, hulls and
calculations return is a choice. `channel` is the request in progress, from its
row in the transcript to the answer, which may be lost or too late; `env` is
`up`, `closed` or `dead`. `pc`, `tools`, `seen` and `curve` are the locals of
`DiscoveryRollout.run`. What the policy proposes is any action or none.
`Accepted` is what `_rpc_pairs` and `reconstruct_scientific_evidence` make of
the transcript and the curve: paired rows, a closed session, an exact budget and
a curve and counters that agree with the observations; their checks of
decisions, seeds and policy costs are left out. Among the counters is
`rpc_attempts`, which `dispatch` raises for every request and which the models
read off the transcript: `training_jobs.py:303-312` compares every counter of the
answer to the last step with the costs in the summary, which are those of the
last observation. After a MADE step that raised, the two are different answers,
because `rollouts.py:459` asks for an observation more. In the middle of a
rollout a later step makes up for it; after the last attempt nothing does, and
the code refuses the whole rollout, whose attempts were all spent.
`CompleteIsAccepted` says that this is the one case in which a completed rollout
is refused. A test expects otherwise: `tests/test_training_jobs.py:204` has the
last attempt fail and the evidence accepted, but writes its summary and its error
with counts that hold no `rpc_attempts`. The property states what the code does,
so no run is violated by it. `script` is `pause_bf16_collection.py`, which finds a
boundary, stops the client, looks again and terminates it; it is used with MADE
only. The environment goes on while the client is stopped.

### ShardRunner

`style` says whether the study is the core study (one output owning all jobs) or
one of the two sharded ones, which run the same steps. `ledger`, `completion`,
`receipt`, `lock` are the files of an output and `evidence[j]` what the
directory of a job's attempt holds. `memory[w]` is the copy of the ledger a
worker changes and saves as a whole, `todo[w]` the jobs its loop has left.
`pc[w]` runs from `open` over `quarantine`, `preflight` (shards only), `jobs` and
the steps of one job (`claimed`, `rolling`, `closed`, `written`) to `complete`
and `receipt`; `halting` is the handler, `reconcile` the check a run of the
all-30 and extension workers makes of a finished shard. Each save may raise with the old or the
new ledger on disk. A receipt is the pair of ledger and completion it pins. The
aggregator takes the lock of a shard, reads it and goes on to the next. The jobs
of a shard are disjoint and cover the matrix, as `build_shard_manifest` makes
them; the registration, launch checks and figures are left out.

### ProjectFiles, HashCache and LockedStage

A path names an inode, an inode has blocks and a change time in clock ticks. An
edit writes one block in place or renames a new file over the path; it never
brings back an earlier content of a block, so the models say nothing of a file
that changes and changes back. The modification time, which a writer may
restore, says nothing. In `HashCache` every stat, open and block read of
`maybe_cached_file_sha256` is a step, `digests` is the cache, and `Guard` is
`RECENT_WRITE_GUARD_NS`. In `LockedStage`, `named` is the fingerprint (taken to
be injective, so it is the contents), `partial` the temporary copy, `frozen` the
snapshots. The set of files is fixed, and a stage reads a source file in one
piece, so a write in place is to it a replacement. Audit and stages share only the files; a
behaviour of `ProjectReaders` has one kind of reader, chosen in `Init`.

### TranscoderBank

`manifest`, `checkpoint`, `shards`, `made`, `stray` are what the directory of a
bank holds, `precomputed` and `selection` the work of the deferred scripts,
`pending`, `imported`, `validated` and `receipt` the marks beside the banks. `Publisher` fills
`External`, validates it and installs a copy as `Core`; `Stage` trains in `Core` or
accepts what it finds there. A fit succeeds, misses the fidelity gate or raises.
`Alter` changes the collected shards once, to something readable that their
manifests contradict, and they are not put back; banks are not altered.
`train_transcoders_from_collections` reads a shard to compare it with its
manifest (`Check`, lines 442-452), reads the file again for the digest that the
bank records (`Record`, 474), and each fit reads it by its path (536). A shard
replaced between the first two readings becomes what `Finish` compares with
(558-561), and the bank calls itself ready: `recorded` is the content of which
the digests are, and a checkpoint is the content it was fitted to. So
`ReadyIsSound` says of a ready bank, and of the stage's receipt for it, only that
its layers were fitted to the very shards it records; that these are the
collected ones it says of a bank that was validated or imported, because the
publisher compares the shards with their manifests once more. A resumption reads
twice as well, but an alteration before either reading raises (`Reverify`). Of
the callers, two are modelled; `scripts/train_representations.py`,
`scripts/run_representation_condition.py` and `parallel_normalized_bank.py` fill
directories that their operator names. The lock serializes the publisher with
itself, and it installs only while the stage is paused, as its docstring asks. A
death stands also for the exceptions nobody handles.

## Runs

| Run | Checks | Bounds |
|---|---|---|
| `budget_safety` | `AtMostOneAttempt`, `B50AfterB30`, `LossBound`, `PublishedMeansEvidenced`, `KeepsPromise` | two actors, three jobs (B30 and B50), two crashes or exceptions |
| `budget_ends` | `LaunchedActorEnds`; `SweepAccepted` without faults | two actors on one GPU, one fault |
| `final_evaluation` | `AuthorizedCalls`, `StoppedBeforeRetry`, `SuccessHasEvidence`, `CompletedWorkKept`; `StudyRecovers`: every established study reaches success | two jobs in three batches, two faults, one altered result |
| `stage_pipeline` | types, `FailuresHalt`, `RecordsAreTrue`, `CompletionIsSound`; `StudyCompletes`: a study on a declared course ends complete or with something on record to reconcile | one supervisor, any two builds of eight and the course of three, one failing stage, two crashes |
| `es_training` | types, `ResumeAccepted`, `HistoryIsMeasured`, `SelectionStays`, `KeepsPromise`, `TrainingCompletes` | two generations of two candidates and one development case, two roundings, three faults |
| `oracle_journal` | types, `AuditIsTruthful`, `HonestJournalAccepted`, `ForwardsArePrivate` | mace with two threads on three structures, then orb on one; one write that raises; a death |
| `episode` | types, `BudgetKept`, `AcceptedIsPhysical`, `CompleteIsAccepted`, `PausedIsQuiet`, `RolloutEnds` | budget of two, one candidate, two crystals of two sites, one tool per query, no further recovery, one step that raises early, one stop |
| `shard_runner` | `ReceiptsPinTheLedger`, `ResultsAreNotWrittenOff`, `KeepsPromise`, `StudyEnds` | two workers, two shards, three jobs, two deaths or lost saves, one run of a finished shard |
| `project_files` | `DigestWasContent`, `CacheIsCurrent`, `SnapshotIsSource`, `UndisturbedStageStarts` | two files of two blocks, three edits, two ticks, a guard of one, two hashes; two stages, three launches |
| `transcoder_bank` | `ReadyIsSound`, `KeepsPromise`, `BanksRecover` | two layers, one death, one alteration |

"Types" are the `TypeOK` conjunct of `RecordsAreTrue`, `ResumeAccepted`,
`AuditIsTruthful` and `BudgetKept`; for `BudgetSweep`, `FinalEvaluation` and
`ShardRunner` type correctness is a theorem, and the last two components state
none, since their properties already compare every file.
`FaultFreeEnvelopes` and `DrainedMeansReserved` of `BudgetSweep` have no run of
their own, because they are proved.

Two actors and three jobs give every race for a job, including one actor that
drains the list while the other holds a job; two faults give a fault during the
consequences of another. Two jobs let a ledger batch halt at one job while the
other is pending. Two builds give every race between a builder, a supervisor and
a finalizer: only the latest two versions of the queue can be in play. Two
generations with a development sweep each are the least in which the selected
generation may or may not be the final one, a history is extended after a
resume, and two or one checkpoints are retired; two candidates let a restart
reuse one result and evaluate the other. Three structures on two threads make
two chunks of unequal length, so that a thread ends while the other has work; a
second oracle is needed for a construction beside an evaluation. A budget of two
gives a first attempt whose trouble the second may hide; with one tool per query
and no further recovery the loop still takes every branch, as each counter is at
its limit and below it. Three jobs in two shards are a job with a next one in
its shard and a shard that is ready alone; two faults are a lost save and a death in its handler. Three
edits in three ticks allow two writes in the tick of a stat and one after the guard; a
second file gives a snapshot mixed of two times, a third launch a stage after two
that died or collided. Two layers are a first one and a successor that resumes.

Runs that TLC finds violated, each a statement of the source that the program
does not keep:

| Run | Statement |
|---|---|
| `budget_failure` | a failure record belongs to the failed job: while the next job is claimed, it goes to the completed one |
| `stage_replay` | "never auto-replay": the status is read before the lock is taken |

Further places where the code may surprise its reader, met while modelling and
kept in the models as the code has them, without a run of their own:

- a claim that is still being written ends the whole aggregation pass
  (`made_budget_runner.py:471`), where the docstring at 452-454 says that truncated
  work stays missing;
- a temporary file left by a death makes an otherwise complete orphaned envelope
  unverifiable for ever (`made_budget_runner.py:216` against the docstring at 4-6);
- the builder checks a started stage and writes later, so that its command can
  still change (`build_stage_queue.py:37` and 101);
- a build after the finalizer resets the acceptance (`build_stage_queue.py:113`);
- a runner that dies between the two files of a new study leaves one no run can
  resume (`final_evaluation.py:323`), and so does a training that dies between its
  manifest and its first marker (`es_training.py:742`).

Every run but four checks for deadlock and finds none; in `oracle_journal` this
also says that the lifecycle lock is always freed. A study stuck between its two
files does not count as one, because each further run starts and raises
(`RefuseStudy`); nor does a training that died before its first marker (`Refuse`).
`episode`, `shard_runner`, `project_files` and `transcoder_bank` do not check it,
because their systems really stop: an episode ends, launches, edits and
reruns are bounded, and a bank that needs a human waits for one.

Some properties cover less than their subject may suggest. `SweepAccepted` is
checked with one GPU for both actors; that a waiting actor leaves no job
unreserved is proved for any (`SearchOrder`). `StudyCompletes` is about declared
courses of builds, on which a builder that replaces the queue after checking it
does no harm; on the others `RecordsAreTrue` and `FailuresHalt` hold.
`KeepsPromise` and `BanksRecover` have the stage and an installation fill `Core`
in turns, never at once.

## Fairness

`BudgetSweep`: weak fairness of each launched actor's own steps (a live process
is scheduled; its wait has a deadline), of the aggregator (the operator repeats
it) and of the B10 runner. No fairness of `Start`, `Raise` or `Crash`.
`FinalEvaluation`: the operator schedules every batch again and again (strong
fairness, because a run of another batch disables it), settles what is left
open, and a live runner goes on; `CloseRollout` is strongly fair because a
rollout is a finite loop whose requests can each delay it. `StageSupervisor`:
every stage process ends, the operator makes the builds of the plan and starts
the supervisor whenever it is off. `ESTraining`: a session goes on until it
leaves, and the operator resumes a condition whose session has left, on any
hardware; nobody is assumed to reconcile, so completion is promised only unless
a request blocks the training. `OracleJournal` has no fairness and no liveness.
`Episode`: the client and the script are scheduled, and the client's timer runs;
nothing is assumed of the environment. `ShardRunner`: a running worker and the
aggregator go on, and somebody starts a shard that has no receipt, and the
aggregator, again and again, as their refusals ask for. `ProjectFiles`: a
launched stage goes on; nobody need launch one, and the audit promises nothing in
time. `TranscoderBank`: stage and publisher go on and are started again; `OpenStage`
is strongly fair because an installation pauses the stage, and who paused it
starts it again. `BanksRecover` is stated as one `<>[]`, since receipts stay.

## Proofs

`BudgetSweepProofs` proves type correctness, `AtMostOneAttempt`, `B50AfterB30`
(with `DrainedMeansReserved`), `PublishedMeansEvidenced`, `LossBound`,
`FaultFreeEnvelopes` and the refinement of `JobAcceptance`, for all finite or
infinite sets of actors and jobs and every bound on faults, from
`ConstantsAssumption` alone. The invariant `IInv` has seven parts. `HoldersInv`
says that a reserved job is held by the actor whose `mkdir` created it, and
`AttemptInv` that until then nothing ran in it: together they give one attempt.
`SearchInv` says that what an actor no longer tries was reserved before; it is
what makes the local decision of an actor global. `AggregateInv` and
`ExclusionInv` carry the same over to the aggregator through the execution lock.
`LossInv` is a cardinality argument: a fault releases one job.

`PipelineProofs` proves, of the final evaluation, type correctness, `AuthorizedCalls`,
`StoppedBeforeRetry`, `SuccessHasEvidence` and `CompletedWorkKept` for every set
of jobs and batches and every number of faults and altered results, from
`BatchesAssumption`. `RunInv` ties the runner's position to the attempt it
executes, `EvidenceInv` ties the row of a job to its files and its environment
(only an open transcript can have a busy environment), and `CallsInv` counts:
trajectories are paid for by claims, claims by authorizations. The properties
alone are not inductive: that a failed job is idle needs that a closed
transcript implies an idle environment, for attempts that are still running.

`ShardRunnerProofs` proves type correctness, `ReceiptsPinTheLedger`,
`ResultsAreNotWrittenOff` and the refinement of `JobAcceptance`, for every set of
workers, shards and jobs and every bound, from `ShardAssumption`. The invariant
has the files, the processes, one part for each worker and one for each shard.
`WorkerOK` relates a worker's copy to the ledger on disk: equal, one change
ahead, or, in the handler, ahead by a save that raised. `ShardOK` relates ledger,
evidence, counts, completion and receipt of a shard, also of the jobs its worker
is in the middle of. The lemma `Alone` (no two workers have a shard open) and
`Elsewhere` (a step in one shard leaves the parts of the others alone) reduce
every action to the worker and the shard it touches; the properties alone are
not inductive, because what a save may leave behind depends on the copy. The
refinement adds `AggInv`: the shards an aggregator has read stay accepted.

`ProjectReadersProofs` proves `DigestWasContent`, `CacheIsCurrent` and
`SnapshotIsSource` for any files, blocks, edits, stages and deaths, from
`FilesAssumption` and `StageAssumption`. Two quantities only
grow: the clock, and for each path the blocks that were replaced. The audit's
part says of each point of a call how the stats it holds bound the change times
of what it read; a digest can be believed because an edit after the first stat
moves the change time past the guard. The stages' part follows the temporary
copy file by file. Neither property is inductive: both speak of the end of a
call whose reads were spread over many edits.

`TranscoderBankProofs` proves `ReadyIsSound` and the refinement of
`JobAcceptance` by both banks, for any number of layers and deaths, from
`BankAssumption`. `BankOK` ties a manifest to the checkpoints and to the fits
begun, and the checkpoints to the recorded digests while the shards still have
those, `PlaceOK` where a process stands to the manifest of its bank, `SharedOK`
the two processes to each other. The step that crosses banks is the
installation: it finds a directory never made, so no fit is in progress there,
and leaves a complete bank, so none will be. `Ready` alone is not inductive: what
makes it true is that the layers behind `current` were never touched.

`PipelineProofs` proves, of the pipeline, `FailuresHalt`, `RecordsAreTrue`,
`CompletionIsSound` and `NeverReplayed` for any declared stages, any plan of
builds, any number of failures and crashes, from `StagesAssumption` and under
the hypothesis `OneSupervisor`: there is one supervisor at a time, restarted any
number of times. With two the statements are false (run `stage_replay`). A queue
always holds the declared stages up to one of three places (`Queues`), so the
processes launched are a prefix of the declared order (`InOrder`) and what is on
record of a stage follows from how many were launched (`Recorded`). The least
stage without a record is then the one behind the last launched, whatever the
builder wrote in between; the accepted queue holds all stages, because only then
is its last one the finalizer.

`ESTrainingProofs` proves `ResumeAccepted`, `HistoryIsMeasured`, `SelectionStays`
and the refinement of `JobAcceptance`, for any number of generations,
candidates, development cases, ways of rounding, deaths and exceptions, from
`TrainingAssumption`. What that assumes: two candidates at least, at least one
development case (the constructors in `es_training.py` refuse fewer), measurements
that are integers, standing for floats that compare and add up like them, and
that a missing file is none of the contents a file can have. The argument rests
on one fact about steps, `Kept`: a complete record and its rollout never change.
So it is enough to say of a list of generations that its numbers are such
measurements (`Measured`) and of a best generation that it is the first of the
best of its list (`Chosen`); both are predicates of the list and move with it
from the memory of a session through `_commit` into a marker, and back when a
session resumes. `FileOK` says this of each committed generation, with what
retirement may remove; `MemoryOK` of the session, with the values of the
unfinished generation; `PlaceOK` where the session stands in the files; `FinalOK`
what a summary and a receipt may rest on. None of the three properties is
inductive: that the next session can load what a death leaves needs what the
dying session had in memory. Score, a sum over a list, is the one recursive
definition: that it is an integer is proved by the least-number principle over
a set (`SetInduction`), since the induction theorems of the library take an
operator. `Selected` is proved to be what the incremental choice computes
(`ChosenNext`, `ChosenIsSelected`).

`EpisodeProofs` proves all four safety properties of a rollout, `BudgetKept`,
`AcceptedIsPhysical`, `PausedIsQuiet` and `CompleteIsAccepted`, for any budget,
candidates, sites, crystals, tool calls, recoveries and pauses, and any answers,
failures, time-outs and deaths, from `EpisodeAssumption`, `BudgetAssumption` and
`CrystalAssumption` (the bounds are numbers, of which the code's defaults are
positive, and no candidate is the value that stands for none). `Inv` follows the conversation: the environment works only between
a request and its answer and the client only outside of it, so what the channel
holds is what the last row of the transcript asked for (`Conversation`), an
answer speaks of the adapter as it still is, a close is the last request
(`Closing`), and a client stopped at a boundary has nothing in the channel
(`Pausing`). This gives the budget, the quiet pause and, from an accepted
transcript, the closed session that left it. The converse needs the transcript
as a whole, and two more invariants. `Trace` says of a rollout that goes on that its rows alternate and
pair (`Pairs`) and, as long as no step was skipped, that transcript and curve
are what the reconstruction will ask of them, save for the one step that is
unsettled: `Book` for MADE (each answered step tells how many steps there were,
each point of the curve is the best that the steps up to it brought) and `Session`
for CrystalGym (a completed crystal counts one more than the last start told).
The lemmas on appended rows (`NoNews`, `StepAdded`, `AnswerAdded`) say what one
row changes in what the reconstruction computes, and each action is then one or
two rows. `Ending` says how the transcript of a MADE rollout ends: since only a
step can finish the episode, the last pair before the close is that step, or the
observation after it if it failed, which decides whether the counters agree
(`CountersTold`). Neither `CompleteIsAccepted` nor `AcceptedIsPhysical` is inductive: both
speak of the end of a conversation whose rows were written one by one. The
hypothesis `skipped = 0` of `CompleteIsAccepted` is that of the property itself.

`OracleJournalProofs` proves `ForwardsArePrivate` and `AuditIsTruthful` for any
oracles, workers, threads, batches of any size, rows whose writing raises and a
death anywhere, from `WorkersAssumption` and `JournalAssumption` (which asks for at
least one oracle: an adapter without one keeps no journal). `LockHeld` says that
whoever constructs or evaluates holds the lifecycle lock, and `Pools` that no two
threads of a batch hold one calculator and that no spare one is held: together
they make the forwards private. For the audit, `AttemptRows` and
`ConstructorRows` say that what is in progress has its start on record and no
outcome, so a journal in which everything is resolved has nothing in progress.
`Tallied` names, for each oracle, the set of attempts that were counted and not
evaluated: the counter is the number of evaluations plus the size of that set,
which a journal without exceptions leaves empty. `Numbered` is why the counters
can be believed although a row may reach the disk while its writing raises: such
a row is the last one that the audit accepts, and it is an attempt without an
outcome or no attempt at all. The properties are not inductive: they compare a
counter with rows, and a row and its counter part company exactly where writing
raises.

It proves `HonestJournalAccepted` from the same assumptions, by a second
invariant, `HonestInv`, that is inductive together with the first and speaks of
journals of which no write raised. `Fits` states what the audit asks of one row
behind the rows there are, and `ValidStays` that a valid journal with a row that
fits is valid, one lemma for each of the audit's nine conditions; what is left is
that every row the adapter writes fits. `OnRecord` says how far the journal is
with the batch in progress (its start, its calculators, the mark that all are
ready), `OpenBatches`, `OpenSlots`, `OpenOracles` and `OpenAttempts` that nothing
else is without an outcome, which gives the rest of the property: with the lock
free the journal is closed. The part that takes an argument is `Divided`: the
structures of a batch are divided among the chunks in the queue, the items ahead
of the threads, which never overlap, and, unless a chunk raised, the attempts
that returned. So no structure is attempted twice, and when a batch without a
failure has joined its threads there is exactly one attempt of each, which is
the count that `oracle_batch_finished` claims. That the chunks handed out divide
the batch is arithmetic (`DividedUp`, `ChunksDivide`). The property is not
inductive: the row that ends a batch is accepted for what the threads wrote
since it began. TLC agreed before the proof: with `HonestInv`
as the invariant and a second batch of two structures, of either oracle, it found
no violation in 13.4 million states.

Every safety property of a passing run is proved. Only model-checked: the liveness
properties (`LaunchedActorEnds`, `SweepAccepted`, `StudyRecovers`, `StudyCompletes`,
`TrainingCompletes`, `RolloutEnds`, `StudyEnds`, `UndisturbedStageStarts`,
`BanksRecover`), which are out of the prover's reach, and the violated statements.

## Not modelled

`PROJECT.json` "components" gives each part and the reason. Most of the
implementation's lines are outside what these specifications can be about:
frozen snapshots of earlier source, numerical code (fitting, attribution,
decoding, statistics), read-only audits and reports, one-off recovery and
installation scripts, and the validation of manifests that never change, which
appear here as constants. The share of the lines the models stand for is small
for that reason; what changes shared state is what they cover. Within modelled
parts, `verify_result` and `verify_final_envelope` are the predicate "the result
verifies".

Of the parts with state of their own these are still missing: the acceptance of
an arm in `core_es.py`, the collection driver, `run_core_study.py` around the
supervisor, the adoption of a reused transcoder bank, and concurrent claimants
of the SQLite ledger (`accounting.py:561`), which the one client in the models
excludes by its lock.

## Plan

1. `LedgerClients`: concurrent clients of `RunLedger` with fencing by attempt id.
2. `CoreStudy`: `core_es.py` and `run_core_study.py` above the supervisor.
3. `FailureController` as pure operators against a reference definition.
