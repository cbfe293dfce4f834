---------------------------- MODULE BudgetSweep ----------------------------
(***************************************************************************)
(* The B30/B50 budget sweep of src/src/matdiscovery/made_budget_runner.py. *)
(*                                                                         *)
(* GPU actors and one CPU aggregator are separate processes that share     *)
(* only a directory: mkdir reserves a job, an exclusively created          *)
(* claim.json names its actor, flock on .execution.lock excludes the       *)
(* aggregator while the actor works, and result.json and receipt.json are  *)
(* renamed into place.  A process may die between any two steps (Crash,    *)
(* AggCrash) and any statement of an actor's loop may raise (Raise).       *)
(***************************************************************************)
EXTENDS Naturals, FiniteSets

CONSTANTS
    Actors,         \* registered actor identities
    Jobs,           \* registered jobs of the new matrix
    JobBudget,      \* JobBudget[j]: 30 or 50 candidate oracle attempts
    JobMethod,      \* JobMethod[j]: the evaluated method
    InitialMethod,  \* InitialMethod[a]: the method an actor prefers at first
    GpuOf,          \* GpuOf[a]: the one GPU allocated to the actor
    MaxFaults,      \* bound: crashes and exceptions of a behaviour
    NoClaim,        \* claim.json does not exist
    Unfinished,     \* claim.json exists, but is not yet complete JSON
    NoJob,          \* Python's None for a job
    Aggregator      \* the process that runs aggregate_sweep

Budgets == {30, 50}

ASSUME ConstantsAssumption ==
    /\ JobBudget \in [Jobs -> Budgets]
    /\ DOMAIN InitialMethod = Actors
    /\ MaxFaults \in Nat
    /\ NoClaim \notin Actors /\ Unfinished \notin Actors /\ NoClaim # Unfinished
    /\ NoJob \notin Jobs /\ Aggregator \notin Actors

VARIABLES
    \* The shared directory.
    reserved,    \* jobs whose directory exists
    claim,       \* claim[j]: content of claim.json, the actor it names
    attempt,     \* attempt[j]: the output directory named by the claim
    receipt,     \* jobs whose receipt.json exists
    failure,     \* jobs whose failure.json exists
    temps,       \* temps[j]: the processes whose mkstemp file is in the job
                 \* directory (a process has at most one there)
    invoked,     \* actors whose invocation.json exists
    reports,     \* budgets whose report budget_N.json is published
    accepted,    \* "report" and "final": the documents of the whole sweep
    prior,       \* the imported B10 matrix is complete
    \* Each actor process.
    pc,          \* pc[a]: where MadeBudgetActor.run stands
    scan,        \* scan[a]: jobs claim_next_job has still to try
    target,      \* target[a]: the job directory this actor created last
    job,         \* job[a]: the variable job of run
    method,      \* method[a]: the variable current_method of run
    \* The aggregator process.
    aggPc,       \* where aggregate_sweep stands
    aggTodo,     \* jobs not yet visited by this pass
    aggJob,      \* the job whose execution lock it holds
    aggDone,     \* jobs with a receipt in this pass; the other visited jobs
                 \* are the list missing
    \* Observation only.
    rollouts,    \* rollouts[j]: physical trajectories started for j
    faults       \* crashes and exceptions so far

outcomes == <<receipt, failure, temps>>
jobFiles == <<reserved, claim, attempt, outcomes>>
sweepFiles == <<invoked, reports, accepted, prior>>
locals == <<scan, target, job, method>>
aggVars == <<aggPc, aggTodo, aggJob, aggDone>>
ghosts == <<rollouts, faults>>
vars == <<jobFiles, sweepFiles, pc, locals, aggVars, ghosts>>

\* Inside claim_next_job, after its mkdir; under the execution lock; in the
\* try block of run, where an exception is caught; in its handler.
Reserving == {"reserving", "claiming", "claimed"}
Executing == {"running", "resulted", "receipting", "finished"}
Holding == Reserving \cup {"claim_returned"} \cup Executing
Guarded == {"scanning", "waiting"} \cup Holding
ActorPcs == {"off", "launching", "failing", "recording"} \cup Guarded

TypeOK ==
    /\ reserved \subseteq Jobs /\ receipt \subseteq Jobs /\ failure \subseteq Jobs
    /\ claim \in [Jobs -> Actors \cup {NoClaim, Unfinished}]
    /\ attempt \in [Jobs -> {"absent", "partial", "result"}]
    /\ temps \in [Jobs -> SUBSET (Actors \cup {Aggregator})]
    /\ invoked \subseteq Actors
    /\ reports \subseteq {10, 30, 50} /\ accepted \subseteq {"report", "final"}
    /\ prior \in BOOLEAN
    /\ pc \in [Actors -> ActorPcs]
    /\ scan \in [Actors -> SUBSET Jobs]
    /\ target \in [Actors -> Jobs \cup {NoJob}]
    /\ job \in [Actors -> Jobs \cup {NoJob}]
    /\ DOMAIN method = Actors
    /\ aggPc \in {"idle", "scan", "verify", "receipting", "decide", "accept"}
    /\ aggTodo \subseteq Jobs /\ aggDone \subseteq Jobs
    /\ aggJob \in Jobs \cup {NoJob}
    /\ rollouts \in [Jobs -> Nat]
    /\ faults \in 0..MaxFaults

Init ==
    /\ reserved = {} /\ receipt = {} /\ failure = {}
    /\ claim = [j \in Jobs |-> NoClaim]
    /\ attempt = [j \in Jobs |-> "absent"]
    /\ temps = [j \in Jobs |-> {}]
    /\ invoked = {} /\ reports = {} /\ accepted = {} /\ prior \in BOOLEAN
    /\ pc = [a \in Actors |-> "off"]
    /\ scan = [a \in Actors |-> {}]
    /\ target = [a \in Actors |-> NoJob]
    /\ job = [a \in Actors |-> NoJob]
    /\ method = InitialMethod
    /\ aggPc = "idle" /\ aggTodo = {} /\ aggJob = NoJob /\ aggDone = {}
    /\ rollouts = [j \in Jobs |-> 0]
    /\ faults = 0

-----------------------------------------------------------------------------
(***************************************************************************)
(* Helpers; a name with _ is a faulty variant that a property must notice    *)
(***************************************************************************)

\* The non-blocking flock on .execution.lock: held by an actor exactly while
\* it executes the job, and dropped by the kernel when the actor dies.
LockFree(j) == \A a \in Actors : ~(pc[a] \in Executing /\ job[a] = j)

\* verify_budget_envelope: a complete claim, the result of the sole claimed
\* attempt, and no file in the job directory beyond the allowed names; the
\* random name of a mkstemp file is not among them.
EnvelopeVerifies(j) ==
    claim[j] \in Actors /\ attempt[j] = "result" /\ temps[j] = {}

Precedes_MethodFirst(a, j, k) ==
    \/ JobMethod[j] = method[a] /\ JobMethod[k] # method[a]
    \/ (JobMethod[j] = method[a] <=> JobMethod[k] = method[a]) /\ JobBudget[j] < JobBudget[k]

\* The key (budget, method # current_method, ...) by which claim_next_job
\* sorts the jobs; the rest of the key only breaks ties and is left open.
Precedes(a, j, k) ==
    \/ JobBudget[j] < JobBudget[k]
    \/ JobBudget[j] = JobBudget[k] /\ JobMethod[j] = method[a] /\ JobMethod[k] # method[a]

NextToTry(a) == {j \in scan[a] : \A k \in scan[a] : ~Precedes(a, k, j)}

\* mkdir without exist_ok: only the process that creates a directory goes on.
CanReserve(j) == j \notin reserved

\* "Actor invocation already exists; reconcile without automatic restart".
NeverInvoked(a) == a \notin invoked

\* global_receipt: the receipt, its report and all that they name verify.
GloballyAccepted == "final" \in accepted

\* "if job is not None": whether the handler of run writes failure.json.
RecordsFailure(a) == job[a] # NoJob

Goto(a, there) == pc' = [pc EXCEPT ![a] = there]

\* The process is gone, and its variables with it.
Exit(a) ==
    /\ Goto(a, "off")
    /\ scan' = [scan EXCEPT ![a] = {}]
    /\ target' = [target EXCEPT ![a] = NoJob]
    /\ job' = [job EXCEPT ![a] = NoJob]
    /\ method' = [method EXCEPT ![a] = InitialMethod[a]]

-----------------------------------------------------------------------------
(***************************************************************************)
(* MadeBudgetActor.run: start of the one invocation                        *)
(***************************************************************************)

\* The guards before the loop: actor lock, no global receipt, no earlier
\* invocation, and the lock of the allocated GPU.
Start(a) ==
    /\ pc[a] = "off"
    /\ ~GloballyAccepted /\ NeverInvoked(a)
    /\ \A b \in Actors \ {a} : GpuOf[b] = GpuOf[a] => pc[b] = "off"
    /\ Goto(a, "launching")
    /\ UNCHANGED <<jobFiles, sweepFiles, locals, aggVars, ghosts>>

\* invocation.json is created exclusively; the loop begins with job = None.
Launch(a) ==
    /\ pc[a] = "launching"
    /\ invoked' = invoked \cup {a}
    /\ Goto(a, "scanning")
    /\ scan' = [scan EXCEPT ![a] = Jobs]
    /\ UNCHANGED <<jobFiles, reports, accepted, prior, target, job, method, aggVars, ghosts>>

-----------------------------------------------------------------------------
(***************************************************************************)
(* claim_next_job: the sorted jobs are tried one mkdir at a time           *)
(***************************************************************************)

\* FileExistsError: a reservation, complete or not, is never taken over.
SkipReserved(a) ==
    /\ pc[a] = "scanning"
    /\ \E j \in NextToTry(a) :
         ~CanReserve(j) /\ scan' = [scan EXCEPT ![a] = @ \ {j}]
    /\ UNCHANGED <<jobFiles, sweepFiles, pc, target, job, method, aggVars, ghosts>>

\* Faulty: a claim without a result is recycled once its actor is gone.
Reserve_Recycling(a) ==
    /\ pc[a] = "scanning"
    /\ \E j \in NextToTry(a) :
         /\ CanReserve(j) \/ (claim[j] \in Actors /\ pc[claim[j]] = "off" /\ attempt[j] # "result")
         /\ reserved' = reserved \cup {j}
         /\ target' = [target EXCEPT ![a] = j]
         /\ claim' = [claim EXCEPT ![j] = NoClaim]
    /\ scan' = [scan EXCEPT ![a] = {}]
    /\ Goto(a, "reserving")
    /\ UNCHANGED <<attempt, outcomes, sweepFiles, job, method, aggVars, ghosts>>

\* Faulty: the actor reserves everything it is going to run.
Reserve_WholeList(a) ==
    /\ pc[a] = "scanning"
    /\ \E j \in NextToTry(a) :
         /\ CanReserve(j)
         /\ reserved' = reserved \cup scan[a]
         /\ target' = [target EXCEPT ![a] = j]
    /\ scan' = [scan EXCEPT ![a] = {}]
    /\ Goto(a, "reserving")
    /\ UNCHANGED <<claim, attempt, outcomes, sweepFiles, job, method, aggVars, ghosts>>

Reserve(a) ==
    /\ pc[a] = "scanning"
    /\ \E j \in NextToTry(a) :
         /\ CanReserve(j)
         /\ reserved' = reserved \cup {j}
         /\ target' = [target EXCEPT ![a] = j]
    /\ scan' = [scan EXCEPT ![a] = {}]
    /\ Goto(a, "reserving")
    /\ UNCHANGED <<claim, attempt, outcomes, sweepFiles, job, method, aggVars, ghosts>>

\* create_once opens claim.json with O_EXCL: the file exists, still empty.
OpenClaim(a) ==
    /\ pc[a] = "reserving"
    /\ claim[target[a]] = NoClaim
    /\ claim' = [claim EXCEPT ![target[a]] = Unfinished]
    /\ Goto(a, "claiming")
    /\ UNCHANGED <<reserved, attempt, outcomes, sweepFiles, locals, aggVars, ghosts>>

WriteClaim(a) ==
    /\ pc[a] = "claiming"
    /\ claim' = [claim EXCEPT ![target[a]] = a]
    /\ Goto(a, "claimed")
    /\ UNCHANGED <<reserved, attempt, outcomes, sweepFiles, locals, aggVars, ghosts>>

\* manifest.json is published (every later step finds it) and the call
\* returns: only now does run see the new job.
ReturnClaim(a) ==
    /\ pc[a] = "claimed"
    /\ job' = [job EXCEPT ![a] = target[a]]
    /\ Goto(a, "claim_returned")
    /\ UNCHANGED <<jobFiles, sweepFiles, scan, target, method, aggVars, ghosts>>

\* Every directory was already there: (None, None), and the wait begins.
NoJobLeft(a) ==
    /\ pc[a] = "scanning" /\ scan[a] = {}
    /\ job' = [job EXCEPT ![a] = NoJob]
    /\ Goto(a, "waiting")
    /\ UNCHANGED <<jobFiles, sweepFiles, scan, target, method, aggVars, ghosts>>

-----------------------------------------------------------------------------
(***************************************************************************)
(* One job under its execution lock, and _execute                          *)
(***************************************************************************)

\* The lock is taken, the profile of the job's method is loaded and the
\* physical trajectory starts.  Its output directory is named by the claim's
\* fresh attempt_id, so "require(not output.exists())" never stops it: only
\* the reservation keeps a job from being run twice.
StartRollout(a) ==
    /\ pc[a] = "claim_returned"
    /\ LockFree(job[a]) /\ aggJob # job[a]
    /\ attempt' = [attempt EXCEPT ![job[a]] = "partial"]
    /\ rollouts' = [rollouts EXCEPT ![job[a]] = @ + 1]
    /\ method' = [method EXCEPT ![a] = JobMethod[job[a]]]
    /\ Goto(a, "running")
    /\ UNCHANGED <<reserved, claim, outcomes, sweepFiles, scan, target, job, aggVars, faults>>

\* The trajectory returned and its evidence was reconstructed: result.json.
WriteResult(a) ==
    /\ pc[a] = "running"
    /\ attempt' = [attempt EXCEPT ![job[a]] = "result"]
    /\ Goto(a, "resulted")
    /\ UNCHANGED <<reserved, claim, outcomes, sweepFiles, locals, aggVars, ghosts>>

\* finish_job: the envelope verifies and publish_once creates its mkstemp
\* file in the job directory.
WriteReceipt(a) ==
    /\ pc[a] = "resulted"
    /\ EnvelopeVerifies(job[a])
    /\ temps' = [temps EXCEPT ![job[a]] = @ \cup {a}]
    /\ Goto(a, "receipting")
    /\ UNCHANGED <<reserved, claim, attempt, receipt, failure, sweepFiles, locals, aggVars, ghosts>>

RenameReceipt(a) ==
    /\ pc[a] = "receipting"
    /\ temps' = [temps EXCEPT ![job[a]] = @ \ {a}]
    /\ receipt' = receipt \cup {job[a]}
    /\ Goto(a, "finished")
    /\ UNCHANGED <<reserved, claim, attempt, failure, sweepFiles, locals, aggVars, ghosts>>

\* Faulty: the list of jobs is not built again after a job.
ReleaseExecution_KeepsList(a) ==
    /\ pc[a] = "finished"
    /\ Goto(a, "scanning")
    /\ UNCHANGED <<jobFiles, sweepFiles, locals, aggVars, ghosts>>

\* The lock is released and claim_next_job starts over.  The variable job
\* keeps the finished job until that call returns.
ReleaseExecution(a) ==
    /\ pc[a] = "finished"
    /\ scan' = [scan EXCEPT ![a] = Jobs]
    /\ Goto(a, "scanning")
    /\ UNCHANGED <<jobFiles, sweepFiles, target, job, method, aggVars, ghosts>>

-----------------------------------------------------------------------------
(***************************************************************************)
(* The end of an actor: acceptance, deadline, exception, crash             *)
(***************************************************************************)

\* Faulty: no deadline.
EndWait_OnAcceptance(a) ==
    /\ pc[a] = "waiting" /\ GloballyAccepted
    /\ Exit(a)
    /\ UNCHANGED <<jobFiles, sweepFiles, aggVars, ghosts>>

\* The wait ends with the global receipt, or with the 36-hour deadline; job
\* is None, so the handler writes no failure record.
EndWait(a) ==
    /\ pc[a] = "waiting"
    /\ Exit(a)
    /\ UNCHANGED <<jobFiles, sweepFiles, aggVars, ghosts>>

\* A statement of the try block raises: the with block drops the lock,
\* write_json_atomic removes its unfinished file, and the handler goes on to
\* failure.json exactly if job is not None.
Raise(a) ==
    /\ faults < MaxFaults
    /\ pc[a] \in Guarded
    /\ faults' = faults + 1
    /\ temps' = IF pc[a] = "receipting" THEN [temps EXCEPT ![job[a]] = @ \ {a}] ELSE temps
    /\ \/ RecordsFailure(a) /\ Goto(a, "failing") /\ UNCHANGED locals
       \/ ~RecordsFailure(a) /\ Exit(a)
    /\ UNCHANGED <<reserved, claim, attempt, receipt, failure, sweepFiles, aggVars, rollouts>>

WriteFailure(a) ==
    /\ pc[a] = "failing"
    /\ temps' = [temps EXCEPT ![job[a]] = @ \cup {a}]
    /\ Goto(a, "recording")
    /\ UNCHANGED <<reserved, claim, attempt, receipt, failure, sweepFiles, locals, aggVars, ghosts>>

RenameFailure(a) ==
    /\ pc[a] = "recording"
    /\ temps' = [temps EXCEPT ![job[a]] = @ \ {a}]
    /\ failure' = failure \cup {job[a]}
    /\ Exit(a)
    /\ UNCHANGED <<reserved, claim, attempt, receipt, sweepFiles, aggVars, ghosts>>

\* The process dies anywhere: nothing is cleaned up but its locks.
Crash(a) ==
    /\ faults < MaxFaults
    /\ pc[a] # "off"
    /\ faults' = faults + 1
    /\ Exit(a)
    /\ UNCHANGED <<jobFiles, sweepFiles, aggVars, rollouts>>

-----------------------------------------------------------------------------
(***************************************************************************)
(* aggregate_sweep: one pass over the registered jobs                      *)
(***************************************************************************)

\* A pass ends, by a return or an exception; its lists and locks are gone.
AggEnd == aggPc' = "idle" /\ aggTodo' = {} /\ aggJob' = NoJob /\ aggDone' = {}

\* The aggregate lock admits one pass at a time.
AggStart ==
    /\ aggPc = "idle"
    /\ aggPc' = "scan" /\ aggTodo' = Jobs
    /\ UNCHANGED <<jobFiles, sweepFiles, pc, locals, aggJob, aggDone, ghosts>>

AggVisit(j) ==
    /\ aggPc = "scan" /\ j \in aggTodo
    /\ aggTodo' = aggTodo \ {j}

\* No claim file, no result, or a lock held by an actor: missing.
AggMissing(j) ==
    /\ AggVisit(j)
    /\ \/ claim[j] = NoClaim
       \/ claim[j] \in Actors /\ (attempt[j] # "result" \/ ~LockFree(j))
    /\ UNCHANGED <<jobFiles, sweepFiles, pc, locals, aggPc, aggJob, aggDone, ghosts>>

\* claim.json is there but is not complete JSON: read raises out of the pass.
AggBadClaim(j) ==
    /\ aggPc = "scan" /\ j \in aggTodo
    /\ claim[j] = Unfinished
    /\ AggEnd
    /\ UNCHANGED <<jobFiles, sweepFiles, pc, locals, ghosts>>

AggLock(j) ==
    /\ AggVisit(j)
    /\ claim[j] \in Actors /\ attempt[j] = "result"
    /\ LockFree(j)
    /\ aggPc' = "verify" /\ aggJob' = j
    /\ UNCHANGED <<jobFiles, sweepFiles, pc, locals, aggDone, ghosts>>

\* finish_job raises out of the pass.
AggBadEnvelope ==
    /\ aggPc = "verify" /\ ~EnvelopeVerifies(aggJob)
    /\ AggEnd
    /\ UNCHANGED <<jobFiles, sweepFiles, pc, locals, ghosts>>

\* finish_job on an orphaned envelope: publish_once creates its mkstemp file.
AggWriteReceipt ==
    /\ aggPc = "verify" /\ EnvelopeVerifies(aggJob)
    /\ aggJob \notin receipt
    /\ temps' = [temps EXCEPT ![aggJob] = @ \cup {Aggregator}]
    /\ aggPc' = "receipting"
    /\ UNCHANGED <<reserved, claim, attempt, receipt, failure, sweepFiles, pc, locals,
                   aggTodo, aggJob, aggDone, ghosts>>

AggAccepted ==
    /\ aggDone' = aggDone \cup {aggJob}
    /\ aggPc' = "scan" /\ aggJob' = NoJob
    /\ UNCHANGED aggTodo

AggRenameReceipt ==
    /\ aggPc = "receipting"
    /\ temps' = [temps EXCEPT ![aggJob] = @ \ {Aggregator}]
    /\ receipt' = receipt \cup {aggJob}
    /\ AggAccepted
    /\ UNCHANGED <<reserved, claim, attempt, failure, sweepFiles, pc, locals, ghosts>>

\* publish_once finds the identical receipt of the actor or of another pass.
AggKeepReceipt ==
    /\ aggPc = "verify" /\ EnvelopeVerifies(aggJob)
    /\ aggJob \in receipt
    /\ AggAccepted
    /\ UNCHANGED <<jobFiles, sweepFiles, pc, locals, ghosts>>

JobsOf(b) == {j \in Jobs : JobBudget[j] = b}

BudgetComplete_AnyJob(b) == JobsOf(b) \cap aggDone # {}

\* len(by_budget[budget]) == 60: all jobs of the budget are in this pass.
BudgetComplete(b) == JobsOf(b) \subseteq aggDone

AggBudgetReports ==
    /\ aggPc = "scan" /\ aggTodo = {}
    /\ reports' = reports \cup {b \in Budgets : BudgetComplete(b)}
    /\ aggPc' = "decide"
    /\ UNCHANGED <<jobFiles, invoked, accepted, prior, pc, locals, aggTodo, aggJob, aggDone, ghosts>>

MayReport_DespiteMissing == prior

\* "if missing" and "if not imported complete": the pass returns here else.
MayReport == aggDone = Jobs /\ prior

AggIncomplete ==
    /\ aggPc = "decide" /\ ~MayReport
    /\ AggEnd
    /\ UNCHANGED <<jobFiles, sweepFiles, pc, locals, ghosts>>

\* budget_10.json and report.json are published before the global receipt.
AggReport ==
    /\ aggPc = "decide" /\ MayReport
    /\ reports' = reports \cup {10}
    /\ accepted' = accepted \cup {"report"}
    /\ aggPc' = "accept"
    /\ UNCHANGED <<jobFiles, invoked, prior, pc, locals, aggTodo, aggJob, aggDone, ghosts>>

\* The global stage receipt.
AggAccept ==
    /\ aggPc = "accept"
    /\ accepted' = accepted \cup {"final"}
    /\ AggEnd
    /\ UNCHANGED <<jobFiles, invoked, reports, prior, pc, locals, ghosts>>

\* The aggregator dies anywhere; an unfinished receipt file stays behind.
AggCrash ==
    /\ faults < MaxFaults
    /\ aggPc # "idle"
    /\ faults' = faults + 1
    /\ AggEnd
    /\ UNCHANGED <<jobFiles, sweepFiles, pc, locals, rollouts>>

\* Outside this component: the original B10 evaluation becomes complete.
PriorCompletes ==
    /\ ~prior
    /\ prior' = TRUE
    /\ UNCHANGED <<jobFiles, invoked, reports, accepted, pc, locals, aggVars, ghosts>>

-----------------------------------------------------------------------------
(***************************************************************************)
(* Specification                                                           *)
(***************************************************************************)

\* What a launched actor does by itself.
ActorStep(a) ==
    \/ Launch(a)
    \/ SkipReserved(a) \/ Reserve(a) \/ OpenClaim(a) \/ WriteClaim(a)
    \/ ReturnClaim(a) \/ NoJobLeft(a)
    \/ StartRollout(a) \/ WriteResult(a) \/ WriteReceipt(a)
    \/ RenameReceipt(a) \/ ReleaseExecution(a)
    \/ EndWait(a) \/ WriteFailure(a) \/ RenameFailure(a)

AggStep ==
    \/ AggStart
    \/ \E j \in Jobs : AggMissing(j) \/ AggBadClaim(j) \/ AggLock(j)
    \/ AggBadEnvelope \/ AggWriteReceipt \/ AggRenameReceipt \/ AggKeepReceipt
    \/ AggBudgetReports \/ AggIncomplete \/ AggReport \/ AggAccept

Next ==
    \/ \E a \in Actors : Start(a) \/ ActorStep(a) \/ Raise(a) \/ Crash(a)
    \/ AggStep \/ AggCrash \/ PriorCompletes

Spec == Init /\ [][Next]_vars

\* A live process is scheduled, its wait has a deadline, the operator runs
\* the aggregator again after a pass has ended, and the B10 runner finishes.
\* No fairness is assumed of Start: registered actors are optional.
FairSpec ==
    /\ Spec
    /\ \A a \in Actors : WF_vars(ActorStep(a))
    /\ WF_vars(AggStep)
    /\ WF_vars(PriorCompletes)

-----------------------------------------------------------------------------
(***************************************************************************)
(* Properties                                                              *)
(***************************************************************************)

\* "At most one physical attempt per job": whatever crashes, raises or is
\* started late, no job's trajectory is started a second time.
AtMostOneAttempt == \A j \in Jobs : rollouts[j] <= 1

\* "B50 becomes eligible only after every B30 directory has been reserved",
\* although every actor decides that alone, one mkdir at a time.
B50AfterB30 ==
    (\E j \in reserved : JobBudget[j] = 50) => JobsOf(30) \subseteq reserved

\* An actor stops claiming only when no job of the matrix is left unreserved:
\* no job is skipped because two actors searched at the same time.
DrainedMeansReserved ==
    (\E a \in Actors : pc[a] = "waiting") => reserved = Jobs

\* A job is lost when its directory is reserved, no live actor holds it and
\* no complete result exists.
Holds(a, j) == pc[a] \in Holding /\ target[a] = j

Lost == {j \in reserved : attempt[j] # "result" /\ \A a \in Actors : ~Holds(a, j)}

\* Claims are never recycled, and still each crash or exception costs the
\* sweep at most one job.
LossBound == Cardinality(Lost) <= faults

\* A budget report, and the global receipt, exist only when every job they
\* count has a receipt backed by the result of its one attempt.
Evidenced(j) == j \in receipt /\ attempt[j] = "result" /\ rollouts[j] = 1

PublishedMeansEvidenced ==
    \A j \in Jobs :
        JobBudget[j] \in reports \/ 10 \in reports \/ accepted # {} => Evidenced(j)

\* The execution lock keeps the aggregator away from the files an actor is
\* still writing: without a crash or exception no envelope is ever refused.
FaultFreeEnvelopes ==
    faults = 0 /\ aggPc = "verify" => EnvelopeVerifies(aggJob)

\* The promise of the sweep, in terms of its files.
Phase(j) ==
    IF j \in receipt THEN "accepted"
    ELSE IF attempt[j] = "result" THEN "evidenced"
    ELSE IF attempt[j] = "partial" THEN "spent"
    ELSE IF j \in reserved THEN "reserved" ELSE "open"

Promise == INSTANCE JobAcceptance WITH
    phase <- [j \in Jobs |-> Phase(j)],
    calls <- rollouts,
    published <- GloballyAccepted

\* The actors and the aggregator together implement JobAcceptance.
KeepsPromise == Promise!Spec

\* A launched actor ends: by acceptance, by its deadline, or by a fault.
LaunchedActorEnds == \A a \in Actors : pc[a] # "off" ~> pc[a] = "off"

\* Unless a fault happens one launched actor is enough for the sweep to be
\* accepted; the other registered actors are optional.
SweepAccepted == \A a \in Actors : a \in invoked ~> GloballyAccepted \/ faults # 0

-----------------------------------------------------------------------------
(***************************************************************************)
(* Statements of the source that the program does not keep                 *)
(***************************************************************************)

\* A failure record goes to the job whose reservation or execution failed.
FailureNamesHeldJob ==
    [][\A a \in Actors :
          pc[a] \in Guarded /\ pc'[a] = "failing" =>
              pc[a] \in Holding /\ job'[a] = target[a]]_vars

=============================================================================
