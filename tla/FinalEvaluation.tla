-------------------------- MODULE FinalEvaluation --------------------------
(***************************************************************************)
(* The serial final evaluation of src/src/matdiscovery/final_evaluation.py *)
(* over a RunLedger: one runner process at a time (an flock on the study), *)
(* the official environment in a child process that survives the runner,   *)
(* and an operator who settles what the runner refuses to decide.          *)
(*                                                                         *)
(* The runner may die between any two steps, its rollout may raise, and a  *)
(* result may be altered on disk.  What the operator asserts is true: an   *)
(* attempt is reported as stopped only when its environment is idle.       *)
(*                                                                         *)
(* The names differ from those of StageSupervisor, which runs the          *)
(* evaluation as its last stages: one module proves theorems about both.   *)
(***************************************************************************)
EXTENDS RunLedger

CONSTANTS
    Batches,        \* the scheduling filters: sets of jobs of one run
    MaxFaults,      \* bound: crashes and exceptions
    MaxTampers,     \* bound: results altered on disk
    NoJob

ASSUME BatchesAssumption ==
    /\ Batches \subseteq SUBSET Jobs
    /\ MaxFaults \in Nat /\ MaxTampers \in Nat
    /\ NoJob \notin Jobs

VARIABLES
    study,       \* "new", "manifest" (manifest.json exists) or "ready" (and
                 \* execution_inputs.json): an existing study must be resumed
    transcript,  \* transcript[j]: rpc.jsonl of the latest attempt of j
    result,      \* result[j]: result.json of the latest attempt of j
    busy,        \* jobs whose environment process is executing an action
    place,       \* where FinalEvaluationRunner.run stands
    todo,        \* jobs of the batch still to visit
    job,         \* the job being executed
    calls,       \* observation: calls[j] physical trajectories started
    faults, tampers

evidence == <<transcript, result>>
run == <<place, todo, job>>
bounds == <<faults, tampers>>
studyVars == <<rows, study, evidence, busy, run, calls, bounds>>

InTry == {"rollout", "closed", "resulted"}

StudyTypeOK ==
    /\ RowsOK
    /\ study \in {"new", "manifest", "ready"}
    /\ transcript \in [Jobs -> {"none", "open", "closed"}]
    /\ result \in [Jobs -> {"none", "valid", "corrupt"}]
    /\ busy \subseteq Jobs
    /\ place \in {"off", "creating", "jobs", "claimed", "handling"} \cup InTry
    /\ todo \subseteq Jobs
    /\ job \in Jobs \cup {NoJob}
    /\ calls \in [Jobs -> Nat]
    /\ faults \in 0..MaxFaults /\ tampers \in 0..MaxTampers

StudyInit ==
    /\ EmptyRows
    /\ study = "new"
    /\ transcript = [j \in Jobs |-> "none"]
    /\ result = [j \in Jobs |-> "none"]
    /\ busy = {}
    /\ place = "off" /\ todo = {} /\ job = NoJob
    /\ calls = [j \in Jobs |-> 0]
    /\ faults = 0 /\ tampers = 0

\* verify_final_envelope: complete evidence, a closed official transcript and
\* the frozen profile; verify_result, the ledger's own check: scope, episodes
\* and hashes.  Both read the same files, so an altered result fails both.
EnvelopeVerifies(j) == result[j] = "valid"

ResultVerifies(j) == result[j] = "valid"

Leave == place' = "off" /\ todo' = {} /\ job' = NoJob

-----------------------------------------------------------------------------
(***************************************************************************)
(* FinalEvaluationRunner.run                                               *)
(***************************************************************************)

\* One lock covers the whole run.  A new study writes its two immutable files
\* one after the other; nothing writes the second one later.
Create(batch) ==
    /\ place = "off" /\ study = "new"
    /\ study' = "manifest"
    /\ place' = "creating" /\ todo' = batch /\ UNCHANGED job
    /\ UNCHANGED <<rows, evidence, busy, calls, bounds>>

WriteInputs ==
    /\ place = "creating"
    /\ study' = "ready"
    /\ place' = "jobs" /\ UNCHANGED <<todo, job>>
    /\ UNCHANGED <<rows, evidence, busy, calls, bounds>>

Resume_KeepRunning(batch) ==
    /\ place = "off" /\ study = "ready"
    /\ place' = "jobs" /\ todo' = batch /\ UNCHANGED job
    /\ UNCHANGED <<rows, study, evidence, busy, calls, bounds>>

\* A later run compares both files and quarantines what an earlier runner left
\* running; a clock set back since the claim (a fault) hides those rows.
Resume(batch) ==
    /\ place = "off" /\ study = "ready"
    /\ \/ MarkOrphaned({}) /\ UNCHANGED faults
       \/ faults < MaxFaults /\ faults' = faults + 1 /\ MarkOrphaned(Jobs)
    /\ place' = "jobs" /\ todo' = batch /\ UNCHANGED job
    /\ UNCHANGED <<study, evidence, busy, calls, tampers>>

\* Without the second file every run raises, with resume and without.
RefuseStudy == place = "off" /\ study = "manifest" /\ UNCHANGED studyVars

Visit(j) == place = "jobs" /\ j \in todo

SkipSucceeded(j) ==
    /\ Visit(j) /\ state[j] = "succeeded" /\ EnvelopeVerifies(j)
    /\ todo' = todo \ {j}
    /\ UNCHANGED <<rows, study, evidence, busy, place, job, calls, bounds>>

ReconcileOrphan_NoEnvelope(j) ==
    /\ Visit(j) /\ result[j] # "corrupt"
    /\ Reconcile(j, "succeeded")
    /\ todo' = todo \ {j}
    /\ UNCHANGED <<study, evidence, busy, place, job, calls, bounds>>

\* An orphan whose complete envelope verifies is accepted, not repeated.
ReconcileOrphan(j) ==
    /\ Visit(j) /\ EnvelopeVerifies(j)
    /\ Reconcile(j, "succeeded")
    /\ todo' = todo \ {j}
    /\ UNCHANGED <<study, evidence, busy, place, job, calls, bounds>>

\* Any other state raises out of the run.
Halt(j) ==
    /\ Visit(j)
    /\ \/ state[j] \in {"running", "failed"}
       \/ state[j] \in {"succeeded", "orphaned"} /\ ~EnvelopeVerifies(j)
    /\ Leave
    /\ UNCHANGED <<rows, study, evidence, busy, calls, bounds>>

\* A new attempt has its own directory.
ClaimJob(j) ==
    /\ Visit(j)
    /\ Claim(j)
    /\ transcript' = [transcript EXCEPT ![j] = "none"]
    /\ result' = [result EXCEPT ![j] = "none"]
    /\ place' = "claimed" /\ job' = j /\ UNCHANGED todo
    /\ UNCHANGED <<study, busy, calls, bounds>>

StartRollout ==
    /\ place = "claimed"
    /\ calls' = [calls EXCEPT ![job] = @ + 1]
    /\ transcript' = [transcript EXCEPT ![job] = "open"]
    /\ place' = "rollout" /\ UNCHANGED <<todo, job>>
    /\ UNCHANGED <<rows, study, result, busy, bounds>>

\* EnvironmentClient.request: logged, sent, and executed by the child.
Request ==
    /\ place = "rollout" /\ job \notin busy
    /\ busy' = busy \cup {job}
    /\ UNCHANGED <<rows, study, evidence, run, calls, bounds>>

\* The environment ends its action, whether or not anyone still listens.
EnvironmentAnswers(j) ==
    /\ j \in busy
    /\ busy' = busy \ {j}
    /\ UNCHANGED <<rows, study, evidence, run, calls, bounds>>

\* The last request is close: from here on the transcript proves the stop.
CloseRollout ==
    /\ place = "rollout" /\ job \notin busy
    /\ transcript' = [transcript EXCEPT ![job] = "closed"]
    /\ place' = "closed" /\ UNCHANGED <<todo, job>>
    /\ UNCHANGED <<rows, study, result, busy, calls, bounds>>

WriteResult ==
    /\ place = "closed"
    /\ result' = [result EXCEPT ![job] = "valid"]
    /\ place' = "resulted" /\ UNCHANGED <<todo, job>>
    /\ UNCHANGED <<rows, study, transcript, busy, calls, bounds>>

\* The envelope is verified and ledger.succeed commits.
Succeed ==
    /\ place = "resulted" /\ EnvelopeVerifies(job)
    /\ Finish(job, number[job], "succeeded")
    /\ place' = "jobs" /\ todo' = todo \ {job} /\ job' = NoJob
    /\ UNCHANGED <<study, evidence, busy, calls, bounds>>

\* A statement of the try block raises, a request timing out included; the
\* environment process is left alone.
Raise ==
    /\ place \in InTry
    /\ \/ faults < MaxFaults /\ faults' = faults + 1
       \/ place = "resulted" /\ ~EnvelopeVerifies(job) /\ UNCHANGED faults
    /\ place' = "handling" /\ UNCHANGED <<todo, job>>
    /\ UNCHANGED <<rows, study, evidence, busy, calls, tampers>>

ProvedStopped_Always == result[job] = "none"

ProvedStopped_AnyResult == transcript[job] = "closed"

\* "stopped and not result.exists()" in the handler.
ProvedStopped == transcript[job] = "closed" /\ result[job] = "none"

Handle ==
    /\ place = "handling"
    /\ IF ProvedStopped THEN Finish(job, number[job], "failed") ELSE MarkOrphaned({})
    /\ Leave
    /\ UNCHANGED <<study, evidence, busy, calls, bounds>>

\* completion and its resume_plan: changed results are quarantined.
Complete ==
    /\ place = "jobs" /\ todo = {}
    /\ Quarantine({j \in Jobs : ~ResultVerifies(j)})
    /\ Leave
    /\ UNCHANGED <<study, evidence, busy, calls, bounds>>

RunnerDies ==
    /\ place # "off" /\ faults < MaxFaults
    /\ faults' = faults + 1
    /\ Leave
    /\ UNCHANGED <<rows, study, evidence, busy, calls, tampers>>

-----------------------------------------------------------------------------
(***************************************************************************)
(* Around the runner                                                       *)
(***************************************************************************)

\* reconcile without a result: only an orphan that is known to have stopped
\* and has no complete envelope.
OperatorFails(j) ==
    /\ j \notin busy /\ ~ResultVerifies(j)
    /\ Reconcile(j, "failed")
    /\ UNCHANGED <<study, evidence, busy, run, calls, bounds>>

\* resume_plan, called for itself.
OperatorInspects(j) ==
    /\ state[j] = "succeeded" /\ ~ResultVerifies(j)
    /\ Quarantine({j})
    /\ UNCHANGED <<study, evidence, busy, run, calls, bounds>>

OperatorRetries(j) ==
    /\ RetryFailed(j)
    /\ UNCHANGED <<study, evidence, busy, run, calls, bounds>>

Tamper(j) ==
    /\ tampers < MaxTampers /\ result[j] = "valid"
    /\ tampers' = tampers + 1
    /\ result' = [result EXCEPT ![j] = "corrupt"]
    /\ UNCHANGED <<rows, study, transcript, busy, run, calls, faults>>

-----------------------------------------------------------------------------
RunnerStep ==
    \/ \E j \in Jobs : SkipSucceeded(j) \/ ReconcileOrphan(j) \/ Halt(j) \/ ClaimJob(j)
    \/ WriteInputs \/ StartRollout \/ Request \/ CloseRollout \/ WriteResult \/ Succeed
    \/ Raise \/ Handle \/ Complete

StudyNext ==
    \/ \E batch \in Batches : Create(batch) \/ Resume(batch)
    \/ RefuseStudy \/ RunnerStep \/ RunnerDies
    \/ \E j \in Jobs :
          EnvironmentAnswers(j) \/ OperatorInspects(j) \/ OperatorFails(j) \/ OperatorRetries(j) \/ Tamper(j)

StudySpec == StudyInit /\ [][StudyNext]_studyVars

\* The operator keeps scheduling every batch and settles what is left open; a
\* live runner and the environment go on; a rollout is a finite loop, so it
\* does not send requests for ever.
StudyFairSpec ==
    /\ StudySpec
    /\ \A batch \in Batches : SF_studyVars(Create(batch)) /\ SF_studyVars(Resume(batch))
    /\ WF_studyVars(RunnerStep) /\ SF_studyVars(CloseRollout)
    /\ \A j \in Jobs :
          /\ WF_studyVars(EnvironmentAnswers(j)) /\ WF_studyVars(OperatorInspects(j))
          /\ WF_studyVars(OperatorFails(j)) /\ WF_studyVars(OperatorRetries(j))

-----------------------------------------------------------------------------
(***************************************************************************)
(* Properties                                                              *)
(***************************************************************************)

\* "Failed/orphaned work is never auto-retried": every trajectory of a job
\* after the first was authorized by its own retry event.
AuthorizedCalls == \A j \in Jobs : calls[j] <= 1 + retries[j]

\* A job that can be claimed again, or is one step from it, has no action of
\* an earlier attempt still executing in an abandoned environment process.
StoppedBeforeRetry == \A j \in InState("pending") \cup InState("failed") : j \notin busy

\* A recorded success has a closed transcript and an envelope.
SuccessHasEvidence ==
    \A j \in InState("succeeded") : transcript[j] = "closed" /\ result[j] # "none"

\* A complete, unaltered result is never repeated, whatever happened between
\* its rename and the commit of the ledger.
CompletedWorkKept ==
    [][\A j \in Jobs : state[j] = "pending" /\ state'[j] = "running" => result[j] # "valid"]_studyVars

\* Once both files of the study exist, faults, tampering and a clock set back
\* never wedge it: the offered operations lead every job to a lasting success.
StudyRecovers == study = "ready" ~> [](InState("succeeded") = Jobs)

=============================================================================
