----------------------------- MODULE ESTraining -----------------------------
(***************************************************************************)
(* One ES training condition: ESTrainingDriver of es_training.py with the  *)
(* callbacks of training_jobs.py, the checkpoints of esopt.py and the      *)
(* retirement of checkpoint_retention.py, as train_es_condition.py runs    *)
(* them.  A session serves the requests of a generation in order, updates  *)
(* the weights, measures the development cases and commits the generation  *)
(* in several files, the marker last; it may die between any two steps,    *)
(* and the next session resumes from the last marker.                      *)
(*                                                                         *)
(* Weights stand for the updates that made them: a sequence of the fitness *)
(* of each generation and the arithmetic that applied it, for a replay on  *)
(* other hardware may round differently.  A stamp is the model hash of a   *)
(* request: the weights and, for a candidate, the arithmetic that          *)
(* perturbed them.  One evaluation per candidate (cases_per_generation 1). *)
(***************************************************************************)
EXTENDS Integers, Sequences

CONSTANTS
    Generations, Population, DevCases, DevEvery,
    Fitness,        \* the values an evaluation may measure
    Arithmetics,    \* the ways the hardware of a session may round
    MaxFaults,      \* bound: deaths and exceptions of a behaviour
    NoFile,         \* a file that does not exist
    Partial         \* a rollout directory without completion_receipt.json

Updates == [fitness : [1 .. Population -> Fitness], by : Arithmetics]
Measurements(n) == {m \in Seq(Fitness) : Len(m) <= n}
Outcomes == [fitness : [1 .. Population -> Fitness], dev : Measurements(DevCases)]

\* The contents of driver_state.json, complete.json, training_summary.json and
\* checkpoint_retirement.json.
States == [done : Seq(Outcomes), best : [generation : 0 .. Generations, score : Int]]
Markers == [policy : Seq(Updates), driver : States]
Summaries == [best : 0 .. Generations, final : Seq(Updates)]
Receipts == [best : 0 .. Generations, retired : SUBSET (0 .. Generations)]

ASSUME TrainingAssumption ==
    /\ Generations \in Nat \ {0} /\ Population \in Nat \ {0, 1}
    /\ DevCases \in Nat \ {0} /\ DevEvery \in Nat \ {0}
    /\ Fitness \subseteq Int /\ MaxFaults \in Nat
    /\ NoFile # Partial /\ NoFile \notin Fitness /\ Partial \notin Fitness
    /\ NoFile \notin Seq(Updates) \cup Markers \cup Summaries \cup Receipts

VARIABLES
    \* The output directory.
    manifest,    \* run_manifest.json exists
    record,      \* record[r]: jobs/<r>.json, its status and its stamp
    rollout,     \* rollout[r]: NoFile, Partial, or the value of its receipt
    policy,      \* policy[g]: the weights in policy.pt of generation g
    driver,      \* driver[g]: the generations and the best in driver_state.json
    marker,      \* marker[g]: the contents complete.json holds the hashes of
    summary,     \* training_summary.json: its best generation, its final weights
    receipt,     \* checkpoint_retirement.json: its best and retired generations
    \* The session.
    pc,          \* where it stands, "down" when there is none
    arithmetic,  \* how its hardware rounds
    weights,     \* the unperturbed weights of the policy
    values,      \* metric values of this generation so far, train then dev
    done,        \* _completed: the records of the generations finished
    best,        \* _best_generation and _best_metric
    \* History.
    calls,       \* calls[r]: rollouts started for r
    faults       \* deaths and exceptions so far

requestVars == <<record, rollout, calls>>
checkpointVars == <<policy, driver, marker>>
memory == <<arithmetic, weights, values, done, best>>
vars == <<manifest, requestVars, checkpointVars, summary, receipt, pc, memory, faults>>

---------------------------------------------------------------------------
(* The plan. *)

RunDev(g) == g % DevEvery = 0 \/ g = Generations

Slots(g) == Population + (IF RunDev(g) THEN DevCases ELSE 0)

Requests == {r \in (1 .. Generations) \X (1 .. Population + DevCases) : r[2] <= Slots(r[1])}

Gen == Len(done) + 1

\* The request the session serves next: dev requests come after the update.
Due == <<Gen, Len(values) + 1>>

IsDue ==
    /\ pc = "serving" /\ Gen <= Generations
    /\ Len(values) < (IF Len(weights) = Gen THEN Slots(Gen) ELSE Population)

Stamp == IF Len(values) < Population THEN <<weights, arithmetic>> ELSE <<weights>>

\* The mean over the development cases, of which there are always as many.
Score(dev) ==
    LET sum[n \in 0 .. Len(dev)] == IF n = 0 THEN 0 ELSE sum[n - 1] + dev[n]
    IN  sum[Len(dev)]

NoBest == [generation |-> 0, score |-> 0]

\* The first generation whose development score no other exceeds.
Selected(records) ==
    LET Scored == {g \in 1 .. Len(records) : RunDev(g)}
        First(g) == \A h \in Scored \ {g} :
            IF h < g THEN Score(records[h].dev) < Score(records[g].dev)
                     ELSE Score(records[h].dev) <= Score(records[g].dev)
    IN  IF Scored = {} THEN NoBest
        ELSE LET g == CHOOSE g \in Scored : First(g)
             IN  [generation |-> g, score |-> Score(records[g].dev)]

---------------------------------------------------------------------------
(* What the files say. *)

Committed == {g \in 0 .. Generations : marker[g] # NoFile}

Latest == CHOOSE g \in Committed : \A h \in Committed : h <= g

Retained_FinalOnly(generation) == {Generations}
Retained(generation) == {generation, Generations}

\* verify_retired_checkpoint: a missing policy.pt is excused.
IsRetired(g) ==
    /\ summary # NoFile /\ receipt # NoFile
    /\ receipt.best = summary.best
    /\ g \in receipt.retired /\ g \notin Retained(receipt.best)

FilesMatch(g) ==
    /\ driver[g] = marker[g].driver
    /\ policy[g] = marker[g].policy \/ (policy[g] = NoFile /\ IsRetired(g))

\* _load_committed accepts the checkpoints.
Loadable ==
    /\ Committed = 0 .. Latest
    /\ \A g \in Committed : FilesMatch(g)
    /\ policy[Latest] # NoFile /\ Len(policy[Latest]) = Latest
    /\ LET state == driver[Latest]
       IN  /\ Len(state.done) = Latest
           /\ \A k \in 1 .. Latest :
                /\ state.done[k].fitness = policy[Latest][k].fitness
                /\ Len(state.done[k].dev) = Slots(k) - Population
           /\ state.best = Selected(state.done)

\* _validated_completion
ValidCompletion ==
    /\ summary # NoFile
    /\ Committed = 0 .. Generations
    /\ policy[Generations] = summary.final
    /\ \A g \in Committed : driver[g] = marker[g].driver
    /\ \A g \in Retained(summary.best) : policy[g] = marker[g].policy

---------------------------------------------------------------------------
Init ==
    /\ manifest = FALSE
    /\ record = [r \in Requests |-> [status |-> "none", stamp |-> <<>>]]
    /\ rollout = [r \in Requests |-> NoFile]
    /\ policy = [g \in 0 .. Generations |-> NoFile]
    /\ driver = policy /\ marker = policy
    /\ summary = NoFile /\ receipt = NoFile
    /\ pc = "down" /\ arithmetic = NoFile
    /\ weights = <<>> /\ values = <<>> /\ done = <<>> /\ best = NoBest
    /\ calls = [r \in Requests |-> 0]
    /\ faults = 0

\* The session is over, and what it had in memory is gone.
Leave ==
    /\ pc' = "down" /\ arithmetic' = NoFile
    /\ weights' = <<>> /\ values' = <<>> /\ done' = <<>> /\ best' = NoBest

(* A session starts. *)

\* run() on an empty directory: the manifest, then the commit of generation 0.
Begin ==
    /\ pc = "down" /\ ~manifest
    /\ manifest' = TRUE
    /\ arithmetic' \in Arithmetics
    /\ weights' = <<>> /\ values' = <<>> /\ done' = <<>> /\ best' = NoBest
    /\ pc' = "policy"
    /\ UNCHANGED <<requestVars, checkpointVars, summary, receipt, faults>>

\* run(resume=True)
Resume ==
    /\ pc = "down" /\ manifest
    /\ Committed # {} /\ Loadable
    /\ arithmetic' \in Arithmetics
    /\ weights' = policy[Latest] /\ values' = <<>>
    /\ done' = driver[Latest].done /\ best' = driver[Latest].best
    /\ pc' = "serving"
    /\ UNCHANGED <<manifest, requestVars, checkpointVars, summary, receipt, faults>>

\* Without a marker, or with files that do not match, both ways of starting
\* raise and leave everything as it is.
Refuse ==
    /\ pc = "down" /\ manifest
    /\ Committed # {} => ~Loadable
    /\ UNCHANGED vars

---------------------------------------------------------------------------
(* _evaluate_request *)

\* semantic_identity: the stored request was for the same weights.
SameWeights_Any(r) == TRUE
SameWeights(r) == record[r].stamp = Stamp

\* recover_result finds the completion receipt of an unknown outcome.
Recoverable_StartedOnly(r) == record[r].status = "started" /\ rollout[r] \in Fitness
Recoverable(r) == record[r].status \in {"started", "unknown"} /\ rollout[r] \in Fitness

SetStatus(r, status) == record' = [record EXCEPT ![r].status = status]

Take(r) == values' = Append(values, rollout[r]) /\ pc' = "serving"

\* A result on record is verified again and reused.
Reuse ==
    /\ IsDue /\ SameWeights(Due)
    /\ record[Due].status = "complete"
    /\ Take(Due)
    /\ UNCHANGED <<manifest, requestVars, checkpointVars, summary, receipt,
                   arithmetic, weights, done, best, faults>>

Recover ==
    /\ IsDue /\ SameWeights(Due)
    /\ Recoverable(Due)
    /\ SetStatus(Due, "complete") /\ Take(Due)
    /\ UNCHANGED <<manifest, rollout, calls, checkpointVars, summary, receipt,
                   arithmetic, weights, done, best, faults>>

\* Other weights, or an unknown outcome nothing recovers: halt, no retry.
HaltRequest ==
    /\ IsDue /\ record[Due].status # "none"
    /\ ~SameWeights(Due) \/ (record[Due].status # "complete" /\ ~Recoverable(Due))
    /\ Leave
    /\ UNCHANGED <<manifest, requestVars, checkpointVars, summary, receipt, faults>>

StartRequest_Again ==
    /\ IsDue /\ record[Due].status # "unknown"
    /\ record' = [record EXCEPT ![Due] = [status |-> "started", stamp |-> Stamp]]
    /\ pc' = "started"
    /\ UNCHANGED <<manifest, rollout, calls, checkpointVars, summary, receipt, memory, faults>>

\* The record is durable before the job exists.
StartRequest ==
    /\ IsDue /\ record[Due].status = "none"
    /\ record' = [record EXCEPT ![Due] = [status |-> "started", stamp |-> Stamp]]
    /\ pc' = "started"
    /\ UNCHANGED <<manifest, rollout, calls, checkpointVars, summary, receipt, memory, faults>>

\* TrainingJobCallbacks.evaluate; an existing directory raises (Raise).
Execute ==
    /\ pc = "started" /\ rollout[Due] = NoFile
    /\ rollout' = [rollout EXCEPT ![Due] = Partial]
    /\ calls' = [calls EXCEPT ![Due] = @ + 1]
    /\ pc' = "rolling"
    /\ UNCHANGED <<manifest, record, checkpointVars, summary, receipt, memory, faults>>

FinishRollout ==
    /\ pc = "rolling"
    /\ \E v \in Fitness : rollout' = [rollout EXCEPT ![Due] = v]
    /\ pc' = "evaluated"
    /\ UNCHANGED <<manifest, record, calls, checkpointVars, summary, receipt, memory, faults>>

\* _complete_result of an executed request.
Complete ==
    /\ pc = "evaluated"
    /\ SetStatus(Due, "complete") /\ Take(Due)
    /\ UNCHANGED <<manifest, rollout, calls, checkpointVars, summary, receipt,
                   arithmetic, weights, done, best, faults>>

\* The job, the rollout or the verification raises.
Raise ==
    /\ pc \in {"started", "rolling", "evaluated"} /\ faults < MaxFaults
    /\ SetStatus(Due, "unknown") /\ Leave
    /\ faults' = faults + 1
    /\ UNCHANGED <<manifest, rollout, calls, checkpointVars, summary, receipt>>

\* reconcile_result, between two sessions.
Reconcile(r) ==
    /\ pc = "down" /\ manifest
    /\ record[r].status \in {"started", "unknown"} /\ rollout[r] \in Fitness
    /\ SetStatus(r, "complete")
    /\ UNCHANGED <<manifest, rollout, calls, checkpointVars, summary, receipt, pc, memory, faults>>

---------------------------------------------------------------------------
(* The rest of _train_generation, and _commit. *)

NewWeights == Append(weights, [fitness |-> SubSeq(values, 1, Population), by |-> arithmetic])

Update ==
    /\ pc = "serving" /\ Len(values) = Population /\ Len(weights) < Gen
    /\ weights' = NewWeights
    /\ UNCHANGED <<manifest, requestVars, checkpointVars, summary, receipt,
                   pc, arithmetic, values, done, best, faults>>

FinishGeneration ==
    LET dev == SubSeq(values, Population + 1, Len(values))
    IN  /\ pc = "serving" /\ Len(weights) = Gen /\ Len(values) = Slots(Gen)
        /\ best' = IF RunDev(Gen) /\ (best = NoBest \/ Score(dev) > best.score)
                   THEN [generation |-> Gen, score |-> Score(dev)] ELSE best
        /\ done' = Append(done, [fitness |-> SubSeq(values, 1, Population), dev |-> dev])
        /\ values' = <<>>
        /\ pc' = "policy"
        /\ UNCHANGED <<manifest, requestVars, checkpointVars, summary, receipt,
                       arithmetic, weights, faults>>

State == [done |-> done, best |-> best]

CommitPolicy_MarkerFirst ==
    /\ pc = "policy" /\ marker[Len(done)] = NoFile
    /\ policy' = [policy EXCEPT ![Len(done)] = weights]
    /\ marker' = [marker EXCEPT ![Len(done)] = [policy |-> weights, driver |-> State]]
    /\ pc' = "driver"
    /\ UNCHANGED <<manifest, requestVars, driver, summary, receipt, memory, faults>>

\* policy.pt, its description and es_history.json.
CommitPolicy ==
    /\ pc = "policy" /\ marker[Len(done)] = NoFile
    /\ policy' = [policy EXCEPT ![Len(done)] = weights]
    /\ pc' = "driver"
    /\ UNCHANGED <<manifest, requestVars, driver, marker, summary, receipt, memory, faults>>

CommitDriver ==
    /\ pc = "driver"
    /\ driver' = [driver EXCEPT ![Len(done)] = State]
    /\ pc' = "marker"
    /\ UNCHANGED <<manifest, requestVars, policy, marker, summary, receipt, memory, faults>>

CommitMarker ==
    /\ pc = "marker"
    /\ marker' = [marker EXCEPT ![Len(done)] =
                    [policy |-> policy[Len(done)], driver |-> driver[Len(done)]]]
    /\ pc' = "serving"
    /\ UNCHANGED <<manifest, requestVars, policy, driver, summary, receipt, memory, faults>>

\* The clean reload of the final policy.pt, _summary, and the summary file.
Finish ==
    /\ pc = "serving" /\ Len(done) = Generations /\ best # NoBest
    /\ policy[Generations] = weights
    /\ \A r \in Requests : record[r].status = "complete"
    /\ summary' = [best |-> best.generation, final |-> weights]
    /\ pc' = "finished"
    /\ UNCHANGED <<manifest, requestVars, checkpointVars, receipt, memory, faults>>

---------------------------------------------------------------------------
(* retire_completed_es_checkpoints *)

Retire ==
    LET removable == (0 .. Generations) \ Retained(summary.best)
    IN  /\ pc = "finished" /\ ValidCompletion
        /\ \/ /\ receipt = NoFile
              /\ \A g \in removable : policy[g] = marker[g].policy
              /\ receipt' = [best |-> summary.best, retired |-> removable]
           \/ /\ receipt # NoFile
              /\ \A g \in removable : IsRetired(g)
              /\ UNCHANGED receipt
        /\ pc' = "retiring"
        /\ UNCHANGED <<manifest, requestVars, checkpointVars, summary, memory, faults>>

Redundant == {g \in receipt.retired : policy[g] # NoFile}

Unlink ==
    /\ pc = "retiring"
    /\ \E g \in Redundant :
        /\ \A h \in Redundant : g <= h
        /\ policy' = [policy EXCEPT ![g] = NoFile]
    /\ UNCHANGED <<manifest, requestVars, driver, marker, summary, receipt, pc, memory, faults>>

FinishRetirement ==
    /\ pc = "retiring" /\ Redundant = {}
    /\ Leave
    /\ UNCHANGED <<manifest, requestVars, checkpointVars, summary, receipt, faults>>

\* The session dies, or raises outside an evaluation.
Crash ==
    /\ pc # "down" /\ faults < MaxFaults
    /\ Leave
    /\ faults' = faults + 1
    /\ UNCHANGED <<manifest, requestVars, checkpointVars, summary, receipt>>

Evaluating == Reuse \/ Recover \/ HaltRequest \/ StartRequest \/ Execute \/ FinishRollout \/ Complete

Committing == Update \/ FinishGeneration \/ CommitPolicy \/ CommitDriver \/ CommitMarker

Retiring == Retire \/ Unlink \/ FinishRetirement

Session == Evaluating \/ Committing \/ Finish \/ Retiring

Next ==
    \/ Begin \/ Resume \/ Refuse \/ Session
    \/ Raise \/ Crash
    \/ \E r \in Requests : Reconcile(r)

Spec == Init /\ [][Next]_vars

\* A session goes on until it leaves, and the operator resumes a condition
\* whose session has left.  Nobody reconciles.
FairSpec == Spec /\ WF_vars(Session) /\ WF_vars(Resume)

---------------------------------------------------------------------------
(* Properties. *)

History(n) == {h \in Seq(Updates) : Len(h) = n}

StateOK(state, n) ==
    state \in States /\ Len(state.done) = n /\ state.best.generation <= n

\* Types.  Generation n is made by exactly n updates, in the files and in
\* memory (len(history) against the generation in _load_committed).
TypeOK ==
    /\ manifest \in BOOLEAN
    /\ \A r \in Requests :
        /\ record[r].status \in {"none", "started", "unknown", "complete"}
        /\ rollout[r] \in Fitness \cup {NoFile, Partial}
        /\ calls[r] \in Nat
    /\ \A g \in 0 .. Generations :
        /\ policy[g] = NoFile \/ policy[g] \in History(g)
        /\ driver[g] = NoFile \/ StateOK(driver[g], g)
        /\ marker[g] = NoFile \/ (marker[g].policy \in History(g) /\ StateOK(marker[g].driver, g))
    /\ pc \in {"down", "serving", "started", "rolling", "evaluated", "policy",
               "driver", "marker", "finished", "retiring"}
    /\ Len(done) <= Generations /\ StateOK(State, Len(done))
    /\ weights \in History(Len(done)) \/ weights \in History(Gen)
    /\ values \in Measurements(Population + DevCases)
    /\ faults \in 0 .. MaxFaults

\* Wherever a session died, the next one resumes: once a generation is
\* committed the directory never gets into a state that _load_committed
\* refuses, during commits and retirements too.
ResumeAccepted == TypeOK /\ (Committed # {} => Loadable)

\* Every number in a committed history was measured: by a complete record,
\* on exactly the weights the history says were perturbed or updated, and the
\* development values on the weights of their own generation.
HistoryIsMeasured ==
    \A g \in Committed : \A k \in 1 .. g :
        LET history == marker[g].policy
            before == SubSeq(history, 1, k - 1)
            dev == marker[g].driver.done[k].dev
            Measured(i, value, stamp) ==
                /\ record[<<k, i>>] = [status |-> "complete", stamp |-> stamp]
                /\ rollout[<<k, i>>] = value
        IN  /\ \A i \in 1 .. Population :
                Measured(i, history[k].fitness[i], <<before, history[k].by>>)
            /\ \A i \in 1 .. Len(dev) :
                Measured(Population + i, dev[i], <<SubSeq(history, 1, k)>>)

\* The selected checkpoint is the best by the receipts of the rollouts, and
\* it and the final one stay on disk whatever is retired.
SelectionStays ==
    LET Dev(g) == Score([i \in 1 .. DevCases |-> rollout[<<g, Population + i>>]])
    IN  summary # NoFile =>
            /\ RunDev(summary.best)
            /\ \A g \in 1 .. Generations : RunDev(g) => Dev(g) <= Dev(summary.best)
            /\ \A g \in {summary.best, Generations} : policy[g] = marker[g].policy

Phase(r) ==
    CASE record[r].status = "none" -> "open"
      [] record[r].status = "complete" -> "accepted"
      [] OTHER -> IF rollout[r] = NoFile THEN "reserved"
                  ELSE IF rollout[r] = Partial THEN "spent" ELSE "evidenced"

Promise == INSTANCE JobAcceptance WITH
    Jobs <- Requests,
    phase <- [r \in Requests |-> Phase(r)],
    published <- summary # NoFile

\* Training implements JobAcceptance: no request is evaluated twice, no
\* result is taken back, and the summary waits for every request.
KeepsPromise == Promise!Spec

\* A request no session can get past: its outcome is unknown and has no
\* receipt, or it was made for weights this session does not reproduce.
Blocked(r) ==
    \/ /\ record[r].status \in {"started", "unknown"}
       /\ rollout[r] \notin Fitness
       /\ pc \notin {"started", "rolling"}
    \/ IsDue /\ r = Due /\ record[r].status # "none" /\ record[r].stamp # Stamp

Retirement == receipt # NoFile /\ Redundant = {}

\* Once generation 0 is committed, a training that is resumed after each
\* fault is completed and retired, unless a request blocks it.
TrainingCompletes ==
    0 \in Committed ~> ((summary # NoFile /\ Retirement) \/ \E r \in Requests : Blocked(r))

=============================================================================
