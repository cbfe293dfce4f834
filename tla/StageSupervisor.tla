-------------------------- MODULE StageSupervisor --------------------------
(***************************************************************************)
(* The stage pipeline: supervisors (src/scripts/run_stage_queue.py), the   *)
(* builder of the queue (build_stage_queue.py) and the last stage, which   *)
(* accepts the study (finalize_stage_queue.py).  They share two JSON files *)
(* that each of them reads as a whole and replaces as a whole.  A stage is *)
(* a child process that outlives its supervisor.                           *)
(***************************************************************************)
EXTENDS Naturals, Sequences

CONSTANTS
    Supervisors,
    Collections, MadeRest, Crystal, Closing,    \* the declared stages, in order
    BuildPlans,     \* the sequences of builds an operator may make
    MaxFailures, MaxCrashes,    \* bounds
    NoOne, NoQueue, NoStage

Made == Collections \o MadeRest
All == Made \o Crystal \o Closing
Ids == {All[i] : i \in 1..Len(All)}
IdsOf(list) == {list[i] : i \in 1..Len(list)}
Finalizer == Closing[Len(Closing)]

\* A build: version names the commands it declares.
Builds == [phase : {"made", "all"}, seal : BOOLEAN, version : Nat]

\* The declared ids are distinct, as the builder asserts.
ASSUME StagesAssumption ==
    /\ {Collections, MadeRest, Crystal, Closing} \subseteq Seq(Ids)
    /\ Len(Collections) > 0 /\ Len(Closing) > 0
    /\ \A i, k \in 1..Len(All) : All[i] = All[k] => i = k
    /\ BuildPlans \subseteq Seq(Builds)
    /\ MaxFailures \in Nat /\ MaxCrashes \in Nat

VARIABLES
    queue,      \* configs/stage_queue.json: runnable ids, the command of every
                \* declared id (0: undeclared), sealed, final_acceptance_verified
    status,     \* logs/pipeline_status.json: record and command of every id,
                \* active_stage, study_complete
    lock,       \* owner of logs/pipeline.lock
    pc, mem, seen,  \* of each supervisor: where it stands, its status, the queue it read
    launched,   \* every stage process ever started, in order; the finalizer's
                \* "read" is the queue it checked, its outcome "written" until it exits
    plan,       \* builds the operator has still to make
    draft,      \* the queue the running builder is about to write
    failures, crashes

sup == <<lock, pc, mem, seen>>
vars == <<queue, status, sup, launched, plan, draft, failures, crashes>>

States == {"none", "started", "succeeded", "failed"}

TypeOK ==
    /\ queue.runnable \in Seq(Ids) /\ queue.command \in [Ids -> Nat]
    /\ queue.sealed \in BOOLEAN /\ queue.accepted \in BOOLEAN
    /\ \A st \in {status} \cup {mem[s] : s \in Supervisors} :
          /\ st.record \in [Ids -> States] /\ st.command \in [Ids -> Nat]
          /\ st.active \in Ids \cup {NoStage} /\ st.complete \in BOOLEAN
    /\ lock \in Supervisors \cup {NoOne}
    /\ pc \in [Supervisors -> {"off", "loaded", "loop", "decide", "start", "run"}]
    /\ \A i \in 1..Len(launched) :
          launched[i].id \in Ids /\ launched[i].outcome \in {"running", "written", "succeeded", "failed"}

NewStatus ==
    [record |-> [id \in Ids |-> "none"], command |-> [id \in Ids |-> 0],
     active |-> NoStage, complete |-> FALSE]

\* The collections are declared, and nothing else has been built.
Init ==
    /\ queue = [runnable |-> Collections, sealed |-> FALSE, accepted |-> FALSE,
                command |-> [id \in Ids |-> IF id \in IdsOf(Collections) THEN 1 ELSE 0]]
    /\ status = NewStatus
    /\ lock = NoOne
    /\ pc = [s \in Supervisors |-> "off"]
    /\ mem = [s \in Supervisors |-> NewStatus]
    /\ seen = [s \in Supervisors |-> NoQueue]
    /\ launched = <<>>
    /\ plan \in BuildPlans
    /\ draft = NoQueue
    /\ failures = 0 /\ crashes = 0

-----------------------------------------------------------------------------
(***************************************************************************)
(* The supervisor                                                          *)
(***************************************************************************)
Goto(s, where) == pc' = [pc EXCEPT ![s] = where]

\* The process ends and with it its lock and its memory.
Exit(s) ==
    /\ Goto(s, "off")
    /\ lock' = IF lock = s THEN NoOne ELSE lock
    /\ mem' = [mem EXCEPT ![s] = NewStatus]
    /\ seen' = [seen EXCEPT ![s] = NoQueue]

\* The status is read before the lock is asked for.
Load(s) ==
    /\ pc[s] = "off"
    /\ Goto(s, "loaded")
    /\ mem' = [mem EXCEPT ![s] = status]
    /\ UNCHANGED <<queue, status, lock, seen, launched, plan, draft, failures, crashes>>

\* LOCK_NB: the loser raises.
Lock(s) ==
    /\ pc[s] = "loaded"
    /\ IF lock = NoOne
         THEN /\ lock' = s /\ Goto(s, "loop")
              /\ mem' = [mem EXCEPT ![s].complete = FALSE]
              /\ UNCHANGED seen
         ELSE Exit(s)
    /\ UNCHANGED <<queue, status, launched, plan, draft, failures, crashes>>

ReadQueue(s) ==
    /\ pc[s] = "loop"
    /\ Goto(s, "decide")
    /\ seen' = [seen EXCEPT ![s] = queue]
    /\ UNCHANGED <<queue, status, lock, mem, launched, plan, draft, failures, crashes>>

\* The stages of the queue up to the first one without a record.
NextIndex(s) ==
    LET open == {i \in 1..Len(seen[s].runnable) : mem[s].record[seen[s].runnable[i]] = "none"}
    IN  IF open = {} THEN Len(seen[s].runnable) + 1
        ELSE CHOOSE i \in open : \A k \in open : i <= k

Settled_AnyRecord(s) ==
    \A i \in 1..(NextIndex(s) - 1) :
        LET id == seen[s].runnable[i]
        IN  mem[s].command[id] = seen[s].command[id]

\* Every stage before the next one kept its command and succeeded.
Settled(s) ==
    \A i \in 1..(NextIndex(s) - 1) :
        LET id == seen[s].runnable[i]
        IN  mem[s].command[id] = seen[s].command[id] /\ mem[s].record[id] = "succeeded"

Finished(s) == NextIndex(s) > Len(seen[s].runnable)

\* requires_sealed is set on every stage but the collections.
MustWait(s) ==
    /\ ~Finished(s) /\ ~seen[s].sealed
    /\ seen[s].runnable[NextIndex(s)] \notin IdsOf(Collections)

Decides(s) == pc[s] = "decide" /\ Settled(s)

\* "... requires reconciliation; it will not be replayed".
Refuse(s) ==
    /\ pc[s] = "decide" /\ ~Settled(s)
    /\ Exit(s)
    /\ UNCHANGED <<queue, status, launched, plan, draft, failures, crashes>>

\* The status is written, and an unsealed queue is read again later.
Wait(s) ==
    /\ Decides(s) /\ ~seen[s].sealed
    /\ Finished(s) \/ MustWait(s)
    /\ status' = mem[s]
    /\ Goto(s, "loop") /\ seen' = [seen EXCEPT ![s] = NoQueue]
    /\ UNCHANGED <<queue, lock, mem, launched, plan, draft, failures, crashes>>

FinishQueue_Sealed(s) ==
    /\ Decides(s) /\ Finished(s) /\ seen[s].sealed
    /\ status' = [mem[s] EXCEPT !.complete = TRUE]
    /\ Exit(s)
    /\ UNCHANGED <<queue, launched, plan, draft, failures, crashes>>

FinishQueue(s) ==
    /\ Decides(s) /\ Finished(s) /\ seen[s].sealed
    /\ status' = [mem[s] EXCEPT !.complete = seen[s].accepted]
    /\ Exit(s)
    /\ UNCHANGED <<queue, launched, plan, draft, failures, crashes>>

Started(st, id, command) ==
    [st EXCEPT !.record[id] = "started", !.command[id] = command, !.active = id]

ChooseStage(s) ==
    /\ Decides(s) /\ ~Finished(s) /\ ~MustWait(s)
    /\ LET id == seen[s].runnable[NextIndex(s)]
       IN  mem' = [mem EXCEPT ![s] = Started(@, id, seen[s].command[id])]
    /\ Goto(s, "start")
    /\ UNCHANGED <<queue, lock, seen, launched, plan, draft, failures, crashes>>

RecordStart_Later(s) == ChooseStage(s) /\ UNCHANGED status

\* The record is on disk before the process exists.
RecordStart(s) == ChooseStage(s) /\ status' = mem'[s]

Launch(s) ==
    /\ pc[s] = "start"
    /\ launched' = Append(launched,
          [id |-> mem[s].active, version |-> mem[s].command[mem[s].active],
           outcome |-> "running", by |-> s, read |-> NoQueue])
    /\ Goto(s, "run")
    /\ UNCHANGED <<queue, status, lock, mem, seen, plan, draft, failures, crashes>>

\* The child of s is the last process it launched.
Child(s) ==
    LET mine == {i \in 1..Len(launched) : launched[i].by = s}
    IN  CHOOSE i \in mine : \A k \in mine : k <= i

Running(i) == launched[i].outcome \in {"running", "written"}

\* poll() returns: the outcome is recorded; a failure ends the supervisor.
Reap(s) ==
    /\ pc[s] = "run" /\ ~Running(Child(s))
    /\ LET outcome == launched[Child(s)].outcome
           updated == [mem[s] EXCEPT !.record[mem[s].active] = outcome]
       IN  /\ status' = updated
           /\ IF outcome = "succeeded"
                THEN /\ Goto(s, "loop")
                     /\ mem' = [mem EXCEPT ![s] = updated]
                     /\ seen' = [seen EXCEPT ![s] = NoQueue]
                     /\ UNCHANGED lock
                ELSE Exit(s)
    /\ UNCHANGED <<queue, launched, plan, draft, failures, crashes>>

Crash(s) ==
    /\ pc[s] # "off" /\ crashes < MaxCrashes
    /\ crashes' = crashes + 1
    /\ Exit(s)
    /\ UNCHANGED <<queue, status, launched, plan, draft, failures>>

-----------------------------------------------------------------------------
(***************************************************************************)
(* The stage processes                                                     *)
(***************************************************************************)
End(i, outcome) == launched' = [launched EXCEPT ![i].outcome = outcome]

StageSucceeds(i) ==
    /\ Running(i) /\ (launched[i].id = Finalizer => launched[i].outcome = "written")
    /\ End(i, "succeeded")
    /\ UNCHANGED <<queue, status, sup, plan, draft, failures, crashes>>

StageFails(i) ==
    /\ Running(i) /\ failures < MaxFailures
    /\ failures' = failures + 1
    /\ End(i, "failed")
    /\ UNCHANGED <<queue, status, sup, plan, draft, crashes>>

\* The finalizer is the last, active stage of a sealed queue whose other stages
\* all succeeded.
Acceptable ==
    /\ queue.runnable[Len(queue.runnable)] = Finalizer /\ status.active = Finalizer
    /\ queue.sealed
    /\ \A i \in 1..(Len(queue.runnable) - 1) : status.record[queue.runnable[i]] = "succeeded"

FinalizerReads(i) ==
    /\ launched[i].outcome = "running" /\ launched[i].id = Finalizer /\ launched[i].read = NoQueue
    /\ launched' = [launched EXCEPT ![i] =
          IF Acceptable THEN [@ EXCEPT !.read = queue] ELSE [@ EXCEPT !.outcome = "failed"]]
    /\ UNCHANGED <<queue, status, sup, plan, draft, failures, crashes>>

\* Its queue, accepted, replaces whatever the file holds now.
FinalizerWrites(i) ==
    /\ launched[i].outcome = "running" /\ launched[i].read # NoQueue
    /\ queue' = [launched[i].read EXCEPT !.accepted = TRUE]
    /\ End(i, "written")
    /\ UNCHANGED <<status, sup, plan, draft, failures, crashes>>

-----------------------------------------------------------------------------
(***************************************************************************)
(* The builder                                                             *)
(***************************************************************************)
Built(build) ==
    LET active == IF build.phase = "made" THEN Made ELSE All
    IN  [runnable |-> IF build.seal THEN active ELSE Collections,
         command |-> [id \in Ids |->
                        IF id \in IdsOf(Collections) THEN queue.command[id] ELSE build.version],
         sealed |-> build.seal, accepted |-> FALSE]

MayBuild_NothingStarted(build) == \A id \in Ids : status.record[id] = "none"

\* What the builder checks about the stages with a record.
MayBuild(build) ==
    LET started == {id \in Ids : status.record[id] # "none"}
    IN  /\ \A id \in started : queue.command[id] = Built(build).command[id]
        /\ build.phase = "made" => started \cap IdsOf(Crystal \o Closing) = {}
        /\ started \subseteq IdsOf(Built(build).runnable)

BuilderReads ==
    /\ plan # <<>> /\ draft = NoQueue
    /\ IF MayBuild(Head(plan))
         THEN draft' = Built(Head(plan)) /\ UNCHANGED plan
         ELSE plan' = Tail(plan) /\ UNCHANGED draft
    /\ UNCHANGED <<queue, status, sup, launched, failures, crashes>>

BuilderWrites ==
    /\ draft # NoQueue
    /\ queue' = draft
    /\ draft' = NoQueue /\ plan' = Tail(plan)
    /\ UNCHANGED <<status, sup, launched, failures, crashes>>

-----------------------------------------------------------------------------
Supervise(s) ==
    \/ Load(s) \/ Lock(s) \/ ReadQueue(s) \/ Refuse(s) \/ Wait(s) \/ FinishQueue(s)
    \/ RecordStart(s) \/ Launch(s) \/ Reap(s)

Execute(i) == StageSucceeds(i) \/ FinalizerReads(i) \/ FinalizerWrites(i)

Next ==
    \/ \E s \in Supervisors : Supervise(s) \/ Crash(s)
    \/ \E i \in 1..Len(launched) : Execute(i) \/ StageFails(i)
    \/ BuilderReads \/ BuilderWrites

Spec == Init /\ [][Next]_vars

\* Every stage ends, the operator makes the builds of the plan and starts a
\* supervisor again whenever it is off.
FairSpec ==
    /\ Spec
    /\ \A s \in Supervisors : WF_vars(Supervise(s))
    /\ WF_vars(\E i \in 1..Len(launched) : Execute(i))
    /\ WF_vars(BuilderReads) /\ WF_vars(BuilderWrites)

-----------------------------------------------------------------------------
(***************************************************************************)
(* Properties                                                              *)
(***************************************************************************)
Succeeded(id) == \E i \in 1..Len(launched) : launched[i].id = id /\ launched[i].outcome = "succeeded"

\* "Scientific failures halt": when a stage is launched every process before
\* it has succeeded, however the queue was rebuilt in between.
FailuresHalt ==
    \A i \in 1..(Len(launched) - 1) : launched[i].outcome = "succeeded"

\* A restarted supervisor finds a record of whatever was launched, so it does
\* not launch it again; a recorded success is one, of the recorded command.
RecordsAreTrue == TypeOK /\
    \A id \in Ids :
        /\ status.record[id] = "none" => \A i \in 1..Len(launched) : launched[i].id # id
        /\ status.record[id] = "succeeded" =>
              \E i \in 1..Len(launched) :
                  /\ launched[i].id = id /\ launched[i].outcome = "succeeded"
                  /\ launched[i].version = status.command[id]

\* The status calls the study complete only when every declared stage of both
\* benchmarks has succeeded, whatever was built or finalized in between.
CompletionIsSound == status.complete => \A id \in Ids : Succeeded(id)

\* "Never auto-replay": no stage is launched twice.
NeverReplayed ==
    \A i, k \in 1..Len(launched) : launched[i].id = launched[k].id => i = k

\* A course of builds whose commands never change and whose last build is the
\* first to seal both benchmarks.
Declared(builds) ==
    \A i \in 1..Len(builds) :
        /\ builds[i].version = 1
        /\ builds[i].phase = "all" /\ builds[i].seal <=> i = Len(builds)

\* On a declared course the study ends complete, unless a failure or an
\* interruption is on record for the operator to reconcile.
StudyCompletes ==
    Declared(plan) =>
        <>[](status.complete \/ \E id \in Ids : status.record[id] \in {"started", "failed"})

=============================================================================
