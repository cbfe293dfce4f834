------------------------------ MODULE Episode ------------------------------
(***************************************************************************)
(* One rollout: DiscoveryRollout of rollouts.py drives an adapter that     *)
(* runs in the environment process of env_server.py over the audited       *)
(* client of rpc.py; _rpc_pairs and reconstruct_scientific_evidence of     *)
(* training_jobs.py read the transcript; pause_bf16_collection.py may stop *)
(* the rollout at a boundary of it.                                        *)
(*                                                                         *)
(* The two processes fail on their own: the environment may die, hang or   *)
(* answer after the client gave up, the client may raise or be killed.     *)
(* What the policy proposes is a choice.  Decision rows, features and      *)
(* costs other than the physical attempts are left out.                    *)
(***************************************************************************)
EXTENDS MadeAdapter, CrystalAdapter, Sequences, FiniteSets, FiniteSetsExt

CONSTANTS
    MaxTools,    \* max_tools_per_query
    MaxRecovery, \* further actions before the recovery gives up (10 in run)
    MaxSkips,    \* bound: steps that raise before the oracle is invoked
    MaxPauses    \* bound: attempts of the script to stop the rollout

ASSUME EpisodeAssumption == MaxTools \in Nat \ {0} /\ {MaxRecovery, MaxSkips, MaxPauses} \subseteq Nat

VARIABLES
    benchmark,  \* the benchmark of the job
    adapter,    \* the adapter in the environment process
    env,        \* the environment process: "up", "closed" or "dead"
    channel,    \* the request in progress and its answer
    transcript, \* rpc.jsonl
    pc,         \* where the rollout stands
    tools,      \* tools_since_query
    seen,       \* the last observation
    curve,      \* the attempts and discoveries after every step
    calls,      \* physical evaluations begun
    skipped,    \* steps that raised before the oracle was invoked
    stopped,    \* the rollout's process is stopped
    script,     \* where the pause script stands
    pauses,     \* stops tried so far
    proof       \* the boundary the script verified

physical == <<adapter, env, calls, skipped>>
client == <<pc, tools, seen, curve>>
pausing == <<stopped, script, pauses, proof>>
vars == <<benchmark, physical, channel, transcript, client, pausing>>

Made == benchmark = "made"

NoRequest == [at |-> "none", op |-> "", arg |-> [tool |-> "", candidate |-> None], answer |-> <<>>]

EpisodeDone(a) == IF Made THEN MadeDone(a) ELSE CrystalDone(a)

\* What an answer tells: counts with every outcome, the rest in observations.
Observation(a) ==
    [attempts |-> a.attempts, done |-> EpisodeDone(a),
     buffer |-> IF Made THEN a.buffer ELSE {},
     stable |-> IF Made THEN a.stable ELSE 0,
     final |-> IF Made THEN FALSE ELSE a.final]

Init ==
    /\ benchmark \in {"made", "crystalgym"}
    /\ adapter = IF Made THEN MadeNew ELSE CrystalNew
    /\ env = "up" /\ channel = NoRequest /\ transcript = <<>>
    /\ pc = "start" /\ tools = 0 /\ curve = <<>>
    /\ seen = Observation(adapter)
    /\ calls = 0 /\ skipped = 0
    /\ stopped = FALSE /\ script = (IF Made THEN "watch" ELSE "off") /\ pauses = 0 /\ proof = 0

---------------------------------------------------------------------------
(* EnvironmentClient.request and close *)

Live == ~stopped /\ pc \notin {"complete", "raised", "killed"}

Requests == Cardinality({i \in DOMAIN transcript : transcript[i].dir = "request"})

\* The row is durable before the request is sent.
Ask(op, arg, next) ==
    /\ channel' = [NoRequest EXCEPT !.at = "logged", !.op = op, !.arg = arg]
    /\ transcript' = Append(transcript, [dir |-> "request", id |-> Requests, op |-> op])
    /\ pc' = next

NoArgument == NoRequest.arg

\* __exit__ with an exception: the row names the environment, which is left alone.
Raising ==
    /\ pc' = "raised"
    /\ transcript' = Append(transcript, [dir |-> "exception"])
    /\ UNCHANGED <<channel, tools, seen, curve>>

Send ==
    /\ Live /\ channel.at = "logged"
    /\ IF env = "up" THEN channel' = [channel EXCEPT !.at = "sent"] /\ UNCHANGED <<transcript, client>>
                     ELSE Raising
    /\ UNCHANGED <<benchmark, physical, pausing>>

Waiting == Live /\ channel.at \in {"sent", "working"}

\* The answer does not come in time; the request is never replayed.
TimeOut ==
    /\ Waiting /\ env = "up"
    /\ Raising
    /\ UNCHANGED <<benchmark, physical, pausing>>

\* readline returns nothing.
EndOfFile ==
    /\ Waiting /\ env # "up"
    /\ Raising
    /\ UNCHANGED <<benchmark, physical, pausing>>

---------------------------------------------------------------------------
(* The environment process *)

Answered(a, ok) ==
    channel' = [channel EXCEPT !.at = "answered",
                               !.answer = [ok |-> ok, seen |-> Observation(a)]]

Refused == ~adapter.open \/ (adapter.faulted /\ channel.op \notin {"observe", "reset"})

Unchanged(ok) == [adapter |-> adapter, ok |-> ok]

\* dispatch of every operation but a step that reaches the environment.
Outcomes ==
    CASE channel.op = "init" -> {Unchanged(ok) : ok \in BOOLEAN}
      [] channel.op = "close" -> {[adapter |-> [adapter EXCEPT !.open = FALSE], ok |-> ok] : ok \in BOOLEAN}
      [] channel.op # "init" /\ channel.op # "close" /\ Refused -> {Unchanged(FALSE)}
      [] channel.op = "observe" /\ ~Refused -> {Unchanged(TRUE)}
      [] channel.op = "tool" /\ ~Refused -> MadeTool(adapter, channel.arg)
      [] channel.op = "reset" /\ ~Refused -> CrystalReset(adapter)
      [] channel.op = "step" /\ ~Refused -> {Unchanged(FALSE)}

MayStep == ~Refused /\ IF Made THEN MadeMayStep(adapter) ELSE CrystalMayStep(adapter)

\* A close that is ok ends the serve loop and the process.
Serve ==
    /\ env = "up" /\ channel.at = "sent"
    /\ channel.op = "step" => ~MayStep
    /\ \E outcome \in Outcomes :
        /\ adapter' = outcome.adapter
        /\ Answered(outcome.adapter, outcome.ok)
        /\ env' = IF channel.op = "close" /\ outcome.ok THEN "closed" ELSE env
    /\ UNCHANGED <<benchmark, calls, skipped, transcript, client, pausing>>

\* The step reaches env.step; the oracle or the calculation may be invoked.
BeginStep ==
    /\ env = "up" /\ channel.at = "sent" /\ channel.op = "step" /\ MayStep
    /\ \E invoked \in BOOLEAN :
        /\ invoked \/ (Made /\ skipped < MaxSkips)
        /\ adapter' = IF Made THEN MadeCounted(MadeTaken(adapter), invoked) ELSE CrystalCounted(adapter)
        /\ calls' = IF invoked /\ (Made \/ CrystalTerminal(adapter)) THEN calls + 1 ELSE calls
        /\ skipped' = IF invoked THEN skipped ELSE skipped + 1
        /\ channel' = [channel EXCEPT !.at = "working", !.answer = <<invoked>>]
    /\ UNCHANGED <<benchmark, env, transcript, client, pausing>>

EndStep ==
    /\ env = "up" /\ channel.at = "working"
    /\ \E ok \in BOOLEAN :
        /\ ok => channel.answer[1]
        /\ \E a \in CASE ok /\ Made -> MadeMeasured(adapter)
                      [] ok /\ ~Made -> CrystalMeasured(adapter)
                      [] ~ok /\ Made -> MadeRaised(adapter, channel.answer[1])
                      [] ~ok /\ ~Made -> CrystalRaised(adapter) :
            adapter' = a /\ Answered(a, ok)
    /\ UNCHANGED <<benchmark, env, calls, skipped, transcript, client, pausing>>

\* The process dies, or ends because its client is gone and no request is left.
EnvironmentExits ==
    /\ env = "up"
    /\ env' = "dead"
    /\ UNCHANGED <<benchmark, adapter, calls, skipped, channel, transcript, client, pausing>>

---------------------------------------------------------------------------
(* DiscoveryRollout.run *)

Start ==
    /\ Live /\ pc = "start"
    /\ Ask("init", NoArgument, "init")
    /\ UNCHANGED <<benchmark, physical, tools, seen, curve, pausing>>

Deciding == Live /\ pc = "loop" /\ ~seen.done

Recovering == tools >= MaxTools

\* The policy gives no valid action: for MADE a decision is lost.
NoValidAction ==
    /\ Deciding /\ Made /\ ~Recovering
    /\ tools' = tools + 1
    /\ UNCHANGED <<benchmark, physical, channel, transcript, pc, seen, curve, pausing>>

\* The reading tools are a generation that adds nothing.
Actions ==
    [tool : {"generate"}, candidate : {None}] \cup [tool : {"select"}, candidate : Candidates]

RecoveryAction ==
    IF seen.buffer # {} THEN [tool |-> "select", candidate |-> CHOOSE c \in seen.buffer : TRUE]
                        ELSE [tool |-> "generate", candidate |-> None]

RecoveryAllowed == tools <= MaxTools + MaxRecovery

CallTool ==
    /\ Deciding /\ Made
    /\ \E action \in IF Recovering THEN {RecoveryAction} ELSE Actions : Ask("tool", action, "tool")
    /\ Recovering => RecoveryAllowed
    /\ UNCHANGED <<benchmark, physical, tools, seen, curve, pausing>>

\* An invalid action of CrystalGym is replaced by a random legal one.
FillSite ==
    /\ Deciding /\ ~Made
    /\ Ask("step", NoArgument, "step")
    /\ UNCHANGED <<benchmark, physical, tools, seen, curve, pausing>>

\* The recovery gives up, or the policy or its evidence raises.
RolloutRaises ==
    /\ Live /\ pc = "loop"
    /\ Raising
    /\ UNCHANGED <<benchmark, physical, pausing>>

\* __exit__ without an exception: a process that is gone is not asked to close.
Close ==
    /\ Live /\ pc = "loop" /\ seen.done
    /\ IF env = "up" THEN Ask("close", NoArgument, "close")
                     ELSE pc' = "complete" /\ UNCHANGED <<channel, transcript>>
    /\ UNCHANGED <<benchmark, physical, tools, seen, curve, pausing>>

Answer == channel.answer

Received ==
    [dir |-> "response", id |-> Requests - 1, ok |-> Answer.ok, attempts |-> Answer.seen.attempts,
     stable |-> Answer.seen.stable, final |-> Answer.seen.final]

Logged == transcript' = Append(transcript, Received)

Observed == seen' = Answer.seen

\* The answer of an operation that has to be ok (check=True) raises otherwise.
Checked(next) ==
    /\ channel' = NoRequest /\ UNCHANGED <<tools, curve>>
    /\ IF Answer.ok THEN pc' = next /\ Observed /\ Logged
                    ELSE /\ pc' = "raised" /\ UNCHANGED seen
                         /\ transcript' = transcript \o <<Received, [dir |-> "exception"]>>

\* The answer is logged and the next request asked for; the script can see no
\* boundary between the two.
LogAndAsk(op, next) ==
    /\ channel' = [NoRequest EXCEPT !.at = "logged", !.op = op]
    /\ transcript' = transcript \o <<Received, [dir |-> "request", id |-> Requests, op |-> op]>>
    /\ pc' = next

ReceiveObservation ==
    /\ Live /\ channel.at = "answered" /\ pc \in {"init", "observe", "reset"}
    /\ Checked("loop")
    /\ UNCHANGED <<benchmark, physical, pausing>>

\* A failed step leaves the discoveries as they were.
CurveAfterFailure_Same == curve
CurveAfterFailure == Append(curve, <<Answer.seen.attempts, IF curve = <<>> THEN 0 ELSE curve[Len(curve)][2]>>)

\* The observation after a step that failed.
ReceiveSettled ==
    /\ Live /\ channel.at = "answered" /\ pc = "settle"
    /\ Logged /\ Observed /\ pc' = "loop" /\ channel' = NoRequest
    /\ curve' = CurveAfterFailure /\ tools' = 0
    /\ UNCHANGED <<benchmark, physical, pausing>>

ReceiveTool ==
    /\ Live /\ channel.at = "answered" /\ pc = "tool"
    /\ tools' = tools + 1
    /\ IF Answer.ok /\ channel.arg.tool = "select" THEN LogAndAsk("step", "step")
                                                   ELSE LogAndAsk("observe", "observe")
    /\ UNCHANGED <<benchmark, physical, seen, curve, pausing>>

ReceiveMadeStep ==
    /\ Live /\ Made /\ channel.at = "answered" /\ pc = "step"
    /\ IF Answer.ok
       THEN /\ Logged /\ Observed /\ pc' = "loop" /\ tools' = 0 /\ channel' = NoRequest
            /\ curve' = Append(curve, <<Answer.seen.attempts, Answer.seen.stable>>)
       ELSE LogAndAsk("observe", "settle") /\ UNCHANGED <<tools, seen, curve>>
    /\ UNCHANGED <<benchmark, physical, pausing>>

ReceiveSite ==
    /\ Live /\ ~Made /\ channel.at = "answered" /\ pc = "step" /\ Answer.ok
    /\ Observed /\ UNCHANGED tools
    /\ curve' = IF Answer.seen.final THEN Append(curve, <<Answer.seen.attempts, 0>>) ELSE curve
    /\ IF Answer.seen.final /\ ~Answer.seen.done THEN LogAndAsk("reset", "reset")
                                      ELSE Logged /\ pc' = "loop" /\ channel' = NoRequest
    /\ UNCHANGED <<benchmark, physical, pausing>>

\* CrystalGym: an exception of a step requires reconciliation.
ReceiveFailedSite ==
    /\ Live /\ ~Made /\ channel.at = "answered" /\ pc = "step" /\ ~Answer.ok
    /\ Checked("loop")
    /\ UNCHANGED <<benchmark, physical, pausing>>

\* The process has to end after an ok close; otherwise wait raises, outside
\* of the with statement.  The summaries are written last.
ReceiveClose ==
    /\ Live /\ channel.at = "answered" /\ pc = "close"
    /\ Logged /\ channel' = NoRequest
    /\ pc' = IF env # "up" THEN "complete" ELSE "raised"
    /\ UNCHANGED <<benchmark, physical, tools, seen, curve, pausing>>

Killed ==
    /\ pc \notin {"complete", "raised", "killed"}
    /\ pc' = "killed" /\ UNCHANGED <<tools, seen, curve>>

ClientDies ==
    /\ Live /\ Killed
    /\ UNCHANGED <<benchmark, physical, channel, transcript, pausing>>

---------------------------------------------------------------------------
(* The readers of the transcript *)

Rows(t, dir) == {i \in DOMAIN t : t[i].dir = dir}

\* _rpc_pairs
Paired(t) ==
    /\ Rows(t, "exception") = {} /\ t # <<>> /\ Len(t) % 2 = 0
    /\ \A i \in DOMAIN t : t[i].dir = IF i % 2 = 1 THEN "request" ELSE "response"
    /\ \A i \in Rows(t, "response") : t[i].id = t[i - 1].id
    /\ t[1].op = "init" /\ t[2].ok
    /\ t[Len(t) - 1].op = "close" /\ t[Len(t)].ok

StepsOf(t) == {i \in Rows(t, "request") : t[i].op = "step"}
Upto(t, i) == {j \in StepsOf(t) : j <= i}

\* The official discovery count after the step at i; it may not decrease.
Discovered(t, i) == Max({0} \cup {t[j + 1].stable : j \in {k \in Upto(t, i) : t[k + 1].ok}})

\* rpc_attempts as the answer to the request at i tells it: dispatch counts
\* every request but the init.
RpcAttempts(t, i) == Cardinality({j \in Rows(t, "request") : j <= i /\ t[j].op # "init"})

\* The requests of MADE whose answers were observations: a step that failed
\* has none, the others have to be ok.  The summary's costs are the last one's.
Observing(t) ==
    {i \in Rows(t, "request") : t[i].op \in {"init", "observe"} \/ (t[i].op = "step" /\ t[i + 1].ok)}

\* Every counter in the answer to the last step is the summary's, that of the
\* requests included.  Of CrystalGym the two are one answer.
CountersAgree(t) ==
    LET terminal == Max(StepsOf(t))
        last     == Max(Observing(t))
    IN  /\ t[terminal + 1].attempts = t[last + 1].attempts
        /\ RpcAttempts(t, terminal) = RpcAttempts(t, last)

MadeEvidence(t, c) ==
    /\ \A i \in StepsOf(t) : t[i + 1].attempts = Cardinality(Upto(t, i))
    /\ Cardinality(StepsOf(t)) = Budget
    /\ Len(c) = Budget
    /\ \A i \in StepsOf(t) : c[Cardinality(Upto(t, i))] = <<Cardinality(Upto(t, i)), Discovered(t, i)>>
    /\ CountersAgree(t)

Finals(t) == {i \in StepsOf(t) : t[i + 1].final}

CrystalEvidence(t, c) ==
    /\ \A i \in Rows(t, "request") : t[i].op \in {"step", "reset"} => t[i + 1].ok
    /\ Cardinality(Finals(t)) = Crystals /\ Len(c) = Crystals
    /\ \A i \in Finals(t) :
        LET starts == {j \in Rows(t, "request") : t[j].op \in {"init", "reset"} /\ j < i}
        IN  t[i + 1].attempts - t[Max(starts) + 1].attempts = 1

\* reconstruct_scientific_evidence, once the summaries exist.
Accepted ==
    /\ pc = "complete" /\ Paired(transcript)
    /\ IF Made THEN MadeEvidence(transcript, curve) ELSE CrystalEvidence(transcript, curve)

---------------------------------------------------------------------------
(* pause_bf16_collection.py *)

Ids(t, dir) == {t[i].id : i \in Rows(t, dir)}

\* Every request answered, the last row an ok answer that holds counts.
Boundary(t) ==
    /\ t # <<>> /\ Ids(t, "request") = Ids(t, "response")
    /\ t[Len(t)].dir = "response" /\ t[Len(t)].ok
    /\ \E i \in Rows(t, "request") : t[i].id = t[Len(t)].id /\ t[i].op \in {"observe", "step", "init"}

Gone == pc \in {"complete", "raised", "killed"}

UnchangedByScript == UNCHANGED <<benchmark, physical, channel, transcript>>

\* A boundary was seen, which may be past when the signal arrives.  A script
\* whose deadline passes is one that takes no further step.
Stop ==
    /\ script = "watch" /\ transcript # <<>> /\ pauses < MaxPauses
    /\ IF Gone THEN script' = "failed" /\ UNCHANGED <<stopped, pauses>>
               ELSE script' = "stopped" /\ stopped' = TRUE /\ pauses' = pauses + 1
    /\ UnchangedByScript /\ UNCHANGED <<client, proof>>

Recheck_Trusting == TRUE
Recheck == Boundary(transcript)

Verify ==
    /\ script = "stopped"
    /\ IF Recheck THEN script' = "verified" /\ proof' = Len(transcript) /\ UNCHANGED stopped
                  ELSE script' = "watch" /\ stopped' = FALSE /\ UNCHANGED proof
    /\ UnchangedByScript /\ UNCHANGED <<client, pauses>>

\* Faulty: an exception leaves the process stopped.
Continue_Not == UNCHANGED stopped
Continue == stopped' = FALSE

\* The archive cannot be made: finally continues the process.
Abandon ==
    /\ script = "verified" /\ script' = "failed"
    /\ Continue
    /\ UnchangedByScript /\ UNCHANGED <<client, pauses, proof>>

\* The receipt is written; SIGTERM is delivered by the SIGCONT that follows.
Terminate ==
    /\ script = "verified" /\ script' = "terminated"
    /\ stopped' = FALSE /\ Killed
    /\ UnchangedByScript /\ UNCHANGED <<pauses, proof>>

Archive ==
    /\ script = "terminated"
    /\ script' = IF Boundary(transcript) /\ Len(transcript) = proof THEN "archived" ELSE "failed"
    /\ UnchangedByScript /\ UNCHANGED <<client, stopped, pauses, proof>>

---------------------------------------------------------------------------
EnvironmentStep == Serve \/ BeginStep \/ EndStep \/ EnvironmentExits

ClientStep ==
    \/ Start \/ Send \/ TimeOut \/ EndOfFile \/ NoValidAction \/ CallTool \/ FillSite
    \/ RolloutRaises \/ Close \/ ReceiveObservation \/ ReceiveSettled \/ ReceiveTool
    \/ ReceiveMadeStep \/ ReceiveSite \/ ReceiveFailedSite \/ ReceiveClose

ScriptStep == Stop \/ Verify \/ Abandon \/ Terminate \/ Archive

Next == EnvironmentStep \/ ClientStep \/ ClientDies \/ ScriptStep

Spec == Init /\ [][Next]_vars

\* The client's process is scheduled and its timer runs; so is the script's.
\* Nothing is assumed of the environment.
Fairness == WF_vars(ClientStep) /\ WF_vars(ScriptStep)

FairSpec == Spec /\ Fairness

---------------------------------------------------------------------------
(* Properties *)

TypeOK ==
    /\ benchmark \in {"made", "crystalgym"} /\ env \in {"up", "closed", "dead"}
    /\ channel.at \in {"none", "logged", "sent", "working", "answered"}
    /\ tools \in 0 .. MaxTools + MaxRecovery + 1
    /\ stopped \in BOOLEAN /\ pauses \in 0 .. MaxPauses

\* However the policy, the oracle and the two processes fail, an episode never
\* begins more physical evaluations than its budget.
BudgetKept == TypeOK /\ calls <= (IF Made THEN Budget ELSE Crystals)

\* A transcript that counts as fitness was left by a session that is closed,
\* has nothing in progress and evaluated exactly the budget.
AcceptedIsPhysical ==
    Accepted => /\ ~adapter.open /\ channel.at = "none"
                /\ calls = (IF Made THEN Budget ELSE Crystals) /\ adapter.attempts = calls

LastStepOk(t) == t[Max(StepsOf(t)) + 1].ok

\* Which rollouts that complete have evidence, if no environment died under
\* them and no step raised before the oracle was invoked: each of them, save a
\* MADE rollout whose last attempt raised.  The observation asked for after
\* that attempt counts a request more than its answer told, so the whole
\* rollout is refused, of which tests/test_training_jobs.py:204 expects (with
\* counts that hold no rpc_attempts) that it is accepted.
CompleteIsAccepted ==
    pc = "complete" /\ env = "closed" /\ skipped = 0 =>
        (Accepted <=> (Made => LastStepOk(transcript)))

\* From the verification on nothing physical happens, so that what the script
\* archives is the whole account.
Quiet == channel.at \in {"none", "logged"} /\ UNCHANGED <<calls, transcript>>

PausedIsQuiet ==
    [][(script \in {"verified", "terminated"} /\ script' # "failed") => Quiet]_vars

\* A rollout ends: no sequence of useless actions, refused calls, hanging or
\* late answers, or a stop by the script, leaves it in the loop for ever.  Only
\* steps that raise before the oracle is invoked cost nothing and could recur.
RolloutEnds == <>(pc \in {"complete", "raised", "killed"})

=============================================================================
