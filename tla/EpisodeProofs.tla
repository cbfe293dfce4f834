--------------------------- MODULE EpisodeProofs ---------------------------
(***************************************************************************)
(* Proofs about a rollout: its budget holds, what its transcript is        *)
(* accepted for is what was evaluated, and a rollout that the pause script *)
(* has verified is quiet.                                                  *)
(*                                                                         *)
(* The environment works only between a request and its answer, and the    *)
(* client only outside of it.  So the invariant follows the conversation:  *)
(* what the channel holds is what the last row of the transcript asked     *)
(* for, and an answer speaks of the adapter as it still is.                *)
(***************************************************************************)
EXTENDS Episode, FiniteSetTheorems, TLAPS

Places ==
    {"start", "init", "loop", "tool", "observe", "step", "settle", "reset", "close",
     "complete", "raised", "killed"}

Scripts == {"off", "watch", "stopped", "verified", "failed", "terminated", "archived"}

Ops == {"init", "tool", "observe", "step", "reset", "close"}

Arguments == [tool : {"", "generate", "select"}, candidate : Candidates \cup {None}]

MadeStates ==
    [open : BOOLEAN, faulted : BOOLEAN, attempts : Nat, buffer : SUBSET Candidates,
     selected : Candidates \cup {None}, stable : Nat]

CrystalStates ==
    [open : BOOLEAN, faulted : BOOLEAN, attempts : Nat, filled : Nat, final : BOOLEAN, episode : Nat]

States == IF Made THEN MadeStates ELSE CrystalStates

Observations ==
    [attempts : Nat, done : BOOLEAN, buffer : SUBSET Candidates, stable : Nat, final : BOOLEAN]

Answers == [ok : BOOLEAN, seen : Observations]

Invocations == {<<invoked>> : invoked \in BOOLEAN}

Channels ==
    [at : {"none", "logged", "sent", "working", "answered"}, op : Ops \cup {""}, arg : Arguments,
     answer : Answers \cup Invocations \cup {<<>>}]

RequestRows == [dir : {"request"}, id : Int, op : Ops]
ResponseRows ==
    [dir : {"response"}, id : Int, ok : BOOLEAN, attempts : Nat, stable : Nat, final : BOOLEAN]
Exception == [dir |-> "exception"]
AllRows == RequestRows \cup ResponseRows \cup {Exception}

Typed ==
    /\ benchmark \in {"made", "crystalgym"} /\ env \in {"up", "closed", "dead"}
    /\ adapter \in States /\ channel \in Channels /\ transcript \in Seq(AllRows)
    /\ pc \in Places /\ tools \in 0 .. MaxTools + MaxRecovery + 1
    /\ seen \in Observations /\ curve \in Seq(Nat \X Nat) /\ calls \in Nat /\ skipped \in Nat
    /\ stopped \in BOOLEAN /\ script \in Scripts /\ pauses \in 0 .. MaxPauses /\ proof \in Nat

Allowed == IF Made THEN Budget ELSE Crystals

\* The adapter counts what is begun.
Accounting == adapter.attempts = calls /\ calls <= Allowed

\* The operation that is asked for at each place that waits.
OpAt == [p \in {"init", "tool", "observe", "step", "settle", "reset", "close"} |->
            IF p = "settle" THEN "observe" ELSE p]

\* What the rollout of the benchmark may ask for.
OpsOf == Ops \ {IF Made THEN "reset" ELSE "tool"}

ToolNamed == channel.op = "tool" => channel.arg.tool # ""

LastDir == IF transcript = <<>> THEN "" ELSE transcript[Len(transcript)].dir

Conversation ==
    /\ channel.at = "none" \/ LastDir # "response"
    /\ channel.at # "none" => channel.op \in OpsOf
    /\ ToolNamed
    /\ channel.at = "working" => channel.op = "step" /\ channel.answer \in Invocations
    /\ channel.at = "answered" => channel.answer \in Answers /\ channel.answer.seen = Observation(adapter)
    /\ pc \in {"start", "loop"} => channel = NoRequest
    /\ pc \in DOMAIN OpAt => channel.at # "none" /\ channel.op = OpAt[pc]
    /\ pc = "tool" => tools <= MaxTools + MaxRecovery
    /\ pc = "loop" => seen = Observation(adapter)
    /\ pc \in {"close", "complete"} => EpisodeDone(adapter)
    /\ pc = "complete" => channel.at = "none"

NoClose(t) == \A i \in DOMAIN t : t[i].dir = "request" => t[i].op # "close"

\* Closing is the last thing asked for, and it closes the adapter.
Closing ==
    /\ channel.at = "answered" /\ channel.op = "close" => ~adapter.open
    /\ pc \in Places \ {"close", "complete", "raised", "killed"} => NoClose(transcript)
    /\ pc = "complete" => ~adapter.open \/ NoClose(transcript)

Pausing ==
    /\ script \in {"stopped", "verified"} => stopped
    /\ script \in {"verified", "terminated"} => channel.at = "none"
    /\ script = "terminated" => pc = "killed"

Inv == Typed /\ Accounting /\ Conversation /\ Closing /\ Pausing

-----------------------------------------------------------------------------
(* Types *)

LEMMA Naturals1 ==
    /\ MaxTools \in Nat /\ MaxTools >= 1 /\ MaxRecovery \in Nat /\ MaxSkips \in Nat /\ MaxPauses \in Nat
    /\ Budget \in Nat /\ Budget >= 1 /\ Crystals \in Nat /\ Crystals >= 1 /\ Sites \in Nat /\ Sites >= 1
    /\ None \notin Candidates /\ Allowed \in Nat /\ Allowed >= 1
BY EpisodeAssumption, BudgetAssumption, CrystalAssumption DEF Allowed

LEMMA ObservationType ==
    ASSUME NEW a \in States
    PROVE  /\ Observation(a) \in Observations /\ Observation(a).attempts = a.attempts
           /\ a.attempts \in Nat /\ a.open \in BOOLEAN /\ EpisodeDone(a) \in BOOLEAN
           /\ Observation(a).done = EpisodeDone(a)
           /\ EpisodeDone(a) <=> a.attempts >= Allowed
<1>1. CASE Made
  <2>1. a \in MadeStates
    BY <1>1 DEF States
  <2>2. /\ a.attempts \in Nat /\ a.open \in BOOLEAN /\ a.buffer \in SUBSET Candidates /\ a.stable \in Nat
        /\ EpisodeDone(a) \in BOOLEAN /\ (EpisodeDone(a) <=> a.attempts >= Allowed)
    BY <1>1, <2>1 DEF MadeStates, EpisodeDone, MadeDone, Allowed
  <2> HIDE DEF EpisodeDone
  <2> QED BY <1>1, <2>2 DEF Observation, Observations
<1>2. CASE ~Made
  <2>1. a \in CrystalStates
    BY <1>2 DEF States
  <2>2. /\ a.attempts \in Nat /\ a.open \in BOOLEAN /\ a.final \in BOOLEAN
        /\ EpisodeDone(a) \in BOOLEAN /\ (EpisodeDone(a) <=> a.attempts >= Allowed)
    BY <1>2, <2>1 DEF CrystalStates, EpisodeDone, CrystalDone, Allowed
  <2> HIDE DEF EpisodeDone
  <2> QED BY <1>2, <2>2 DEF Observation, Observations
<1> QED BY <1>1, <1>2

LEMMA NoRequestType ==
    /\ NoRequest \in Channels /\ NoRequest.at = "none" /\ NoRequest.op = "" /\ NoRequest.answer = <<>>
    /\ NoArgument \in Arguments /\ NoRequest.arg = NoArgument
BY DEF NoRequest, NoArgument, Channels, Arguments, Ops

LEMMA ChannelAt ==
    ASSUME NEW c \in Channels, NEW at \in {"none", "logged", "sent", "working", "answered"},
           NEW k, k = [c EXCEPT !.at = at]
    PROVE  k \in Channels /\ k.at = at /\ k.op = c.op /\ k.arg = c.arg /\ k.answer = c.answer
BY DEF Channels

LEMMA ChannelAnswer ==
    ASSUME NEW c \in Channels, NEW w \in Answers \cup Invocations, NEW k, k = [c EXCEPT !.answer = w]
    PROVE  k \in Channels /\ k.at = c.at /\ k.op = c.op /\ k.arg = c.arg /\ k.answer = w
<1>1. w \in Answers \cup Invocations \cup {<<>>}
  OBVIOUS
<1> QED BY <1>1 DEF Channels

LEMMA AskedType ==
    ASSUME NEW op \in Ops, NEW arg \in Arguments
    PROVE  [at |-> "logged", op |-> op, arg |-> arg, answer |-> <<>>] \in Channels
BY DEF Channels

LEMMA AppendRow ==
    ASSUME NEW t \in Seq(AllRows), NEW r \in AllRows, NEW u, u = Append(t, r)
    PROVE  /\ u \in Seq(AllRows) /\ Len(t) \in Nat /\ Len(u) = Len(t) + 1 /\ u # <<>>
           /\ DOMAIN t = 1 .. Len(t) /\ DOMAIN u = 1 .. Len(u)
           /\ u[Len(u)] = r /\ \A i \in 1 .. Len(t) : u[i] = t[i]
           /\ NoClose(t) /\ (r.dir = "request" => r.op # "close") => NoClose(u)
           /\ Len(u) # 0
<1>1. /\ u \in Seq(AllRows) /\ Len(t) \in Nat /\ Len(u) = Len(t) + 1 /\ u # <<>>
      /\ DOMAIN t = 1 .. Len(t) /\ DOMAIN u = 1 .. Len(u)
      /\ u[Len(u)] = r /\ \A i \in 1 .. Len(t) : u[i] = t[i]
  OBVIOUS
<1>2. NoClose(t) /\ (r.dir = "request" => r.op # "close") => NoClose(u)
  <2> SUFFICES ASSUME NoClose(t), r.dir = "request" => r.op # "close",
                      NEW i \in 1 .. Len(u), u[i].dir = "request"
               PROVE  u[i].op # "close"
    BY <1>1 DEF NoClose
  <2>1. CASE i \in 1 .. Len(t)
    BY <1>1, <2>1 DEF NoClose
  <2>2. CASE i = Len(u)
    BY <1>1, <2>2
  <2> QED BY <1>1, <2>1, <2>2
<1> QED BY <1>1, <1>2

\* Two rows at once are one after the other.
LEMMA AppendTwo ==
    ASSUME NEW t \in Seq(AllRows), NEW r \in AllRows, NEW q \in AllRows
    PROVE  t \o <<r, q>> = Append(Append(t, r), q)
<1>1. t \in Seq(AllRows) /\ <<r, q>> \in Seq(AllRows) /\ Append(t, r) \in Seq(AllRows)
  OBVIOUS
<1> QED BY <1>1

LEMMA RequestCount ==
    ASSUME NEW t \in Seq(AllRows)
    PROVE  IsFiniteSet(DOMAIN t) /\ \A dir : IsFiniteSet(Rows(t, dir)) /\ Cardinality(Rows(t, dir)) \in Nat
<1>1. DOMAIN t = 1 .. Len(t) /\ Len(t) \in Nat
  OBVIOUS
<1>2. IsFiniteSet(DOMAIN t)
  BY <1>1, FS_Interval
<1>3. \A dir : Rows(t, dir) \subseteq DOMAIN t
  BY DEF Rows
<1> QED BY <1>2, <1>3, FS_Subset, FS_CardinalityType

LEMMA RequestRow ==
    ASSUME Typed, NEW op \in Ops, NEW r, r = [dir |-> "request", id |-> Requests, op |-> op]
    PROVE  r \in AllRows /\ r.dir = "request" /\ r.op = op /\ r.id = Requests /\ Requests \in Nat
<1>1. Requests = Cardinality(Rows(transcript, "request"))
  BY DEF Requests, Rows
<1>2. Requests \in Nat
  BY <1>1, RequestCount DEF Typed
<1> HIDE DEF Requests
<1> QED BY <1>2 DEF AllRows, RequestRows

LEMMA ReceivedRow ==
    ASSUME Typed, channel.answer \in Answers
    PROVE  /\ Received \in AllRows /\ Received.dir = "response" /\ Received.id = Requests - 1
           /\ Received.ok = Answer.ok /\ Received.attempts = Answer.seen.attempts
           /\ Received.stable = Answer.seen.stable /\ Received.final = Answer.seen.final
           /\ Answer.ok \in BOOLEAN /\ Answer.seen \in Observations
<1>1. Requests \in Nat
  BY RequestRow DEF Ops
<1>2. /\ Answer.ok \in BOOLEAN /\ Answer.seen \in Observations
      /\ Answer.seen.attempts \in Nat /\ Answer.seen.stable \in Nat /\ Answer.seen.final \in BOOLEAN
  BY DEF Answer, Answers, Observations
<1> HIDE DEF Requests, Answer
<1> QED BY <1>1, <1>2 DEF Received, AllRows, ResponseRows

LEMMA ExceptionRow == Exception \in AllRows /\ Exception.dir = "exception"
BY DEF Exception, AllRows

-----------------------------------------------------------------------------
(* The client *)

LEMMA OpAtFacts ==
    /\ DOMAIN OpAt = {"init", "tool", "observe", "step", "settle", "reset", "close"}
    /\ OpAt["init"] = "init" /\ OpAt["tool"] = "tool" /\ OpAt["observe"] = "observe"
    /\ OpAt["step"] = "step" /\ OpAt["settle"] = "observe" /\ OpAt["reset"] = "reset"
    /\ OpAt["close"] = "close"
    /\ {"init", "observe", "step", "close"} \subseteq OpsOf
    /\ Made => "tool" \in OpsOf
    /\ ~Made => "reset" \in OpsOf
BY DEF OpAt, OpsOf, Ops

LEMMA ToolStays ==
    /\ channel' = NoRequest => ToolNamed'
    /\ ToolNamed /\ channel' = channel => ToolNamed'
    /\ ToolNamed /\ channel'.op = channel.op /\ channel'.arg = channel.arg => ToolNamed'
BY NoRequestType DEF ToolNamed

\* What remains to be shown of a step of the client.
LEMMA ClientKeeps ==
    ASSUME Inv, Live, UNCHANGED <<benchmark, physical, pausing>>,
           channel' \in Channels, transcript' \in Seq(AllRows), pc' \in Places,
           tools' \in 0 .. MaxTools + MaxRecovery + 1, seen' \in Observations, curve' \in Seq(Nat \X Nat),
           Conversation', Closing'
    PROVE  Inv'
<1>1. UNCHANGED <<benchmark, adapter, env, calls, skipped, stopped, script, pauses, proof>>
  BY DEF physical, pausing
<1>2. Typed'
  BY <1>1 DEF Inv, Typed, States, Made
<1>3. Accounting'
  BY <1>1 DEF Inv, Accounting, Allowed, Made
<1>4. Pausing'
  BY <1>1 DEF Inv, Pausing, Live
<1> QED BY <1>2, <1>3, <1>4 DEF Inv

\* The adapter stands still while the client moves.
LEMMA StillAdapter ==
    ASSUME UNCHANGED <<benchmark, physical>>
    PROVE  /\ adapter' = adapter /\ Observation(adapter)' = Observation(adapter)
           /\ EpisodeDone(adapter)' = EpisodeDone(adapter)
           /\ benchmark' = benchmark /\ env' = env /\ OpsOf' = OpsOf
BY DEF physical, Observation, EpisodeDone, Made, OpsOf

LEMMA LiveState ==
    ASSUME Inv, Live
    PROVE  /\ adapter \in States /\ channel \in Channels /\ transcript \in Seq(AllRows)
           /\ pc \in Places \ {"complete", "raised", "killed"}
           /\ tools \in 0 .. MaxTools + MaxRecovery + 1 /\ seen \in Observations
           /\ curve \in Seq(Nat \X Nat) /\ benchmark \in {"made", "crystalgym"} /\ env \in {"up", "closed", "dead"}
BY DEF Inv, Typed, Live

LEMMA RaisingKeeps ==
    ASSUME Inv, Live, Raising, UNCHANGED <<benchmark, physical, pausing>>
    PROVE  Inv'
<1>1. /\ pc' = "raised" /\ transcript' = Append(transcript, Exception)
      /\ UNCHANGED <<channel, tools, seen, curve>>
  BY DEF Raising, Exception
<1>2. /\ transcript' \in Seq(AllRows) /\ transcript' # <<>>
      /\ transcript'[Len(transcript')] = Exception
  BY <1>1, AppendRow, ExceptionRow, LiveState
<1>3. LastDir' = "exception"
  BY <1>2, ExceptionRow DEF LastDir
<1>4. Conversation'
  BY <1>1, <1>3, ToolStays, StillAdapter DEF Inv, Conversation, OpAt
<1>5. Closing'
  BY <1>1, StillAdapter DEF Inv, Closing
<1> QED BY <1>1, <1>2, <1>4, <1>5, ClientKeeps, LiveState DEF Places

\* A request that is asked for: its row and the channel agree.
LEMMA AskKeeps ==
    ASSUME Inv, Live, UNCHANGED <<benchmark, physical, pausing, tools, seen, curve>>,
           NEW next \in DOMAIN OpAt, NEW arg \in Arguments, Ask(OpAt[next], arg, next),
           pc \in {"start", "loop"}, OpAt[next] \in OpsOf,
           next = "tool" => arg.tool # "",
           next = "tool" => tools <= MaxTools + MaxRecovery, next = "close" => EpisodeDone(adapter)
    PROVE  Inv'
<1> DEFINE op == OpAt[next]
           row == [dir |-> "request", id |-> Requests, op |-> op]
<1>1. op \in Ops /\ (op = "close" <=> next = "close") /\ next \in Places
  BY DEF OpAt, Ops, Places
<1>2. /\ channel' = [NoRequest EXCEPT !.at = "logged", !.op = op, !.arg = arg]
      /\ transcript' = Append(transcript, row) /\ pc' = next
  BY DEF Ask
<1>3. row \in AllRows /\ row.dir = "request" /\ row.op = op
  BY <1>1, RequestRow DEF Inv
<1> HIDE DEF op
<1>4. channel' \in Channels /\ channel'.at = "logged" /\ channel'.op = op
  <2>1. channel' = [at |-> "logged", op |-> op, arg |-> arg, answer |-> <<>>]
    BY <1>2 DEF NoRequest
  <2>2. [at |-> "logged", op |-> op, arg |-> arg, answer |-> <<>>] \in Channels
    BY <1>1, AskedType
  <2> QED BY <2>1, <2>2, Zenon
<1> HIDE DEF row
<1>5. /\ transcript' \in Seq(AllRows) /\ transcript' # <<>>
      /\ transcript'[Len(transcript')] = row
      /\ NoClose(transcript) /\ op # "close" => NoClose(transcript')
  BY <1>2, <1>3, AppendRow, LiveState
<1>6. LastDir' = "request"
  BY <1>3, <1>5 DEF LastDir
<1>7. next \notin {"start", "loop", "complete"}
  BY DEF OpAt
<1>8. Conversation'
  <2>1. pc' = next /\ channel'.op = OpAt[pc'] /\ tools' = tools
    BY <1>2, <1>4 DEF op
  <2>2. channel'.arg = arg
    BY <1>2 DEF NoRequest
  <2>3. ToolNamed'
    BY <1>1, <1>4, <2>2, OpAtFacts DEF ToolNamed, op
  <2> QED BY <1>1, <1>4, <1>6, <1>7, <2>1, <2>3, StillAdapter DEF Conversation, op
<1>9. NoClose(transcript)
  BY DEF Inv, Closing, Places
<1>10. Closing'
  BY <1>1, <1>2, <1>4, <1>5, <1>7, <1>9 DEF Closing
<1> QED BY <1>1, <1>2, <1>4, <1>5, <1>8, <1>10, ClientKeeps, LiveState

\* An answer: the state that it was given in.
LEMMA AnswerState ==
    ASSUME Inv, Live, channel.at = "answered"
    PROVE  /\ channel.answer \in Answers /\ Answer.ok \in BOOLEAN /\ Answer.seen \in Observations
           /\ Answer.seen = Observation(adapter) /\ Answer.seen.attempts = adapter.attempts
           /\ adapter.attempts \in Nat /\ Answer.seen.stable \in Nat
           /\ Answer.seen.done = EpisodeDone(adapter)
           /\ Received \in AllRows /\ Received.dir = "response" /\ Received.id = Requests - 1
           /\ Received.ok = Answer.ok /\ Received.attempts = adapter.attempts
           /\ Received.stable = Answer.seen.stable /\ Received.final = Answer.seen.final
<1>1. channel.answer \in Answers /\ channel.answer.seen = Observation(adapter)
  BY DEF Inv, Conversation
<1>2. /\ Received \in AllRows /\ Received.dir = "response" /\ Received.id = Requests - 1
      /\ Received.ok = Answer.ok /\ Received.attempts = Answer.seen.attempts
      /\ Received.stable = Answer.seen.stable /\ Received.final = Answer.seen.final
      /\ Answer.ok \in BOOLEAN /\ Answer.seen \in Observations
  BY <1>1, ReceivedRow DEF Inv
<1>3. Answer.seen = Observation(adapter)
  BY <1>1 DEF Answer
<1>4. /\ Observation(adapter).attempts = adapter.attempts /\ adapter.attempts \in Nat
      /\ Observation(adapter).done = EpisodeDone(adapter)
  BY ObservationType, LiveState
<1>5. Answer.seen.stable \in Nat
  BY <1>2 DEF Observations
<1> QED BY <1>1, <1>2, <1>3, <1>4, <1>5

\* An answer after which the client is in its loop again.
LEMMA BackInLoop ==
    ASSUME Inv, Live, UNCHANGED <<benchmark, physical, pausing>>, channel.at = "answered",
           pc \in {"init", "observe", "reset", "step", "settle"},
           Logged, Observed, pc' = "loop", channel' = NoRequest,
           tools' \in 0 .. MaxTools + MaxRecovery + 1, curve' \in Seq(Nat \X Nat)
    PROVE  Inv'
<1>1. transcript' = Append(transcript, Received) /\ seen' = Answer.seen
  BY DEF Logged, Observed
<1>2. transcript' \in Seq(AllRows) /\ (NoClose(transcript) => NoClose(transcript'))
  BY <1>1, AppendRow, AnswerState, LiveState
<1>3. seen' \in Observations /\ seen' = Observation(adapter)
  BY <1>1, AnswerState
<1>4. Conversation'
  BY <1>3, ToolStays, StillAdapter, NoRequestType DEF Conversation, OpAt
<1>5. NoClose(transcript)
  BY DEF Inv, Closing, Places
<1>6. Closing'
  BY <1>2, <1>5, NoRequestType DEF Closing
<1> QED BY <1>2, <1>3, <1>4, <1>6, NoRequestType, ClientKeeps DEF Places

\* An answer that is logged with the next request.
LEMMA LogAndAskKeeps ==
    ASSUME Inv, Live, UNCHANGED <<benchmark, physical, pausing>>, channel.at = "answered",
           pc \in {"tool", "step"}, NEW next \in {"step", "observe", "settle", "reset"},
           LogAndAsk(OpAt[next], next), OpAt[next] \in OpsOf,
           tools' \in 0 .. MaxTools + MaxRecovery + 1, seen' \in Observations,
           curve' \in Seq(Nat \X Nat)
    PROVE  Inv'
<1> DEFINE op == OpAt[next]
           row == [dir |-> "request", id |-> Requests, op |-> op]
           answered == Append(transcript, Received)
<1>1. op \in Ops /\ op # "close" /\ next \in Places /\ next \in DOMAIN OpAt
  BY DEF OpAt, Ops, Places
<1>2. row \in AllRows /\ row.dir = "request" /\ row.op = op
  BY <1>1, RequestRow DEF Inv
<1>3. /\ channel' = [NoRequest EXCEPT !.at = "logged", !.op = op]
      /\ transcript' = transcript \o <<Received, row>> /\ pc' = next
  BY DEF LogAndAsk
<1> HIDE DEF op
<1>4. channel' \in Channels /\ channel'.at = "logged" /\ channel'.op = op
  <2>1. channel' = [at |-> "logged", op |-> op, arg |-> NoArgument, answer |-> <<>>]
    BY <1>3 DEF NoRequest, NoArgument
  <2>2. [at |-> "logged", op |-> op, arg |-> NoArgument, answer |-> <<>>] \in Channels
    BY <1>1, NoRequestType, AskedType
  <2> QED BY <2>1, <2>2, Zenon
<1> HIDE DEF row
<1>5. answered \in Seq(AllRows) /\ (NoClose(transcript) => NoClose(answered))
  BY AppendRow, AnswerState, LiveState
<1>6. transcript' = Append(answered, row)
  BY <1>2, <1>3, AppendTwo, AnswerState, LiveState
<1> HIDE DEF answered
<1>7. /\ transcript' \in Seq(AllRows) /\ transcript' # <<>> /\ transcript'[Len(transcript')] = row
      /\ NoClose(answered) => NoClose(transcript')
  <2>1. PICK t : t = Append(answered, row)
    OBVIOUS
  <2>2. t \in Seq(AllRows) /\ t # <<>> /\ t[Len(t)] = row
    BY <1>2, <1>5, <2>1, AppendRow
  <2>3. NoClose(answered) /\ (row.dir = "request" => row.op # "close") => NoClose(t)
    BY <1>2, <1>5, <2>1, AppendRow, Zenon
  <2> QED BY <1>1, <1>2, <1>6, <2>1, <2>2, <2>3
<1>8. LastDir' = "request"
  BY <1>2, <1>7 DEF LastDir
<1>9. Conversation'
  <2>1. pc' = next /\ channel'.op = OpAt[pc']
    BY <1>3, <1>4 DEF op
  <2>2. ToolNamed'
    BY <1>4, OpAtFacts DEF ToolNamed, op
  <2> QED BY <1>4, <1>8, <2>1, <2>2, StillAdapter DEF Conversation
<1>10. NoClose(transcript)
  BY DEF Inv, Closing, Places
<1>11. Closing'
  BY <1>1, <1>4, <1>5, <1>7, <1>10, <1>3 DEF Closing
<1> QED BY <1>1, <1>3, <1>4, <1>7, <1>9, <1>11, ClientKeeps

\* An answer that had to be ok and is not.
LEMMA CheckedKeeps ==
    ASSUME Inv, Live, UNCHANGED <<benchmark, physical, pausing>>, channel.at = "answered",
           pc \in {"init", "observe", "reset", "step"}, Checked("loop")
    PROVE  Inv'
<1>1. channel' = NoRequest /\ UNCHANGED <<tools, curve>>
  BY DEF Checked
<1>2. CASE Answer.ok
  <2>1. pc' = "loop" /\ Observed /\ Logged
    BY <1>2 DEF Checked
  <2> QED BY <1>1, <2>1, BackInLoop, LiveState
<1>3. CASE ~Answer.ok
  <2>1. pc' = "raised" /\ seen' = seen /\ transcript' = transcript \o <<Received, Exception>>
    BY <1>3 DEF Checked, Exception
  <2>2. transcript' \in Seq(AllRows)
    BY <2>1, AnswerState, ExceptionRow, LiveState
  <2>3. Conversation'
    BY <1>1, <2>1, ToolStays, NoRequestType DEF Conversation, OpAt
  <2>4. Closing'
    BY <1>1, <2>1, NoRequestType DEF Closing
  <2> QED BY <1>1, <2>1, <2>2, <2>3, <2>4, ClientKeeps, LiveState, NoRequestType DEF Places
<1> QED BY <1>2, <1>3

-----------------------------------------------------------------------------
(* The actions of the client *)

LEMMA StartKeeps ==
    ASSUME Inv, Start
    PROVE  Inv'
BY AskKeeps, OpAtFacts, NoRequestType DEF Start

LEMMA SendKeeps ==
    ASSUME Inv, Send
    PROVE  Inv'
<1>1. Live /\ channel.at = "logged" /\ UNCHANGED <<benchmark, physical, pausing>>
  BY DEF Send
<1>2. CASE env # "up"
  BY <1>1, <1>2, RaisingKeeps DEF Send
<1>3. CASE env = "up"
  <2>1. channel' = [channel EXCEPT !.at = "sent"] /\ UNCHANGED <<transcript, pc, tools, seen, curve>>
    BY <1>3 DEF Send, client
  <2>2. channel \in Channels
    BY <1>1, LiveState
  <2>3. channel' \in Channels /\ channel'.at = "sent" /\ channel'.op = channel.op /\ channel'.arg = channel.arg
    BY <2>1, <2>2 DEF Channels
  <2>4. LastDir' = LastDir
    BY <2>1 DEF LastDir
  <2>5. pc \notin {"start", "loop"}
    BY <1>1, NoRequestType DEF Inv, Conversation
  <2>6. Conversation'
    BY <1>1, <2>1, <2>3, <2>4, <2>5, ToolStays, StillAdapter DEF Inv, Conversation
  <2>7. Closing'
    BY <1>1, <2>1, <2>3, StillAdapter DEF Inv, Closing
  <2> QED BY <1>1, <2>1, <2>3, <2>6, <2>7, ClientKeeps, LiveState
<1> QED BY <1>2, <1>3

LEMMA GivingUpKeeps ==
    ASSUME Inv, TimeOut \/ EndOfFile \/ RolloutRaises
    PROVE  Inv'
BY RaisingKeeps DEF TimeOut, EndOfFile, RolloutRaises, Waiting

LEMMA NoValidActionKeeps ==
    ASSUME Inv, NoValidAction
    PROVE  Inv'
<1>1. /\ Live /\ pc = "loop" /\ tools' = tools + 1 /\ tools < MaxTools
      /\ UNCHANGED <<benchmark, physical, channel, transcript, pc, seen, curve, pausing>>
  BY Naturals1, LiveState DEF NoValidAction, Deciding, Recovering
<1>2. tools' \in 0 .. MaxTools + MaxRecovery + 1
  BY <1>1, Naturals1, LiveState
<1>3. LastDir' = LastDir
  BY <1>1 DEF LastDir
<1>4. Conversation'
  BY <1>1, <1>3, ToolStays, StillAdapter DEF Inv, Conversation
<1>5. Closing'
  BY <1>1, StillAdapter DEF Inv, Closing
<1>6. pc' \in Places /\ pc \in Places
  BY <1>1, LiveState
<1> QED BY <1>1, <1>2, <1>4, <1>5, <1>6, ClientKeeps, LiveState

LEMMA CallToolKeeps ==
    ASSUME Inv, CallTool
    PROVE  Inv'
<1>1. /\ Live /\ pc = "loop" /\ Made /\ (Recovering => RecoveryAllowed)
      /\ UNCHANGED <<benchmark, physical, pausing, tools, seen, curve>>
  BY DEF CallTool, Deciding
<1>2. PICK action \in IF Recovering THEN {RecoveryAction} ELSE Actions : Ask("tool", action, "tool")
  BY DEF CallTool
<1>3. action \in Arguments
  <2>1. seen.buffer \subseteq Candidates
    BY <1>1, LiveState DEF Observations
  <2>2. RecoveryAction \in Arguments
    <3>1. CASE seen.buffer = {}
      BY <3>1 DEF RecoveryAction, Arguments
    <3>2. CASE seen.buffer # {}
      <4>1. PICK chosen \in Candidates : chosen = CHOOSE c \in seen.buffer : TRUE
        BY <2>1, <3>2
      <4> QED BY <3>2, <4>1 DEF RecoveryAction, Arguments
    <3> QED BY <3>1, <3>2
  <2>3. Actions \subseteq Arguments
    BY DEF Actions, Arguments
  <2> QED BY <1>2, <2>2, <2>3
<1>4. tools <= MaxTools + MaxRecovery
  BY <1>1, Naturals1, LiveState DEF Recovering, RecoveryAllowed
<1>5. action.tool # ""
  <2>1. RecoveryAction.tool # ""
    BY DEF RecoveryAction
  <2>2. \A a \in Actions : a.tool # ""
    BY DEF Actions
  <2> QED BY <1>2, <2>1, <2>2
<1> QED BY <1>1, <1>2, <1>3, <1>4, <1>5, AskKeeps, OpAtFacts

LEMMA FillSiteKeeps ==
    ASSUME Inv, FillSite
    PROVE  Inv'
BY AskKeeps, OpAtFacts, NoRequestType DEF FillSite, Deciding

LEMMA CloseKeeps ==
    ASSUME Inv, Close
    PROVE  Inv'
<1>1. /\ Live /\ pc = "loop" /\ seen.done
      /\ UNCHANGED <<benchmark, physical, tools, seen, curve, pausing>>
  BY DEF Close
<1>2. EpisodeDone(adapter)
  BY <1>1, ObservationType, LiveState DEF Inv, Conversation
<1>3. CASE env = "up"
  BY <1>1, <1>2, <1>3, AskKeeps, OpAtFacts, NoRequestType DEF Close
<1>4. CASE env # "up"
  <2>1. pc' = "complete" /\ UNCHANGED <<channel, transcript>>
    BY <1>4 DEF Close
  <2>2. channel = NoRequest /\ NoClose(transcript)
    BY <1>1 DEF Inv, Conversation, Closing, Places
  <2>3. Conversation'
    BY <1>1, <1>2, <2>1, <2>2, ToolStays, StillAdapter, NoRequestType DEF Conversation, OpAt
  <2>4. Closing'
    BY <2>1, <2>2, NoRequestType DEF Closing
  <2> QED BY <1>1, <2>1, <2>3, <2>4, ClientKeeps, LiveState DEF Places
<1> QED BY <1>3, <1>4

LEMMA ReceiveObservationKeeps ==
    ASSUME Inv, ReceiveObservation
    PROVE  Inv'
BY CheckedKeeps DEF ReceiveObservation

LEMMA CurveType ==
    ASSUME Inv, Live, channel.at = "answered"
    PROVE  /\ CurveAfterFailure \in Seq(Nat \X Nat)
           /\ \A k \in Nat : Append(curve, <<Answer.seen.attempts, k>>) \in Seq(Nat \X Nat)
<1>1. Answer.seen.attempts \in Nat /\ curve \in Seq(Nat \X Nat)
  BY AnswerState, LiveState
<1>2. \A k \in Nat : Append(curve, <<Answer.seen.attempts, k>>) \in Seq(Nat \X Nat)
  BY <1>1
<1>3. (IF curve = <<>> THEN 0 ELSE curve[Len(curve)][2]) \in Nat
  BY <1>1
<1> QED BY <1>2, <1>3 DEF CurveAfterFailure

LEMMA ReceiveSettledKeeps ==
    ASSUME Inv, ReceiveSettled
    PROVE  Inv'
<1>1. tools' \in 0 .. MaxTools + MaxRecovery + 1
  BY Naturals1 DEF ReceiveSettled
<1> QED BY <1>1, BackInLoop, CurveType DEF ReceiveSettled

LEMMA ReceiveToolKeeps ==
    ASSUME Inv, ReceiveTool
    PROVE  Inv'
<1>1. /\ Live /\ channel.at = "answered" /\ pc = "tool" /\ tools' = tools + 1
      /\ UNCHANGED <<benchmark, physical, seen, curve, pausing>>
      /\ LogAndAsk("step", "step") \/ LogAndAsk("observe", "observe")
  BY DEF ReceiveTool
<1>2. tools' \in 0 .. MaxTools + MaxRecovery + 1
  BY <1>1, Naturals1, LiveState DEF Inv, Conversation
<1>3. seen' \in Observations /\ curve' \in Seq(Nat \X Nat)
  BY <1>1, LiveState
<1> QED BY <1>1, <1>2, <1>3, LogAndAskKeeps, OpAtFacts

LEMMA ReceiveMadeStepKeeps ==
    ASSUME Inv, ReceiveMadeStep
    PROVE  Inv'
<1>1. /\ Live /\ channel.at = "answered" /\ pc = "step"
      /\ UNCHANGED <<benchmark, physical, pausing>>
  BY DEF ReceiveMadeStep
<1>2. CASE Answer.ok
  <2>1. /\ Logged /\ Observed /\ pc' = "loop" /\ tools' = 0 /\ channel' = NoRequest
        /\ curve' = Append(curve, <<Answer.seen.attempts, Answer.seen.stable>>)
    BY <1>2 DEF ReceiveMadeStep
  <2>2. tools' \in 0 .. MaxTools + MaxRecovery + 1
    BY <2>1, Naturals1
  <2> QED BY <1>1, <2>1, <2>2, BackInLoop, CurveType, AnswerState
<1>3. CASE ~Answer.ok
  <2>1. LogAndAsk("observe", "settle") /\ UNCHANGED <<tools, seen, curve>>
    BY <1>3 DEF ReceiveMadeStep
  <2> QED BY <1>1, <2>1, LogAndAskKeeps, OpAtFacts, LiveState
<1> QED BY <1>2, <1>3

LEMMA ReceiveSiteKeeps ==
    ASSUME Inv, ReceiveSite
    PROVE  Inv'
<1>1. /\ Live /\ channel.at = "answered" /\ pc = "step" /\ Observed /\ UNCHANGED tools
      /\ UNCHANGED <<benchmark, physical, pausing>>
      /\ curve' = IF Answer.seen.final THEN Append(curve, <<Answer.seen.attempts, 0>>) ELSE curve
      /\ (~Made /\ LogAndAsk("reset", "reset")) \/ (Logged /\ pc' = "loop" /\ channel' = NoRequest)
  BY DEF ReceiveSite
<1>2. curve' \in Seq(Nat \X Nat)
  BY <1>1, CurveType, LiveState
<1>3. seen' \in Observations /\ tools' \in 0 .. MaxTools + MaxRecovery + 1
  BY <1>1, AnswerState, LiveState DEF Observed
<1> QED BY <1>1, <1>2, <1>3, LogAndAskKeeps, BackInLoop, OpAtFacts

LEMMA ReceiveFailedSiteKeeps ==
    ASSUME Inv, ReceiveFailedSite
    PROVE  Inv'
BY CheckedKeeps DEF ReceiveFailedSite

LEMMA ReceiveCloseKeeps ==
    ASSUME Inv, ReceiveClose
    PROVE  Inv'
<1>1. /\ Live /\ channel.at = "answered" /\ pc = "close" /\ Logged /\ channel' = NoRequest
      /\ pc' \in {"complete", "raised"}
      /\ UNCHANGED <<benchmark, physical, tools, seen, curve, pausing>>
  BY DEF ReceiveClose
<1>2. transcript' \in Seq(AllRows)
  BY <1>1, AppendRow, AnswerState, LiveState DEF Logged
<1>3. channel.op = "close" /\ EpisodeDone(adapter)
  BY <1>1, OpAtFacts DEF Inv, Conversation
<1>4. Conversation'
  BY <1>1, <1>3, ToolStays, StillAdapter, NoRequestType DEF Conversation, OpAt
<1>5. ~adapter.open
  BY <1>1, <1>3 DEF Inv, Closing
<1>6. Closing'
  BY <1>1, <1>5, StillAdapter, NoRequestType DEF Closing
<1> QED BY <1>1, <1>2, <1>4, <1>6, NoRequestType, ClientKeeps, LiveState DEF Places

LEMMA ClientDiesKeeps ==
    ASSUME Inv, ClientDies
    PROVE  Inv'
<1>1. /\ Live /\ pc' = "killed" /\ UNCHANGED <<tools, seen, curve>>
      /\ UNCHANGED <<benchmark, physical, channel, transcript, pausing>>
  BY DEF ClientDies, Killed
<1>2. LastDir' = LastDir
  BY <1>1 DEF LastDir
<1>3. Conversation'
  BY <1>1, <1>2, ToolStays, StillAdapter DEF Inv, Conversation, OpAt
<1>4. Closing'
  BY <1>1, StillAdapter DEF Inv, Closing
<1> QED BY <1>1, <1>3, <1>4, ClientKeeps, LiveState DEF Places

-----------------------------------------------------------------------------
(* The environment process *)

\* What remains to be shown of a step that works on a request.
LEMMA EnvironmentKeeps ==
    ASSUME Inv, channel.at \in {"sent", "working"}, UNCHANGED <<benchmark, transcript, client, pausing>>,
           adapter' \in States, env' \in {"up", "closed", "dead"}, calls' \in Nat, skipped' \in Nat,
           channel' \in Channels, channel'.at \in {"working", "answered"},
           channel'.op = channel.op, channel'.arg = channel.arg,
           channel'.at = "working" => channel.op = "step" /\ channel'.answer \in Invocations,
           channel'.at = "answered" => /\ channel'.answer \in Answers
                                       /\ channel'.answer.seen = Observation(adapter')
                                       /\ channel.op = "close" => ~adapter'.open,
           adapter'.attempts >= adapter.attempts, ~adapter.open => ~adapter'.open,
           adapter'.attempts = calls', calls' <= Allowed
    PROVE  Inv'
<1>1. UNCHANGED <<benchmark, transcript, pc, tools, seen, curve, stopped, script, pauses, proof>>
  BY DEF client, pausing
<1>2. States' = States /\ OpsOf' = OpsOf /\ Allowed' = Allowed /\ Made' = Made
  BY <1>1 DEF States, OpsOf, Allowed, Made
<1>3. Typed'
  BY <1>1, <1>2 DEF Inv, Typed
<1>4. Accounting'
  BY <1>2 DEF Accounting
<1>5. Observation(adapter)' = Observation(adapter') /\ EpisodeDone(adapter)' = EpisodeDone(adapter')
  BY <1>1 DEF Observation, EpisodeDone, Made
<1>6. EpisodeDone(adapter) => EpisodeDone(adapter)'
  <2>1. PICK a \in States : a = adapter'
    OBVIOUS
  <2>2. adapter \in States
    BY DEF Inv, Typed
  <2>3. /\ EpisodeDone(a) <=> a.attempts >= Allowed
        /\ EpisodeDone(adapter) <=> adapter.attempts >= Allowed
        /\ a.attempts \in Nat /\ adapter.attempts \in Nat
    BY <2>2, ObservationType
  <2> QED BY <1>5, <2>1, <2>3, Naturals1
<1>7. LastDir' = LastDir
  BY <1>1 DEF LastDir
<1>8. pc \notin {"start", "loop", "complete"} /\ LastDir # "response"
  BY NoRequestType DEF Inv, Conversation
<1>9. Conversation'
  <2> HIDE DEF EpisodeDone, Observation
  <2> QED BY ToolStays, <1>1, <1>2, <1>5, <1>6, <1>7, <1>8 DEF Inv, Conversation
<1>10. Closing'
  BY <1>1, <1>8 DEF Inv, Closing
<1>11. Pausing'
  BY <1>1 DEF Inv, Pausing
<1> QED BY <1>3, <1>4, <1>9, <1>10, <1>11 DEF Inv

\* MADE's operators keep an adapter an adapter.
LEMMA MadeToolFacts ==
    ASSUME NEW a \in MadeStates, NEW arg \in Arguments, arg.tool \in {"generate", "select"},
           NEW outcome \in MadeTool(a, arg)
    PROVE  /\ outcome.adapter \in MadeStates /\ outcome.ok \in BOOLEAN
           /\ outcome.adapter.open = a.open /\ outcome.adapter.attempts = a.attempts
           /\ outcome.adapter.stable = a.stable /\ outcome.adapter.faulted = a.faulted
           /\ outcome.ok /\ arg.tool = "select" => outcome.adapter.selected \in Candidates /\ ~MadeDone(a)
<1>1. CASE MadeDone(a)
  <2>1. outcome = [adapter |-> a, ok |-> FALSE]
    BY <1>1 DEF MadeTool
  <2> QED BY <2>1
<1>2. CASE ~MadeDone(a) /\ arg.tool = "generate"
  <2>1. PICK new \in SUBSET Candidates, ok \in BOOLEAN :
           outcome = [adapter |-> [a EXCEPT !.buffer = @ \cup new], ok |-> ok]
    BY <1>2 DEF MadeTool
  <2>2. outcome.adapter = [a EXCEPT !.buffer = a.buffer \cup new] /\ outcome.ok = ok
    BY <2>1
  <2>3. a.buffer \cup new \in SUBSET Candidates
    BY DEF MadeStates
  <2> QED BY <1>2, <2>2, <2>3 DEF MadeStates
<1>3. CASE ~MadeDone(a) /\ arg.tool = "select"
  <2>1. CASE a.selected = None /\ arg.candidate \in a.buffer
    <3> DEFINE taken == [a EXCEPT !.buffer = a.buffer \ {arg.candidate}]
    <3>1. outcome = [adapter |-> [a EXCEPT !.buffer = @ \ {arg.candidate}, !.selected = arg.candidate],
                     ok |-> TRUE]
      BY <1>3, <2>1 DEF MadeTool
    <3>2. outcome.adapter = [taken EXCEPT !.selected = arg.candidate] /\ outcome.ok = TRUE
      BY <3>1 DEF MadeStates
    <3>3. a.buffer \ {arg.candidate} \in SUBSET Candidates /\ arg.candidate \in Candidates
      BY <2>1 DEF MadeStates
    <3>4. /\ taken \in MadeStates /\ taken.open = a.open /\ taken.attempts = a.attempts
          /\ taken.stable = a.stable /\ taken.faulted = a.faulted
      BY <3>3 DEF MadeStates
    <3> HIDE DEF taken
    <3> QED BY <1>3, <3>2, <3>3, <3>4 DEF MadeStates
  <2>2. CASE ~(a.selected = None /\ arg.candidate \in a.buffer)
    <3>1. outcome = [adapter |-> a, ok |-> FALSE]
      BY <1>3, <2>2 DEF MadeTool
    <3> QED BY <3>1
  <2> QED BY <2>1, <2>2
<1> QED BY <1>1, <1>2, <1>3

LEMMA CrystalResetFacts ==
    ASSUME NEW a \in CrystalStates, NEW outcome \in CrystalReset(a)
    PROVE  /\ outcome.adapter \in CrystalStates /\ outcome.ok \in BOOLEAN
           /\ outcome.adapter.open = a.open /\ outcome.adapter.attempts = a.attempts
           /\ outcome.ok => ~outcome.adapter.final /\ ~outcome.adapter.faulted /\ outcome.adapter.filled = 0
<1> DEFINE moved == [a EXCEPT !.episode = a.episode + 1]
           emptied == [moved EXCEPT !.filled = 0]
           unfinished == [emptied EXCEPT !.final = FALSE]
<1>1. outcome \in {[adapter |-> a, ok |-> FALSE], [adapter |-> moved, ok |-> FALSE],
                   [adapter |-> [unfinished EXCEPT !.faulted = FALSE], ok |-> TRUE]}
  BY DEF CrystalReset, CrystalStates
<1>2. moved \in CrystalStates /\ moved.open = a.open /\ moved.attempts = a.attempts
  BY DEF CrystalStates
<1> HIDE DEF moved
<1>3. /\ emptied \in CrystalStates /\ emptied.open = a.open /\ emptied.attempts = a.attempts
      /\ emptied.filled = 0
  BY <1>2 DEF CrystalStates
<1> HIDE DEF emptied
<1>4. /\ unfinished \in CrystalStates /\ unfinished.open = a.open /\ unfinished.attempts = a.attempts
      /\ unfinished.filled = 0 /\ ~unfinished.final
  BY <1>3 DEF CrystalStates
<1> HIDE DEF unfinished
<1>5. CASE outcome \in {[adapter |-> a, ok |-> FALSE], [adapter |-> moved, ok |-> FALSE]}
  <2>1. outcome.adapter \in {a, moved} /\ outcome.ok = FALSE
    BY <1>5
  <2> QED BY <1>2, <2>1
<1>6. CASE outcome = [adapter |-> [unfinished EXCEPT !.faulted = FALSE], ok |-> TRUE]
  <2>1. outcome.adapter = [unfinished EXCEPT !.faulted = FALSE] /\ outcome.ok = TRUE
    BY <1>6
  <2> QED BY <1>4, <2>1 DEF CrystalStates
<1> QED BY <1>1, <1>5, <1>6

\* What dispatch may do to the adapter without a step.
LEMMA OutcomeFacts ==
    ASSUME Inv, channel.at = "sent", NEW outcome \in Outcomes
    PROVE  /\ outcome.adapter \in States /\ outcome.ok \in BOOLEAN
           /\ outcome.adapter.attempts = adapter.attempts
           /\ ~adapter.open => ~outcome.adapter.open
           /\ channel.op = "close" => ~outcome.adapter.open
           /\ channel.op \in {"init", "observe", "step"} => outcome.adapter = adapter
           /\ channel.op = "step" => ~outcome.ok
           /\ channel.op = "tool" /\ ~Refused => Made /\ outcome \in MadeTool(adapter, channel.arg)
           /\ channel.op = "reset" /\ ~Refused => ~Made /\ outcome \in CrystalReset(adapter)
           /\ Refused /\ channel.op # "init" /\ channel.op # "close" => outcome = Unchanged(FALSE)
<1>1. /\ adapter \in States /\ adapter.open \in BOOLEAN /\ channel.op \in OpsOf
      /\ channel.arg \in Arguments /\ ToolNamed
  BY ObservationType DEF Inv, Typed, Conversation, Channels
<1>2. /\ \A ok : Unchanged(ok).adapter = adapter /\ Unchanged(ok).ok = ok
  BY DEF Unchanged
<1> HIDE DEF Unchanged, Refused
<1>3. CASE channel.op = "init"
  <2>1. PICK ok \in BOOLEAN : outcome = Unchanged(ok)
    BY <1>3 DEF Outcomes
  <2> QED BY <1>1, <1>2, <1>3, <2>1
<1>4. CASE channel.op = "close"
  <2>1. PICK ok \in BOOLEAN : outcome = [adapter |-> [adapter EXCEPT !.open = FALSE], ok |-> ok]
    BY <1>4 DEF Outcomes
  <2>2. outcome.adapter = [adapter EXCEPT !.open = FALSE] /\ outcome.ok = ok
    BY <2>1
  <2>3. /\ outcome.adapter \in States /\ ~outcome.adapter.open
        /\ outcome.adapter.attempts = adapter.attempts
    <3>1. CASE Made
      BY <1>1, <2>2, <3>1 DEF States, MadeStates
    <3>2. CASE ~Made
      BY <1>1, <2>2, <3>2 DEF States, CrystalStates
    <3> QED BY <3>1, <3>2
  <2> QED BY <1>4, <2>2, <2>3
<1>5. CASE channel.op \notin {"init", "close"} /\ Refused
  <2>1. outcome = Unchanged(FALSE)
    BY <1>5 DEF Outcomes
  <2> QED BY <1>1, <1>2, <1>5, <2>1
<1>6. CASE channel.op = "observe" /\ ~Refused
  <2>1. outcome = Unchanged(TRUE)
    BY <1>6 DEF Outcomes
  <2> QED BY <1>1, <1>2, <1>6, <2>1
<1>7. CASE channel.op = "tool" /\ ~Refused
  <2>1. Made /\ outcome \in MadeTool(adapter, channel.arg)
    BY <1>1, <1>7 DEF Outcomes, OpsOf
  <2>2. adapter \in MadeStates /\ channel.arg.tool \in {"generate", "select"}
    BY <1>1, <1>7, <2>1 DEF States, ToolNamed, Arguments
  <2>3. /\ outcome.adapter \in MadeStates /\ outcome.ok \in BOOLEAN
        /\ outcome.adapter.open = adapter.open /\ outcome.adapter.attempts = adapter.attempts
    BY <1>1, <2>1, <2>2, MadeToolFacts
  <2> QED BY <1>7, <2>1, <2>3 DEF States
<1>8. CASE channel.op = "reset" /\ ~Refused
  <2>1. ~Made /\ outcome \in CrystalReset(adapter)
    BY <1>1, <1>8 DEF Outcomes, OpsOf
  <2>2. adapter \in CrystalStates
    BY <1>1, <2>1 DEF States
  <2>3. /\ outcome.adapter \in CrystalStates /\ outcome.ok \in BOOLEAN
        /\ outcome.adapter.open = adapter.open /\ outcome.adapter.attempts = adapter.attempts
    BY <2>1, <2>2, CrystalResetFacts
  <2> QED BY <1>8, <2>1, <2>3 DEF States
<1>9. CASE channel.op = "step" /\ ~Refused
  <2>1. outcome = Unchanged(FALSE)
    BY <1>9 DEF Outcomes
  <2> QED BY <1>1, <1>2, <1>9, <2>1
<1> QED BY <1>1, <1>3, <1>4, <1>5, <1>6, <1>7, <1>8, <1>9 DEF OpsOf, Ops

\* The answer that the channel carries.
LEMMA AnsweredFacts ==
    ASSUME channel \in Channels, NEW a \in States, NEW ok \in BOOLEAN, Answered(a, ok)
    PROVE  /\ channel' \in Channels /\ channel'.at = "answered"
           /\ channel'.op = channel.op /\ channel'.arg = channel.arg
           /\ channel'.answer \in Answers /\ channel'.answer.seen = Observation(a)
           /\ channel'.answer.ok = ok
<1> DEFINE w == [ok |-> ok, seen |-> Observation(a)]
<1>1. w \in Answers /\ w.seen = Observation(a) /\ w.ok = ok
  BY ObservationType DEF Answers
<1>2. channel' = [channel EXCEPT !.at = "answered", !.answer = w]
  BY DEF Answered
<1> HIDE DEF w
<1>3. PICK c : c = [channel EXCEPT !.at = "answered"]
  OBVIOUS
<1>4. c \in Channels /\ c.at = "answered" /\ c.op = channel.op /\ c.arg = channel.arg
  BY <1>3, ChannelAt
<1>5. channel' = [c EXCEPT !.answer = w]
  BY <1>2, <1>3 DEF Channels
<1> QED BY <1>1, <1>4, <1>5, ChannelAnswer

LEMMA ServeKeeps ==
    ASSUME Inv, Serve
    PROVE  Inv'
<1>1. /\ env = "up" /\ channel.at = "sent"
      /\ UNCHANGED <<benchmark, calls, skipped, transcript, client, pausing>>
  BY DEF Serve
<1>2. PICK outcome \in Outcomes :
         /\ adapter' = outcome.adapter /\ Answered(outcome.adapter, outcome.ok)
         /\ env' = IF channel.op = "close" /\ outcome.ok THEN "closed" ELSE env
  BY DEF Serve
<1>3. /\ outcome.adapter \in States /\ outcome.ok \in BOOLEAN
      /\ outcome.adapter.attempts = adapter.attempts
      /\ ~adapter.open => ~outcome.adapter.open
      /\ channel.op = "close" => ~outcome.adapter.open
  BY <1>1, OutcomeFacts
<1>4. /\ channel' \in Channels /\ channel'.at = "answered"
      /\ channel'.op = channel.op /\ channel'.arg = channel.arg
      /\ channel'.answer \in Answers /\ channel'.answer.seen = Observation(outcome.adapter)
  BY <1>2, <1>3, AnsweredFacts DEF Inv, Typed
<1>5. env' \in {"up", "closed", "dead"}
  BY <1>1, <1>2
<1>6. calls \in Nat /\ skipped \in Nat /\ adapter.attempts = calls /\ calls <= Allowed
  BY DEF Inv, Typed, Accounting
<1>7. adapter'.attempts >= adapter.attempts
  BY <1>2, <1>3, <1>6
<1> QED BY <1>1, <1>2, <1>3, <1>4, <1>5, <1>6, <1>7, EnvironmentKeeps

\* The adapter of a step that has begun.
Begun(invoked) ==
    IF Made THEN MadeCounted(MadeTaken(adapter), invoked) ELSE CrystalCounted(adapter)

LEMMA BegunFacts ==
    ASSUME adapter \in States, MayStep, NEW invoked \in BOOLEAN, invoked \/ Made
    PROVE  /\ Begun(invoked) \in States /\ Begun(invoked).open = adapter.open
           /\ adapter.attempts < Allowed
           /\ Begun(invoked).attempts =
                 adapter.attempts + (IF invoked /\ (Made \/ CrystalTerminal(adapter)) THEN 1 ELSE 0)
<1>1. adapter.attempts \in Nat /\ adapter.attempts < Allowed
  BY ObservationType, Naturals1 DEF MayStep, MadeMayStep, CrystalMayStep, EpisodeDone
<1>2. CASE Made
  <2> DEFINE taken == MadeTaken(adapter)
  <2>1. adapter \in MadeStates
    BY <1>2 DEF States
  <2>2. taken \in MadeStates /\ taken.open = adapter.open /\ taken.attempts = adapter.attempts
    BY <2>1 DEF MadeTaken, MadeStates
  <2>3. Begun(invoked) = IF invoked THEN [taken EXCEPT !.attempts = taken.attempts + 1] ELSE taken
    BY <1>2, <2>2 DEF Begun, MadeCounted
  <2> HIDE DEF taken
  <2>4. /\ Begun(invoked) \in MadeStates /\ Begun(invoked).open = adapter.open
        /\ Begun(invoked).attempts = adapter.attempts + (IF invoked THEN 1 ELSE 0)
    <3>1. CASE invoked
      BY <1>1, <2>2, <2>3, <3>1 DEF MadeStates
    <3>2. CASE ~invoked
      BY <1>1, <2>2, <2>3, <3>2
    <3> QED BY <3>1, <3>2
  <2> QED BY <1>1, <1>2, <2>4 DEF States
<1>3. CASE ~Made
  <2>1. adapter \in CrystalStates
    BY <1>3 DEF States
  <2>2. Begun(invoked) = IF CrystalTerminal(adapter) THEN [adapter EXCEPT !.attempts = adapter.attempts + 1]
                                                     ELSE adapter
    BY <1>3 DEF Begun, CrystalCounted
  <2> HIDE DEF CrystalTerminal
  <2>3. /\ Begun(invoked) \in CrystalStates /\ Begun(invoked).open = adapter.open
        /\ Begun(invoked).attempts = adapter.attempts + (IF CrystalTerminal(adapter) THEN 1 ELSE 0)
    <3>1. CASE CrystalTerminal(adapter)
      BY <1>1, <2>1, <2>2, <3>1 DEF CrystalStates
    <3>2. CASE ~CrystalTerminal(adapter)
      BY <1>1, <2>1, <2>2, <3>2
    <3> QED BY <3>1, <3>2
  <2> QED BY <1>1, <1>3, <2>3 DEF States
<1> QED BY <1>2, <1>3

LEMMA BeginStepKeeps ==
    ASSUME Inv, BeginStep
    PROVE  Inv'
<1>1. /\ channel.at = "sent" /\ channel.op = "step" /\ MayStep
      /\ UNCHANGED <<benchmark, env, transcript, client, pausing>>
  BY DEF BeginStep
<1>2. PICK invoked \in BOOLEAN :
         /\ invoked \/ (Made /\ skipped < MaxSkips)
         /\ adapter' = Begun(invoked)
         /\ calls' = IF invoked /\ (Made \/ CrystalTerminal(adapter)) THEN calls + 1 ELSE calls
         /\ skipped' = IF invoked THEN skipped ELSE skipped + 1
         /\ channel' = [channel EXCEPT !.at = "working", !.answer = <<invoked>>]
  BY DEF BeginStep, Begun
<1>3. /\ adapter \in States /\ channel \in Channels /\ calls \in Nat /\ skipped \in Nat
      /\ adapter.attempts = calls /\ calls <= Allowed /\ env \in {"up", "closed", "dead"}
  BY DEF Inv, Typed, Accounting
<1>4. /\ Begun(invoked) \in States /\ Begun(invoked).open = adapter.open
      /\ adapter.attempts < Allowed
      /\ Begun(invoked).attempts =
            adapter.attempts + (IF invoked /\ (Made \/ CrystalTerminal(adapter)) THEN 1 ELSE 0)
  BY <1>1, <1>2, <1>3, BegunFacts
<1>5. /\ channel' \in Channels /\ channel'.at = "working"
      /\ channel'.op = channel.op /\ channel'.arg = channel.arg /\ channel'.answer \in Invocations
  <2> DEFINE w == <<invoked>>
  <2>1. w \in Invocations
    BY DEF Invocations
  <2>2. channel' = [channel EXCEPT !.at = "working", !.answer = w]
    BY <1>2
  <2> HIDE DEF w
  <2>3. PICK c : c = [channel EXCEPT !.at = "working"]
    OBVIOUS
  <2>4. c \in Channels /\ c.at = "working" /\ c.op = channel.op /\ c.arg = channel.arg
    BY <1>3, <2>3, ChannelAt
  <2>5. channel' = [c EXCEPT !.answer = w]
    BY <1>3, <2>2, <2>3 DEF Channels
  <2> QED BY <2>1, <2>4, <2>5, ChannelAnswer
<1>6. /\ calls' \in Nat /\ skipped' \in Nat /\ adapter'.attempts = calls' /\ calls' <= Allowed
      /\ adapter'.attempts >= adapter.attempts
  BY <1>2, <1>3, <1>4, Naturals1
<1> QED BY <1>1, <1>2, <1>3, <1>4, <1>5, <1>6, EnvironmentKeeps

\* The adapter of a step that has ended.
Ended(ok, invoked) ==
    CASE ok /\ Made -> MadeMeasured(adapter)
      [] ok /\ ~Made -> CrystalMeasured(adapter)
      [] ~ok /\ Made -> MadeRaised(adapter, invoked)
      [] ~ok /\ ~Made -> CrystalRaised(adapter)

LEMMA EndedFacts ==
    ASSUME adapter \in States, NEW ok \in BOOLEAN, NEW invoked \in BOOLEAN, NEW a \in Ended(ok, invoked)
    PROVE  a \in States /\ a.open = adapter.open /\ a.attempts = adapter.attempts
<1>1. CASE ok /\ Made
  <2>1. PICK found \in {0, 1} : a = [adapter EXCEPT !.stable = @ + found]
    BY <1>1 DEF Ended, MadeMeasured
  <2> QED BY <1>1, <2>1 DEF States, MadeStates
<1>2. CASE ok /\ ~Made
  <2> DEFINE filled == [adapter EXCEPT !.filled = adapter.filled + 1]
             terminal == CrystalTerminal(adapter)
  <2>1. adapter \in CrystalStates
    BY <1>2 DEF States
  <2>2. terminal \in BOOLEAN
    BY DEF CrystalTerminal
  <2>3. a = [filled EXCEPT !.final = terminal]
    BY <1>2, <2>1 DEF Ended, CrystalMeasured, CrystalStates
  <2>4. filled \in CrystalStates /\ filled.open = adapter.open /\ filled.attempts = adapter.attempts
    BY <2>1 DEF CrystalStates
  <2> HIDE DEF filled, terminal
  <2> QED BY <1>2, <2>2, <2>3, <2>4 DEF States, CrystalStates
<1>3. CASE ~ok /\ Made
  <2>1. PICK fault \in BOOLEAN : a = [adapter EXCEPT !.faulted = fault]
    BY <1>3 DEF Ended, MadeRaised
  <2> QED BY <1>3, <2>1 DEF States, MadeStates
<1>4. CASE ~ok /\ ~Made
  <2>1. a = [adapter EXCEPT !.faulted = TRUE]
    BY <1>4 DEF Ended, CrystalRaised
  <2> QED BY <1>4, <2>1 DEF States, CrystalStates
<1> QED BY <1>1, <1>2, <1>3, <1>4

LEMMA EndStepKeeps ==
    ASSUME Inv, EndStep
    PROVE  Inv'
<1>1. /\ env = "up" /\ channel.at = "working"
      /\ UNCHANGED <<benchmark, env, calls, skipped, transcript, client, pausing>>
  BY DEF EndStep
<1>2. channel.op = "step" /\ channel.answer[1] \in BOOLEAN
  <2>1. PICK invoked \in BOOLEAN : channel.answer = <<invoked>>
    BY <1>1 DEF Inv, Conversation, Invocations
  <2> QED BY <1>1, <2>1 DEF Inv, Conversation
<1> PICK ok \in BOOLEAN : \E a \in Ended(ok, channel.answer[1]) : adapter' = a /\ Answered(a, ok)
  BY DEF EndStep, Ended
<1>3. PICK a \in Ended(ok, channel.answer[1]) : adapter' = a /\ Answered(a, ok)
  OBVIOUS
<1>4. /\ adapter \in States /\ channel \in Channels /\ calls \in Nat /\ skipped \in Nat
      /\ adapter.attempts = calls /\ calls <= Allowed
  BY DEF Inv, Typed, Accounting
<1>5. a \in States /\ a.open = adapter.open /\ a.attempts = adapter.attempts
  BY <1>2, <1>4, EndedFacts
<1>6. /\ channel' \in Channels /\ channel'.at = "answered"
      /\ channel'.op = channel.op /\ channel'.arg = channel.arg
      /\ channel'.answer \in Answers /\ channel'.answer.seen = Observation(a)
  BY <1>3, <1>4, <1>5, AnsweredFacts
<1> QED BY <1>1, <1>2, <1>3, <1>4, <1>5, <1>6, EnvironmentKeeps

LEMMA EnvironmentExitsKeeps ==
    ASSUME Inv, EnvironmentExits
    PROVE  Inv'
<1>1. /\ env' = "dead"
      /\ UNCHANGED <<benchmark, adapter, calls, skipped, channel, transcript, pc, tools, seen, curve,
                     stopped, script, pauses, proof>>
  BY DEF EnvironmentExits, client, pausing
<1>2. /\ States' = States /\ OpsOf' = OpsOf /\ Allowed' = Allowed /\ LastDir' = LastDir
      /\ Observation(adapter)' = Observation(adapter) /\ EpisodeDone(adapter)' = EpisodeDone(adapter)
  BY <1>1 DEF States, OpsOf, Allowed, Made, LastDir, Observation, EpisodeDone
<1>3. Typed' /\ Accounting'
  BY <1>1, <1>2 DEF Inv, Typed, Accounting
<1>4. Conversation'
  BY <1>1, <1>2, ToolStays DEF Inv, Conversation
<1>5. Closing' /\ Pausing'
  BY <1>1 DEF Inv, Closing, Pausing
<1> QED BY <1>3, <1>4, <1>5 DEF Inv

-----------------------------------------------------------------------------
(* The pause script *)

\* What remains to be shown of a step of the script that leaves the rollout
\* where it stands.
LEMMA ScriptKeeps ==
    ASSUME Inv, UNCHANGED <<benchmark, physical, channel, transcript, client>>,
           stopped' \in BOOLEAN, script' \in Scripts, pauses' \in 0 .. MaxPauses, proof' \in Nat, Pausing'
    PROVE  Inv'
<1>1. UNCHANGED <<benchmark, adapter, env, calls, skipped, channel, transcript, pc, tools, seen, curve>>
  BY DEF physical, client
<1>2. /\ States' = States /\ OpsOf' = OpsOf /\ Allowed' = Allowed /\ LastDir' = LastDir
      /\ Observation(adapter)' = Observation(adapter) /\ EpisodeDone(adapter)' = EpisodeDone(adapter)
  BY <1>1 DEF States, OpsOf, Allowed, Made, LastDir, Observation, EpisodeDone
<1>3. Typed' /\ Accounting' /\ Closing'
  BY <1>1, <1>2 DEF Inv, Typed, Accounting, Closing
<1>4. Conversation'
  BY <1>1, <1>2, ToolStays DEF Inv, Conversation
<1> QED BY <1>3, <1>4 DEF Inv

LEMMA StopKeeps ==
    ASSUME Inv, Stop
    PROVE  Inv'
<1>1. /\ script = "watch" /\ pauses < MaxPauses
      /\ UNCHANGED <<benchmark, physical, channel, transcript, client, proof>>
      /\ \/ script' = "failed" /\ UNCHANGED <<stopped, pauses>>
         \/ script' = "stopped" /\ stopped' = TRUE /\ pauses' = pauses + 1
  BY DEF Stop, UnchangedByScript
<1>2. stopped' \in BOOLEAN /\ script' \in Scripts /\ pauses' \in 0 .. MaxPauses /\ proof' \in Nat
  <2>1. stopped \in BOOLEAN /\ pauses \in 0 .. MaxPauses /\ proof \in Nat
    BY DEF Inv, Typed
  <2>2. pauses' \in 0 .. MaxPauses /\ proof' \in Nat /\ script' \in Scripts
    BY <1>1, <2>1, Naturals1 DEF Scripts
  <2>3. stopped' \in BOOLEAN
    BY <1>1, <2>1
  <2> QED BY <2>2, <2>3
<1>3. Pausing'
  BY <1>1 DEF Inv, Pausing
<1> QED BY <1>1, <1>2, <1>3, ScriptKeeps

\* At a boundary no request is in progress.
LEMMA BoundaryIsQuiet ==
    ASSUME Inv, Boundary(transcript)
    PROVE  channel.at = "none"
BY DEF Boundary, Inv, Conversation, LastDir

LEMMA VerifyKeeps ==
    ASSUME Inv, Verify
    PROVE  Inv'
<1>1. /\ script = "stopped" /\ UNCHANGED <<benchmark, physical, channel, transcript, client, pauses>>
      /\ \/ /\ Boundary(transcript) /\ script' = "verified" /\ proof' = Len(transcript)
            /\ UNCHANGED stopped
         \/ script' = "watch" /\ stopped' = FALSE /\ UNCHANGED proof
  BY DEF Verify, UnchangedByScript, Recheck
<1>2. stopped' \in BOOLEAN /\ script' \in Scripts /\ pauses' \in 0 .. MaxPauses /\ proof' \in Nat
  <2>1. /\ stopped \in BOOLEAN /\ pauses \in 0 .. MaxPauses /\ proof \in Nat
        /\ Len(transcript) \in Nat
    BY DEF Inv, Typed
  <2> HIDE DEF Boundary
  <2> QED BY <1>1, <2>1 DEF Scripts
<1>3. Pausing'
  BY <1>1, BoundaryIsQuiet DEF Inv, Pausing
<1> QED BY <1>1, <1>2, <1>3, ScriptKeeps

LEMMA AbandonKeeps ==
    ASSUME Inv, Abandon
    PROVE  Inv'
<1>1. /\ script' = "failed" /\ stopped' = FALSE
      /\ UNCHANGED <<benchmark, physical, channel, transcript, client, pauses, proof>>
  BY DEF Abandon, Continue, UnchangedByScript
<1>2. stopped' \in BOOLEAN /\ script' \in Scripts /\ pauses' \in 0 .. MaxPauses /\ proof' \in Nat
  BY <1>1 DEF Inv, Typed, Scripts
<1> QED BY <1>1, <1>2, ScriptKeeps DEF Pausing

LEMMA ArchiveKeeps ==
    ASSUME Inv, Archive
    PROVE  Inv'
<1>1. /\ script' \in {"archived", "failed"}
      /\ UNCHANGED <<benchmark, physical, channel, transcript, client, stopped, pauses, proof>>
  BY DEF Archive, UnchangedByScript
<1>2. stopped' \in BOOLEAN /\ script' \in Scripts /\ pauses' \in 0 .. MaxPauses /\ proof' \in Nat
  BY <1>1 DEF Inv, Typed, Scripts
<1> QED BY <1>1, <1>2, ScriptKeeps DEF Pausing

LEMMA TerminateKeeps ==
    ASSUME Inv, Terminate
    PROVE  Inv'
<1>1. /\ script = "verified" /\ script' = "terminated" /\ stopped' = FALSE /\ pc' = "killed"
      /\ UNCHANGED <<benchmark, adapter, env, calls, skipped, channel, transcript, tools, seen, curve, pauses, proof>>
  BY DEF Terminate, Killed, UnchangedByScript, physical
<1>2. /\ States' = States /\ OpsOf' = OpsOf /\ Allowed' = Allowed /\ LastDir' = LastDir
      /\ Observation(adapter)' = Observation(adapter) /\ EpisodeDone(adapter)' = EpisodeDone(adapter)
  BY <1>1 DEF States, OpsOf, Allowed, Made, LastDir, Observation, EpisodeDone
<1>3. Typed' /\ Accounting'
  BY <1>1, <1>2 DEF Inv, Typed, Accounting, Places, Scripts
<1>4. Conversation'
  BY <1>1, <1>2, ToolStays DEF Inv, Conversation, OpAt
<1>5. Closing' /\ Pausing'
  BY <1>1 DEF Inv, Closing, Pausing
<1> QED BY <1>3, <1>4, <1>5 DEF Inv

-----------------------------------------------------------------------------
(* The theorems *)

LEMMA InitKeeps ==
    ASSUME Init
    PROVE  Inv
<1>1. /\ benchmark \in {"made", "crystalgym"} /\ adapter = (IF Made THEN MadeNew ELSE CrystalNew)
      /\ env = "up" /\ channel = NoRequest /\ transcript = <<>> /\ pc = "start" /\ tools = 0
      /\ curve = <<>> /\ seen = Observation(adapter) /\ calls = 0 /\ skipped = 0
      /\ stopped = FALSE /\ script \in {"watch", "off"} /\ pauses = 0 /\ proof = 0
  BY DEF Init
<1>2. adapter \in States /\ adapter.attempts = 0
  BY <1>1 DEF States, MadeNew, CrystalNew, MadeStates, CrystalStates
<1>3. seen \in Observations
  BY <1>1, <1>2, ObservationType
<1>4. Typed
  <2>1. transcript \in Seq(AllRows) /\ curve \in Seq(Nat \X Nat)
    BY <1>1
  <2>2. channel \in Channels
    BY <1>1, NoRequestType
  <2>3. tools \in 0 .. MaxTools + MaxRecovery + 1 /\ pauses \in 0 .. MaxPauses
    BY <1>1, Naturals1
  <2> QED BY <1>1, <1>2, <1>3, <2>1, <2>2, <2>3 DEF Typed, Places, Scripts
<1>5. Accounting
  BY <1>1, <1>2, Naturals1 DEF Accounting
<1>6. Conversation
  BY <1>1, NoRequestType DEF Conversation, ToolNamed, OpAt
<1>7. Closing
  <2>1. NoClose(transcript)
    BY <1>1 DEF NoClose
  <2> QED BY <1>1, <2>1, NoRequestType DEF Closing
<1>8. Pausing
  BY <1>1 DEF Pausing
<1> QED BY <1>4, <1>5, <1>6, <1>7, <1>8 DEF Inv

LEMMA NextKeeps ==
    ASSUME Inv, [Next]_vars
    PROVE  Inv'
<1>1. CASE EnvironmentStep
  BY <1>1, ServeKeeps, BeginStepKeeps, EndStepKeeps, EnvironmentExitsKeeps DEF EnvironmentStep
<1>2. CASE ClientStep
  BY <1>2, StartKeeps, SendKeeps, GivingUpKeeps, NoValidActionKeeps, CallToolKeeps, FillSiteKeeps,
     CloseKeeps, ReceiveObservationKeeps, ReceiveSettledKeeps, ReceiveToolKeeps, ReceiveMadeStepKeeps,
     ReceiveSiteKeeps, ReceiveFailedSiteKeeps, ReceiveCloseKeeps DEF ClientStep
<1>3. CASE ClientDies
  BY <1>3, ClientDiesKeeps
<1>4. CASE ScriptStep
  BY <1>4, StopKeeps, VerifyKeeps, AbandonKeeps, TerminateKeeps, ArchiveKeeps DEF ScriptStep
<1>5. CASE UNCHANGED vars
  <2>1. UNCHANGED <<benchmark, physical, channel, transcript, client, stopped, script, pauses, proof>>
    BY <1>5 DEF vars, pausing
  <2>2. pc' = pc
    BY <2>1 DEF client
  <2>3. Pausing'
    BY <2>1, <2>2 DEF Inv, Pausing
  <2> QED BY <2>1, <2>3, ScriptKeeps DEF Inv, Typed
<1> QED BY <1>1, <1>2, <1>3, <1>4, <1>5 DEF Next

\* The conversation of the client and the environment keeps the invariant,
\* whatever the policy, the oracle, the two processes and the script do.
THEOREM RolloutKeepsInv == Spec => []Inv
<1>1. Init => Inv
  BY InitKeeps
<1>2. Inv /\ [Next]_vars => Inv'
  BY NextKeeps
<1> QED BY <1>1, <1>2, PTL DEF Spec

\* An episode never begins more physical evaluations than its budget, however
\* often its calls raise, are refused or come too late.
THEOREM BudgetIsKept == Spec => []BudgetKept
<1>1. Inv => BudgetKept
  BY DEF Inv, Typed, Accounting, Allowed, BudgetKept, TypeOK, Channels
<1> QED BY <1>1, RolloutKeepsInv, PTL

\* A transcript that training_jobs.py accepts was left by a closed session
\* that has nothing in progress and evaluated exactly the budget.
THEOREM AcceptedWasPhysical == Spec => []AcceptedIsPhysical
<1>1. ASSUME Inv, Accepted
      PROVE  /\ ~adapter.open /\ channel.at = "none"
             /\ calls = Allowed /\ adapter.attempts = calls
  <2>1. pc = "complete" /\ Paired(transcript)
    BY <1>1 DEF Accepted
  <2>2. /\ Len(transcript) \in Nat /\ Len(transcript) >= 2 /\ Len(transcript) % 2 = 0
        /\ DOMAIN transcript = 1 .. Len(transcript)
    BY <1>1, <2>1 DEF Inv, Typed, Paired
  <2>3. /\ Len(transcript) - 1 \in DOMAIN transcript /\ (Len(transcript) - 1) % 2 = 1
    BY <2>2
  <2>4. /\ transcript[Len(transcript) - 1].dir = "request" /\ transcript[Len(transcript) - 1].op = "close"
    BY <2>1, <2>3 DEF Paired
  <2>5. ~NoClose(transcript)
    BY <2>3, <2>4 DEF NoClose
  <2>6. ~adapter.open /\ channel.at = "none" /\ EpisodeDone(adapter)
    BY <1>1, <2>1, <2>5 DEF Inv, Closing, Conversation
  <2>7. adapter.attempts >= Allowed /\ adapter.attempts = calls /\ calls <= Allowed /\ calls \in Nat
    BY <1>1, <2>6, ObservationType DEF Inv, Typed, Accounting
  <2> QED BY <2>6, <2>7, Naturals1
<1>2. Inv => AcceptedIsPhysical
  BY <1>1 DEF AcceptedIsPhysical, Allowed
<1> QED BY <1>2, RolloutKeepsInv, PTL

\* From the script's second look on, no evaluation begins and no row is
\* written, although the environment was never stopped.
THEOREM VerifiedIsQuiet == Spec => PausedIsQuiet
<1>1. ASSUME Inv, [Next]_vars
      PROVE  [(script \in {"verified", "terminated"} /\ script' # "failed") => Quiet]_vars
  <2> SUFFICES ASSUME Next, script \in {"verified", "terminated"}, script' # "failed"
               PROVE  Quiet
    BY <1>1
  <2>1. channel.at = "none" /\ ~Live
    BY <1>1 DEF Inv, Pausing, Live
  <2>2. ~ClientStep /\ ~ClientDies
    BY <2>1 DEF ClientStep, ClientDies, Start, Send, TimeOut, EndOfFile, Waiting, NoValidAction, CallTool,
           FillSite, Deciding, RolloutRaises, Close, ReceiveObservation, ReceiveSettled, ReceiveTool,
           ReceiveMadeStep, ReceiveSite, ReceiveFailedSite, ReceiveClose
  <2>3. CASE EnvironmentStep
    BY <2>1, <2>3 DEF EnvironmentStep, Serve, BeginStep, EndStep, EnvironmentExits, Quiet
  <2>4. CASE ScriptStep
    BY <2>1, <2>4 DEF ScriptStep, Stop, Verify, Abandon, Terminate, Archive, UnchangedByScript, physical, Quiet
  <2> QED BY <2>2, <2>3, <2>4 DEF Next
<1> QED BY <1>1, RolloutKeepsInv, PTL DEF Spec, PausedIsQuiet

-----------------------------------------------------------------------------
(* A rollout that completes has evidence *)

Going == pc \notin {"raised", "killed"}

\* Rows come in pairs, of which the last may lack its answer.
Alternates(t) ==
    /\ \A i \in DOMAIN t : t[i].dir = IF i % 2 = 1 THEN "request" ELSE "response"
    /\ \A i \in DOMAIN t : i % 2 = 0 => t[i].id = t[i - 1].id
    /\ Len(t) >= 1 => t[1].op = "init"
    /\ Len(t) >= 2 => t[2].ok

CloseWasOk(t) == Len(t) >= 2 /\ t[Len(t) - 1].op = "close" /\ t[Len(t)].ok

\* Every request has its answer, or all but the last have.
AllPaired(t) == Alternates(t) /\ Len(t) % 2 = 0

AskedLast(t, op) ==
    /\ Alternates(t) /\ Len(t) % 2 = 1
    /\ t[Len(t)].op = op /\ t[Len(t)].id = Cardinality(Rows(t, "request")) - 1

Pairs ==
    /\ IF channel.at = "none" THEN AllPaired(transcript) ELSE AskedLast(transcript, channel.op)
    /\ pc = "start" => Len(transcript) = 0
    /\ pc = "init" => Len(transcript) = 1
    /\ pc \notin {"start", "init"} => Len(transcript) >= 2
    /\ env = "closed" => \/ pc = "close" /\ channel.at = "answered" /\ Answer.ok
                         \/ pc = "complete" /\ CloseWasOk(transcript)

\* The steps of t that found stable structures.
Fruitful(t) == {j \in StepsOf(t) : j < Len(t) /\ t[j + 1].ok}

\* v is what the steps in S brought the count to.
Brought(t, S, v) ==
    /\ v = 0 \/ \E j \in Fruitful(t) \cap S : t[j + 1].stable = v
    /\ \A j \in Fruitful(t) \cap S : t[j + 1].stable <= v

Latest(c) == IF c = <<>> THEN 0 ELSE c[Len(c)][2]

\* The step that is not yet in the curve.
Unsettled == CASE pc = "step" -> {Len(transcript)}
               [] pc = "settle" -> {Len(transcript) - 2}
               [] OTHER -> {}

Recorded(t, c, i) ==
    LET k == Cardinality(Upto(t, i))
    IN  k \in 1 .. Len(c) /\ c[k][1] = k /\ Brought(t, Upto(t, i), c[k][2])

\* What MadeEvidence will ask of t and c, save for the steps in U.
Book(t, c, U, stable) ==
    /\ \A i \in StepsOf(t) : i < Len(t) => t[i + 1].attempts = Cardinality(Upto(t, i))
    /\ \A i \in StepsOf(t) \ U : Recorded(t, c, i)
    /\ Brought(t, StepsOf(t), Latest(c))
    /\ \A j \in Fruitful(t) : t[j + 1].stable \in 0 .. stable

Asked == channel.at \in {"logged", "sent"}

Selected == pc = "tool" /\ channel.at = "answered" /\ Answer.ok /\ channel.arg.tool = "select"

MadeTrace ==
    /\ pc # "reset"
    /\ (pc = "step" /\ Asked) \/ Selected => MayStep
    /\ Cardinality(StepsOf(transcript)) = calls + (IF pc = "step" /\ Asked THEN 1 ELSE 0)
    /\ Cardinality(StepsOf(transcript)) = Len(curve) + (IF pc \in {"step", "settle"} THEN 1 ELSE 0)
    /\ Book(transcript, curve, Unsettled, adapter.stable)
    /\ pc = "settle" => /\ Len(transcript) >= 3 /\ Len(transcript) - 2 \in StepsOf(transcript)
                        /\ ~transcript[Len(transcript) - 1].ok

\* The steps of t that completed a crystal.
Completed(t) == {i \in StepsOf(t) : i < Len(t) /\ t[i + 1].final}

Starts(t) == {j \in Rows(t, "request") : t[j].op \in {"init", "reset"}}

\* The answer to the last start before row k told n attempts.
BaseOf(t, k, n) ==
    \E j \in Starts(t) : /\ j < k - 1 /\ t[j + 1].attempts = n
                         /\ \A h \in Starts(t) : h < k => h <= j

\* What CrystalEvidence will ask of t and c.
Session(t, c) ==
    /\ \A i \in Rows(t, "request") : t[i].op \in {"step", "reset"} /\ i < Len(t) => t[i + 1].ok
    /\ Cardinality(Completed(t)) = Len(c)
    /\ \A i \in Completed(t) : BaseOf(t, i, t[i + 1].attempts - 1)

CrystalTrace ==
    /\ pc \notin {"tool", "observe", "settle"}
    /\ Session(transcript, curve)
    /\ pc # "step" \/ Asked => calls = Len(curve)
    /\ pc = "step" /\ channel.at = "working" =>
          calls = Len(curve) + (IF CrystalTerminal(adapter) THEN 1 ELSE 0)
    /\ pc = "step" /\ channel.at = "answered" /\ Answer.ok =>
          calls = Len(curve) + (IF adapter.final THEN 1 ELSE 0)
    /\ pc = "step" => BaseOf(transcript, Len(transcript), Len(curve))
    /\ pc = "loop" /\ ~EpisodeDone(adapter) => BaseOf(transcript, Len(transcript) + 1, Len(curve))

Trace == Going => /\ Pairs
                  /\ skipped = 0 => IF Made THEN MadeTrace ELSE CrystalTrace

-----------------------------------------------------------------------------
(* Rows that are appended *)

AllAnswered(t) == \A i \in StepsOf(t) : i < Len(t)

\* u says of the steps of t what t says.
NoNews(t, u) ==
    /\ StepsOf(u) = StepsOf(t) /\ Fruitful(u) = Fruitful(t) /\ Completed(u) = Completed(t)
    /\ \A i \in StepsOf(t) : i < Len(t) /\ i < Len(u) /\ u[i + 1] = t[i + 1]
    /\ \A i \in StepsOf(t) : Upto(u, i) = Upto(t, i)

\* u is t with the request of a step.
StepAdded(t, u) ==
    /\ StepsOf(u) = StepsOf(t) \cup {Len(u)} /\ Len(u) \notin StepsOf(t)
    /\ Cardinality(StepsOf(u)) = Cardinality(StepsOf(t)) + 1
    /\ Fruitful(u) = Fruitful(t) /\ Completed(u) = Completed(t)
    /\ \A i \in StepsOf(t) : i < Len(t) /\ i < Len(u) /\ u[i + 1] = t[i + 1]
    /\ \A i \in StepsOf(t) : Upto(u, i) = Upto(t, i)

\* u is t with r, the answer to the step that t ends with.
AnswerAdded(t, u, r) ==
    /\ StepsOf(u) = StepsOf(t) /\ AllAnswered(u) /\ u[Len(t) + 1] = r
    /\ \A i \in StepsOf(t) : Upto(u, i) = Upto(t, i)
    /\ \A i \in StepsOf(t) \ {Len(t)} : i < Len(t) /\ u[i + 1] = t[i + 1]
    /\ Upto(t, Len(t)) = StepsOf(t)
    /\ Fruitful(u) = Fruitful(t) \cup (IF r.ok THEN {Len(t)} ELSE {})
    /\ Completed(u) = Completed(t) \cup (IF r.final THEN {Len(t)} ELSE {})
    /\ Len(t) \notin Fruitful(t) /\ Len(t) \notin Completed(t)

LEMMA StepsFacts ==
    ASSUME NEW t \in Seq(AllRows)
    PROVE  /\ StepsOf(t) \subseteq 1 .. Len(t) /\ Len(t) \in Nat /\ DOMAIN t = 1 .. Len(t)
           /\ IsFiniteSet(StepsOf(t)) /\ Cardinality(StepsOf(t)) \in Nat
           /\ \A i : /\ Upto(t, i) \subseteq StepsOf(t) /\ IsFiniteSet(Upto(t, i))
                     /\ Cardinality(Upto(t, i)) \in Nat
                     /\ Cardinality(Upto(t, i)) <= Cardinality(StepsOf(t))
           /\ Completed(t) \subseteq StepsOf(t) /\ Fruitful(t) \subseteq StepsOf(t)
           /\ IsFiniteSet(Completed(t)) /\ Cardinality(Completed(t)) \in Nat
<1>1. Len(t) \in Nat /\ DOMAIN t = 1 .. Len(t)
  OBVIOUS
<1>2. StepsOf(t) \subseteq 1 .. Len(t)
  BY <1>1 DEF StepsOf, Rows
<1>3. IsFiniteSet(StepsOf(t))
  <2>1. IsFiniteSet(1 .. Len(t))
    BY <1>1, FS_Interval
  <2> QED BY <1>2, <2>1, FS_Subset
<1>4. /\ \A i : Upto(t, i) \subseteq StepsOf(t)
      /\ Completed(t) \subseteq StepsOf(t) /\ Fruitful(t) \subseteq StepsOf(t)
  BY DEF Upto, Completed, Fruitful
<1> QED BY <1>1, <1>2, <1>3, <1>4, FS_Subset, FS_CardinalityType

LEMMA QuietRow ==
    ASSUME NEW t \in Seq(AllRows), NEW r \in AllRows, NEW u, u = Append(t, r), AllAnswered(t),
           r.dir = "request" => r.op # "step"
    PROVE  NoNews(t, u) /\ AllAnswered(u)
<1>1. /\ u \in Seq(AllRows) /\ Len(t) \in Nat /\ Len(u) = Len(t) + 1
      /\ DOMAIN t = 1 .. Len(t) /\ DOMAIN u = 1 .. Len(u)
      /\ u[Len(u)] = r /\ \A i \in 1 .. Len(t) : u[i] = t[i]
  BY AppendRow
<1>2. StepsOf(t) \subseteq 1 .. Len(t) /\ StepsOf(u) \subseteq 1 .. Len(u)
  BY <1>1, StepsFacts
<1>3. StepsOf(u) = StepsOf(t)
  <2>1. ASSUME NEW i \in StepsOf(u)
        PROVE  i \in StepsOf(t)
    <3>1. i # Len(u)
      BY <1>1, <2>1 DEF StepsOf, Rows
    <3>2. i \in 1 .. Len(t)
      BY <1>1, <1>2, <3>1
    <3> QED BY <1>1, <3>2 DEF StepsOf, Rows
  <2>2. ASSUME NEW i \in StepsOf(t)
        PROVE  i \in StepsOf(u)
    <3>1. i \in 1 .. Len(t) /\ i \in 1 .. Len(u)
      BY <1>1, <1>2
    <3> QED BY <1>1, <3>1 DEF StepsOf, Rows
  <2> QED BY <2>1, <2>2
<1>4. \A i \in StepsOf(t) : i \in Nat /\ i < Len(t) /\ i < Len(u) /\ u[i + 1] = t[i + 1]
  <2> TAKE i \in StepsOf(t)
  <2>1. i \in 1 .. Len(t) /\ i < Len(t)
    BY <1>2 DEF AllAnswered
  <2> QED BY <1>1, <2>1
<1>5. Fruitful(u) = Fruitful(t) /\ Completed(u) = Completed(t)
  BY <1>3, <1>4 DEF Fruitful, Completed
<1>6. \A i \in StepsOf(t) : Upto(u, i) = Upto(t, i)
  BY <1>3 DEF Upto
<1> QED BY <1>3, <1>4, <1>5, <1>6 DEF NoNews, AllAnswered

LEMMA StepRow ==
    ASSUME NEW t \in Seq(AllRows), NEW r \in AllRows, NEW u, u = Append(t, r), AllAnswered(t),
           r.dir = "request", r.op = "step"
    PROVE  StepAdded(t, u)
<1>1. /\ u \in Seq(AllRows) /\ Len(t) \in Nat /\ Len(u) = Len(t) + 1
      /\ DOMAIN t = 1 .. Len(t) /\ DOMAIN u = 1 .. Len(u)
      /\ u[Len(u)] = r /\ \A i \in 1 .. Len(t) : u[i] = t[i]
  BY AppendRow
<1>2. StepsOf(t) \subseteq 1 .. Len(t) /\ StepsOf(u) \subseteq 1 .. Len(u) /\ IsFiniteSet(StepsOf(t))
  BY <1>1, StepsFacts
<1>3. StepsOf(u) = StepsOf(t) \cup {Len(u)}
  <2>1. ASSUME NEW i \in StepsOf(u), i # Len(u)
        PROVE  i \in StepsOf(t)
    <3>1. i \in 1 .. Len(t)
      BY <1>1, <1>2, <2>1
    <3> QED BY <1>1, <3>1 DEF StepsOf, Rows
  <2>2. ASSUME NEW i \in StepsOf(t)
        PROVE  i \in StepsOf(u)
    <3>1. i \in 1 .. Len(t) /\ i \in 1 .. Len(u)
      BY <1>1, <1>2
    <3> QED BY <1>1, <3>1 DEF StepsOf, Rows
  <2>3. Len(u) \in StepsOf(u)
    BY <1>1 DEF StepsOf, Rows
  <2> QED BY <2>1, <2>2, <2>3
<1>4. Len(u) \notin StepsOf(t)
  BY <1>1, <1>2
<1>5. \A i \in StepsOf(t) : i \in Nat /\ i < Len(t) /\ i < Len(u) /\ u[i + 1] = t[i + 1]
  <2> TAKE i \in StepsOf(t)
  <2>1. i \in 1 .. Len(t) /\ i < Len(t)
    BY <1>2 DEF AllAnswered
  <2> QED BY <1>1, <2>1
<1>6. Fruitful(u) = Fruitful(t) /\ Completed(u) = Completed(t)
  <2>1. \A i \in StepsOf(u) : i < Len(u) => i \in StepsOf(t)
    BY <1>1, <1>3
  <2> QED BY <1>3, <1>5, <2>1 DEF Fruitful, Completed
<1>7. \A i \in StepsOf(t) : Upto(u, i) = Upto(t, i)
  <2> TAKE i \in StepsOf(t)
  <2>1. ~(Len(u) <= i)
    BY <1>1, <1>5
  <2> QED BY <1>3, <2>1 DEF Upto
<1>8. Cardinality(StepsOf(u)) = Cardinality(StepsOf(t)) + 1
  BY <1>2, <1>3, <1>4, FS_AddElement
<1> QED BY <1>3, <1>4, <1>5, <1>6, <1>7, <1>8 DEF StepAdded

LEMMA AnswerRow ==
    ASSUME NEW t \in Seq(AllRows), NEW r \in AllRows, NEW u, u = Append(t, r),
           r.dir = "response", Len(t) \in StepsOf(t)
    PROVE  AnswerAdded(t, u, r)
<1>1. /\ u \in Seq(AllRows) /\ Len(t) \in Nat /\ Len(u) = Len(t) + 1
      /\ DOMAIN t = 1 .. Len(t) /\ DOMAIN u = 1 .. Len(u)
      /\ u[Len(u)] = r /\ \A i \in 1 .. Len(t) : u[i] = t[i]
  BY AppendRow
<1>2. StepsOf(t) \subseteq 1 .. Len(t) /\ StepsOf(u) \subseteq 1 .. Len(u)
  BY <1>1, StepsFacts
<1>3. StepsOf(u) = StepsOf(t)
  <2>1. ASSUME NEW i \in StepsOf(u)
        PROVE  i \in StepsOf(t)
    <3>1. i # Len(u)
      BY <1>1, <2>1 DEF StepsOf, Rows
    <3>2. i \in 1 .. Len(t)
      BY <1>1, <1>2, <3>1
    <3> QED BY <1>1, <3>2 DEF StepsOf, Rows
  <2>2. ASSUME NEW i \in StepsOf(t)
        PROVE  i \in StepsOf(u)
    <3>1. i \in 1 .. Len(t) /\ i \in 1 .. Len(u)
      BY <1>1, <1>2
    <3> QED BY <1>1, <3>1 DEF StepsOf, Rows
  <2> QED BY <2>1, <2>2
<1>4. \A i \in StepsOf(t) \ {Len(t)} : i < Len(t) /\ u[i + 1] = t[i + 1]
  <2> TAKE i \in StepsOf(t) \ {Len(t)}
  <2>1. i \in 1 .. Len(t) /\ i # Len(t)
    BY <1>2
  <2>2. Len(t) \in Nat
    OBVIOUS
  <2>3. i < Len(t) /\ i + 1 \in 1 .. Len(t)
    BY <2>1, <2>2
  <2> QED BY <1>1, <2>3
<1>5. AllAnswered(u)
  BY <1>1, <1>2, <1>3 DEF AllAnswered
<1>6. u[Len(t) + 1] = r
  BY <1>1
<1>7. \A i \in StepsOf(t) : Upto(u, i) = Upto(t, i)
  BY <1>3 DEF Upto
<1>8. Upto(t, Len(t)) = StepsOf(t)
  <2>1. \A i \in StepsOf(t) : i <= Len(t)
    BY <1>1, <1>2
  <2> QED BY <2>1 DEF Upto
<1>9. \A i \in StepsOf(t) : i < Len(u)
  BY <1>3, <1>5 DEF AllAnswered
<1>10. ~(Len(t) < Len(t))
  BY <1>1
<1>11. Fruitful(u) = Fruitful(t) \cup (IF r.ok THEN {Len(t)} ELSE {})
  <2>1. \A i \in StepsOf(t) \ {Len(t)} : i \in Fruitful(u) <=> i \in Fruitful(t)
    BY <1>3, <1>4, <1>9 DEF Fruitful
  <2>2. Len(t) \in Fruitful(u) <=> r.ok
    BY <1>3, <1>6, <1>9 DEF Fruitful
  <2>3. Len(t) \notin Fruitful(t)
    BY <1>10 DEF Fruitful
  <2>4. Fruitful(u) \subseteq StepsOf(t) /\ Fruitful(t) \subseteq StepsOf(t)
    BY <1>3 DEF Fruitful
  <2> QED BY <2>1, <2>2, <2>3, <2>4
<1>12. Completed(u) = Completed(t) \cup (IF r.final THEN {Len(t)} ELSE {})
  <2>1. \A i \in StepsOf(t) \ {Len(t)} : i \in Completed(u) <=> i \in Completed(t)
    BY <1>3, <1>4, <1>9 DEF Completed
  <2>2. Len(t) \in Completed(u) <=> r.final
    BY <1>3, <1>6, <1>9 DEF Completed
  <2>3. Len(t) \notin Completed(t)
    BY <1>10 DEF Completed
  <2>4. Completed(u) \subseteq StepsOf(t) /\ Completed(t) \subseteq StepsOf(t)
    BY <1>3 DEF Completed
  <2> QED BY <2>1, <2>2, <2>3, <2>4
<1>13. Len(t) \notin Fruitful(t) /\ Len(t) \notin Completed(t)
  BY <1>10 DEF Fruitful, Completed
<1> QED BY <1>3, <1>4, <1>5, <1>6, <1>7, <1>8, <1>11, <1>12, <1>13 DEF AnswerAdded

-----------------------------------------------------------------------------
(* The evidence of a MADE episode *)

Point(c, d, x, y) ==
    /\ d \in Seq(Nat \X Nat) /\ Len(c) \in Nat /\ Len(d) = Len(c) + 1
    /\ \A k \in 1 .. Len(c) : d[k] = c[k]
    /\ d[Len(d)][1] = x /\ d[Len(d)][2] = y /\ Latest(d) = y

LEMMA Appended ==
    ASSUME NEW S, NEW c \in Seq(S), NEW e \in S, NEW d, d = Append(c, e)
    PROVE  /\ d \in Seq(S) /\ Len(c) \in Nat /\ Len(d) = Len(c) + 1 /\ d # <<>>
           /\ d[Len(d)] = e /\ \A k \in 1 .. Len(c) : d[k] = c[k]
OBVIOUS

LEMMA PointAppended ==
    ASSUME NEW c \in Seq(Nat \X Nat), NEW x \in Nat, NEW y \in Nat,
           NEW e \in Nat \X Nat, e[1] = x, e[2] = y, NEW d, d = Append(c, e)
    PROVE  Point(c, d, x, y)
<1>1. /\ d \in Seq(Nat \X Nat) /\ Len(c) \in Nat /\ Len(d) = Len(c) + 1 /\ d # <<>>
      /\ d[Len(d)] = e /\ \A k \in 1 .. Len(c) : d[k] = c[k]
  BY Appended
<1> QED BY <1>1, Zenon DEF Latest, Point

LEMMA CurvePoint ==
    ASSUME NEW c \in Seq(Nat \X Nat), NEW x \in Nat, NEW y \in Nat, NEW d, d = Append(c, <<x, y>>)
    PROVE  Point(c, d, x, y)
<1>1. PICK e \in Nat \X Nat : e = <<x, y>>
  OBVIOUS
<1>2. e[1] = x /\ e[2] = y
  BY <1>1
<1>3. d = Append(c, e)
  BY <1>1, Zenon
<1> QED BY <1>2, <1>3, PointAppended, Zenon

LEMMA LatestType ==
    ASSUME NEW c \in Seq(Nat \X Nat)
    PROVE  Latest(c) \in Nat
<1>1. CASE c = <<>>
  BY <1>1 DEF Latest
<1>2. CASE c # <<>>
  <2>1. Len(c) \in 1 .. Len(c)
    BY <1>2
  <2>2. c[Len(c)] \in Nat \X Nat
    BY <2>1
  <2> QED BY <1>2, <2>2 DEF Latest
<1> QED BY <1>1, <1>2

\* What was brought depends on the fruitful steps only.
LEMMA BroughtSame ==
    ASSUME NEW t, NEW u, NEW S, NEW v, Brought(t, S, v),
           Fruitful(u) \cap S = Fruitful(t) \cap S,
           \A j \in Fruitful(t) \cap S : u[j + 1] = t[j + 1]
    PROVE  Brought(u, S, v)
BY DEF Brought

LEMMA RecordedSame ==
    ASSUME NEW t, NEW u, NEW c, NEW i, Recorded(t, c, i), Upto(u, i) = Upto(t, i),
           Fruitful(u) \cap Upto(t, i) = Fruitful(t) \cap Upto(t, i),
           \A j \in Fruitful(t) \cap Upto(t, i) : u[j + 1] = t[j + 1]
    PROVE  Recorded(u, c, i)
<1> DEFINE k == Cardinality(Upto(t, i))
<1>1. k \in 1 .. Len(c) /\ c[k][1] = k /\ Brought(t, Upto(t, i), c[k][2])
  BY DEF Recorded
<1>2. Brought(u, Upto(t, i), c[k][2])
  BY <1>1, BroughtSame
<1> QED BY <1>1, <1>2 DEF Recorded

\* A point more does not change what the curve says of earlier steps.
LEMMA RecordedLonger ==
    ASSUME NEW t, NEW c \in Seq(Nat \X Nat), NEW d, NEW i, Recorded(t, c, i),
           Len(d) = Len(c) + 1, \A k \in 1 .. Len(c) : d[k] = c[k]
    PROVE  Recorded(t, d, i)
<1> DEFINE k == Cardinality(Upto(t, i))
<1>1. k \in 1 .. Len(c) /\ c[k][1] = k /\ Brought(t, Upto(t, i), c[k][2])
  BY DEF Recorded
<1>2. k \in 1 .. Len(d) /\ d[k] = c[k]
  BY <1>1
<1> HIDE DEF k
<1>3. d[k][1] = k /\ Brought(t, Upto(t, i), d[k][2])
  BY <1>1, <1>2
<1> QED BY <1>2, <1>3 DEF Recorded, k

LEMMA BookQuiet ==
    ASSUME NEW t, NEW u, NEW c, NEW U, NEW V, NEW s \in Nat, NEW s2 \in Nat, s <= s2,
           NoNews(t, u), Book(t, c, U, s), U \cap StepsOf(t) \subseteq V
    PROVE  Book(u, c, V, s2)
<1>1. /\ StepsOf(u) = StepsOf(t) /\ Fruitful(u) = Fruitful(t)
      /\ \A i \in StepsOf(t) : i < Len(t) /\ i < Len(u) /\ u[i + 1] = t[i + 1]
      /\ \A i \in StepsOf(t) : Upto(u, i) = Upto(t, i)
      /\ Fruitful(t) \subseteq StepsOf(t)
  BY DEF NoNews, Fruitful
<1>2. \A i \in StepsOf(u) : i < Len(u) => u[i + 1].attempts = Cardinality(Upto(u, i))
  BY <1>1 DEF Book
<1>3. \A i \in StepsOf(u) \ V : Recorded(u, c, i)
  <2> TAKE i \in StepsOf(u) \ V
  <2>1. Recorded(t, c, i)
    BY <1>1 DEF Book
  <2> QED BY <1>1, <2>1, RecordedSame
<1>4. Brought(u, StepsOf(u), Latest(c))
  <2>1. Brought(t, StepsOf(t), Latest(c))
    BY DEF Book
  <2> QED BY <1>1, <2>1, BroughtSame
<1>5. \A j \in Fruitful(u) : u[j + 1].stable \in 0 .. s2
  <2> TAKE j \in Fruitful(u)
  <2>1. u[j + 1] = t[j + 1] /\ t[j + 1].stable \in 0 .. s
    BY <1>1 DEF Book
  <2> QED BY <2>1
<1> QED BY <1>2, <1>3, <1>4, <1>5 DEF Book

LEMMA BookStep ==
    ASSUME NEW t \in Seq(AllRows), NEW r \in AllRows, NEW u, u = Append(t, r), AllAnswered(t),
           r.dir = "request", r.op = "step", NEW c, NEW s, Book(t, c, {}, s)
    PROVE  Book(u, c, {Len(u)}, s)
<1>1. /\ StepsOf(u) = StepsOf(t) \cup {Len(u)} /\ Len(u) \notin StepsOf(t)
      /\ Fruitful(u) = Fruitful(t) /\ Fruitful(t) \subseteq StepsOf(t)
      /\ \A i \in StepsOf(t) : i < Len(t) /\ i < Len(u) /\ u[i + 1] = t[i + 1]
      /\ \A i \in StepsOf(t) : Upto(u, i) = Upto(t, i)
  <2>1. StepAdded(t, u)
    BY StepRow
  <2>2. Fruitful(t) \subseteq StepsOf(t)
    BY DEF Fruitful
  <2> QED BY <2>1, <2>2 DEF StepAdded
<1>2. ~(Len(u) < Len(u))
  <2>1. Len(u) \in Nat
    BY AppendRow
  <2> QED BY <2>1
<1>3. \A i \in StepsOf(u) : i < Len(u) => u[i + 1].attempts = Cardinality(Upto(u, i))
  BY <1>1, <1>2, Zenon DEF Book
<1>4. \A i \in StepsOf(u) \ {Len(u)} : Recorded(u, c, i)
  <2> TAKE i \in StepsOf(u) \ {Len(u)}
  <2>1. Recorded(t, c, i) /\ i \in StepsOf(t)
    BY <1>1 DEF Book
  <2> QED BY <1>1, <2>1, RecordedSame
<1>5. Brought(u, StepsOf(u), Latest(c))
  <2>1. Brought(t, StepsOf(t), Latest(c))
    BY DEF Book
  <2>2. Brought(u, StepsOf(t), Latest(c))
    BY <1>1, <2>1, BroughtSame
  <2>3. Fruitful(u) \cap StepsOf(u) = Fruitful(u) \cap StepsOf(t)
    BY <1>1
  <2> QED BY <2>2, <2>3 DEF Brought
<1>6. \A j \in Fruitful(u) : u[j + 1].stable \in 0 .. s
  BY <1>1 DEF Book
<1> QED BY <1>3, <1>4, <1>5, <1>6 DEF Book

LEMMA BookFailed ==
    ASSUME NEW t \in Seq(AllRows), NEW r \in AllRows, NEW u, u = Append(t, r),
           r.dir = "response", Len(t) \in StepsOf(t), ~r.ok,
           r.attempts = Cardinality(StepsOf(t)), NEW c, NEW s, Book(t, c, {Len(t)}, s)
    PROVE  Book(u, c, {Len(t)}, s) /\ Len(t) \notin Fruitful(u)
<1>1. /\ StepsOf(u) = StepsOf(t) /\ u[Len(t) + 1] = r
      /\ \A i \in StepsOf(t) : Upto(u, i) = Upto(t, i)
      /\ \A i \in StepsOf(t) \ {Len(t)} : i < Len(t) /\ u[i + 1] = t[i + 1]
      /\ Upto(t, Len(t)) = StepsOf(t) /\ Fruitful(u) = Fruitful(t)
      /\ Len(t) \notin Fruitful(t) /\ Fruitful(t) \subseteq StepsOf(t)
  <2>1. AnswerAdded(t, u, r)
    BY AnswerRow
  <2>2. Fruitful(t) \subseteq StepsOf(t) /\ Len(t) \in Nat
    BY DEF Fruitful
  <2> QED BY <2>1, <2>2 DEF AnswerAdded
<1>2. \A i \in StepsOf(u) : u[i + 1].attempts = Cardinality(Upto(u, i))
  BY <1>1 DEF Book
<1>3. \A i \in StepsOf(u) \ {Len(t)} : Recorded(u, c, i)
  <2> TAKE i \in StepsOf(u) \ {Len(t)}
  <2>1. Recorded(t, c, i)
    BY <1>1 DEF Book
  <2> QED BY <1>1, <2>1, RecordedSame
<1>4. Brought(u, StepsOf(u), Latest(c))
  <2>1. Brought(t, StepsOf(t), Latest(c))
    BY DEF Book
  <2> QED BY <1>1, <2>1, BroughtSame
<1>5. \A j \in Fruitful(u) : u[j + 1].stable \in 0 .. s
  BY <1>1 DEF Book
<1> QED BY <1>1, <1>2, <1>3, <1>4, <1>5 DEF Book

LEMMA BookOk ==
    ASSUME NEW t \in Seq(AllRows), NEW r \in AllRows, NEW u, u = Append(t, r),
           r.dir = "response", Len(t) \in StepsOf(t), r.ok, NEW n, n = Cardinality(StepsOf(t)),
           NEW c \in Seq(Nat \X Nat), n = Len(c) + 1,
           NEW s \in Nat, NEW s2 \in Nat, s <= s2, r.attempts = n, r.stable = s2,
           Book(t, c, {Len(t)}, s), NEW d, d = Append(c, <<n, s2>>)
    PROVE  Book(u, d, {}, s2)
<1>1. /\ StepsOf(u) = StepsOf(t) /\ u[Len(t) + 1] = r /\ Len(t) \in Nat
      /\ \A i \in StepsOf(t) : Upto(u, i) = Upto(t, i)
      /\ \A i \in StepsOf(t) \ {Len(t)} : i < Len(t) /\ u[i + 1] = t[i + 1]
      /\ Upto(t, Len(t)) = StepsOf(t) /\ Fruitful(u) = Fruitful(t) \cup {Len(t)}
      /\ Len(t) \notin Fruitful(t) /\ Fruitful(t) \subseteq StepsOf(t)
  <2>1. AnswerAdded(t, u, r)
    BY AnswerRow
  <2>2. Fruitful(t) \subseteq StepsOf(t) /\ Len(t) \in Nat
    BY DEF Fruitful
  <2> QED BY <2>1, <2>2 DEF AnswerAdded
<1>2. /\ Len(c) \in Nat /\ n \in Nat /\ Len(d) = n /\ \A k \in 1 .. Len(c) : d[k] = c[k]
      /\ d[n][1] = n /\ d[n][2] = s2 /\ Latest(d) = s2
  <2>1. n \in Nat
    BY StepsFacts
  <2>2. Point(c, d, n, s2)
    BY <2>1, CurvePoint
  <2> QED BY <2>1, <2>2 DEF Point
<1>3. \A i \in StepsOf(u) : u[i + 1].attempts = Cardinality(Upto(u, i))
  <2> TAKE i \in StepsOf(u)
  <2>1. CASE i = Len(t)
    BY <1>1, <2>1
  <2>2. CASE i # Len(t)
    BY <1>1, <2>2, Zenon DEF Book
  <2> QED BY <2>1, <2>2
<1>4. \A j \in Fruitful(u) : u[j + 1].stable \in 0 .. s2
  <2> TAKE j \in Fruitful(u)
  <2>1. CASE j = Len(t)
    BY <1>1, <2>1
  <2>2. CASE j \in Fruitful(t)
    <3>1. u[j + 1] = t[j + 1] /\ t[j + 1].stable \in 0 .. s
      BY <1>1, <2>2 DEF Book
    <3> QED BY <3>1
  <2> QED BY <1>1, <2>1, <2>2
<1>5. Brought(u, StepsOf(u), s2)
  <2>1. Len(t) \in Fruitful(u) \cap StepsOf(u) /\ u[Len(t) + 1].stable = s2
    BY <1>1
  <2>2. \A j \in Fruitful(u) \cap StepsOf(u) : u[j + 1].stable <= s2
    <3> TAKE j \in Fruitful(u) \cap StepsOf(u)
    <3>1. PICK v : v = u[j + 1].stable
      OBVIOUS
    <3>2. v \in 0 .. s2
      BY <1>4, <3>1
    <3>3. v <= s2
      BY <3>2
    <3> QED BY <3>1, <3>3, Zenon
  <2> QED BY <2>1, <2>2 DEF Brought
<1>6. \A i \in StepsOf(u) : Recorded(u, d, i)
  <2> TAKE i \in StepsOf(u)
  <2>1. CASE i = Len(t)
    <3>1. Upto(u, i) = StepsOf(u) /\ Cardinality(Upto(u, i)) = n
      BY <1>1, <2>1, Zenon
    <3>2. n \in 1 .. Len(d)
      BY <1>2
    <3> QED BY <1>2, <1>5, <3>1, <3>2 DEF Recorded
  <2>2. CASE i # Len(t)
    <3>1. Recorded(t, c, i) /\ i < Len(t) /\ i \in StepsOf(t)
      BY <1>1, <2>2 DEF Book
    <3>2. Len(t) \notin Upto(t, i) /\ Upto(t, i) \subseteq StepsOf(t)
      BY <1>1, <3>1, StepsFacts DEF Upto
    <3>3. /\ Upto(u, i) = Upto(t, i) /\ Fruitful(u) \cap Upto(t, i) = Fruitful(t) \cap Upto(t, i)
          /\ \A j \in Fruitful(t) \cap Upto(t, i) : u[j + 1] = t[j + 1]
      BY <1>1, <3>1, <3>2
    <3>4. Recorded(u, c, i)
      BY <3>1, <3>3, RecordedSame, Zenon
    <3> QED BY <1>2, <3>4, RecordedLonger
  <2> QED BY <2>1, <2>2
<1> QED BY <1>2, <1>3, <1>4, <1>5, <1>6 DEF Book

LEMMA BookSettled ==
    ASSUME NEW t \in Seq(AllRows), NEW k \in StepsOf(t), \A i \in StepsOf(t) : i <= k,
           k \notin Fruitful(t), NEW n, n = Cardinality(StepsOf(t)),
           NEW c \in Seq(Nat \X Nat), n = Len(c) + 1, NEW s,
           Book(t, c, {k}, s), NEW d, d = Append(c, <<n, Latest(c)>>)
    PROVE  Book(t, d, {}, s)
<1>1. n \in Nat /\ Latest(c) \in Nat
  BY StepsFacts, LatestType
<1>2. /\ Len(c) \in Nat /\ Len(d) = n /\ \A h \in 1 .. Len(c) : d[h] = c[h]
      /\ d[n][1] = n /\ d[n][2] = Latest(c) /\ Latest(d) = Latest(c)
  <2>1. Point(c, d, n, Latest(c))
    BY <1>1, CurvePoint
  <2> QED BY <2>1 DEF Point
<1>3. Upto(t, k) = StepsOf(t)
  BY DEF Upto
<1>4. \A i \in StepsOf(t) : Recorded(t, d, i)
  <2> TAKE i \in StepsOf(t)
  <2>1. CASE i = k
    <3>1. Cardinality(Upto(t, i)) = n /\ Brought(t, Upto(t, i), d[n][2])
      BY <1>2, <1>3, <2>1, Zenon DEF Book
    <3>2. n \in 1 .. Len(d)
      BY <1>1, <1>2
    <3> QED BY <1>2, <3>1, <3>2 DEF Recorded
  <2>2. CASE i # k
    <3>1. Recorded(t, c, i)
      BY <2>2 DEF Book
    <3> QED BY <1>2, <3>1, RecordedLonger
  <2> QED BY <2>1, <2>2
<1> QED BY <1>2, <1>4 DEF Book

-----------------------------------------------------------------------------
(* The evidence of a CrystalGym session *)

\* u is t with the row r.
StartsAdded(t, u, r) ==
    /\ Starts(t) \subseteq 1 .. Len(t) /\ Starts(u) \subseteq 1 .. Len(t) + 1
    /\ Len(t) \in Nat /\ Len(u) = Len(t) + 1
    /\ \A j \in 1 .. Len(t) : j \in Starts(u) <=> j \in Starts(t)
    /\ Len(u) \in Starts(u) <=> r.dir = "request" /\ r.op \in {"init", "reset"}

LEMMA StartsFacts ==
    ASSUME NEW t \in Seq(AllRows), NEW r \in AllRows, NEW u, u = Append(t, r)
    PROVE  StartsAdded(t, u, r)
<1>1. /\ u \in Seq(AllRows) /\ Len(t) \in Nat /\ Len(u) = Len(t) + 1
      /\ DOMAIN t = 1 .. Len(t) /\ DOMAIN u = 1 .. Len(u)
      /\ u[Len(u)] = r /\ \A i \in 1 .. Len(t) : u[i] = t[i]
  BY AppendRow
<1>2. Starts(t) \subseteq 1 .. Len(t) /\ Starts(u) \subseteq 1 .. Len(t) + 1
  BY <1>1 DEF Starts, Rows
<1>3. \A j \in 1 .. Len(t) : j \in Starts(u) <=> j \in Starts(t)
  <2> TAKE j \in 1 .. Len(t)
  <2>1. j \in DOMAIN u /\ j \in DOMAIN t /\ u[j] = t[j]
    BY <1>1
  <2> QED BY <2>1 DEF Starts, Rows
<1>4. Len(u) \in Starts(u) <=> r.dir = "request" /\ r.op \in {"init", "reset"}
  <2>1. Len(u) \in DOMAIN u
    BY <1>1
  <2> QED BY <1>1, <2>1 DEF Starts, Rows
<1> QED BY <1>1, <1>2, <1>3, <1>4 DEF StartsAdded

\* The base of a row that is there stays.
LEMMA BaseSame ==
    ASSUME NEW t \in Seq(AllRows), NEW r \in AllRows, NEW u, u = Append(t, r),
           NEW k \in Int, k <= Len(t) + 1, NEW n, BaseOf(t, k, n)
    PROVE  BaseOf(u, k, n)
<1>1. PICK j \in Starts(t) : /\ j < k - 1 /\ t[j + 1].attempts = n
                             /\ \A h \in Starts(t) : h < k => h <= j
  BY DEF BaseOf
<1>2. StartsAdded(t, u, r)
  BY StartsFacts
<1>3. /\ Len(t) \in Nat /\ j \in 1 .. Len(t) /\ \A i \in 1 .. Len(t) : u[i] = t[i]
  BY <1>1, <1>2, AppendRow DEF StartsAdded
<1>4. j \in Starts(u) /\ u[j + 1].attempts = n
  <2>1. j + 1 \in 1 .. Len(t)
    BY <1>1, <1>3
  <2> QED BY <1>1, <1>2, <1>3, <2>1 DEF StartsAdded
<1>5. \A h \in Starts(u) : h < k => h <= j
  <2> SUFFICES ASSUME NEW h \in Starts(u), h < k
               PROVE  h <= j
    OBVIOUS
  <2>1. h \in 1 .. Len(t) + 1
    BY <1>2 DEF StartsAdded
  <2>2. h \in 1 .. Len(t)
    BY <1>3, <2>1
  <2>3. h \in Starts(t)
    BY <1>2, <2>2 DEF StartsAdded
  <2> QED BY <1>1, <2>3
<1> QED BY <1>1, <1>4, <1>5 DEF BaseOf

\* An answer to a row that is no start leaves the base of what comes next.
LEMMA BaseAfter ==
    ASSUME NEW t \in Seq(AllRows), NEW r \in AllRows, NEW u, u = Append(t, r),
           r.dir = "response", NEW n, BaseOf(t, Len(t), n), Len(t) \notin Starts(t)
    PROVE  BaseOf(u, Len(u) + 1, n)
<1>1. StartsAdded(t, u, r)
  BY StartsFacts
<1>2. Len(t) \in Nat /\ Len(u) = Len(t) + 1 /\ Len(t) \in Int /\ Len(t) <= Len(t) + 1
  BY <1>1 DEF StartsAdded
<1>3. BaseOf(u, Len(t), n)
  BY <1>2, BaseSame
<1>4. PICK j \in Starts(u) : /\ j < Len(t) - 1 /\ u[j + 1].attempts = n
                             /\ \A h \in Starts(u) : h < Len(t) => h <= j
  BY <1>3 DEF BaseOf
<1>5. j \in Int
  <2>1. j \in 1 .. Len(t) + 1
    BY <1>1 DEF StartsAdded
  <2> QED BY <2>1
<1>6. Len(u) \notin Starts(u)
  BY <1>1 DEF StartsAdded
<1>7. \A h \in Starts(u) : h < Len(u) + 1 => h <= j
  <2> SUFFICES ASSUME NEW h \in Starts(u), h < Len(u) + 1
               PROVE  h <= j
    OBVIOUS
  <2>1. h \in 1 .. Len(t) + 1 /\ h # Len(u)
    BY <1>1, <1>6 DEF StartsAdded
  <2>2. h \in 1 .. Len(t)
    BY <1>2, <2>1
  <2>3. h \in Starts(t)
    BY <1>1, <2>2 DEF StartsAdded
  <2>4. h < Len(t)
    BY <1>2, <2>2, <2>3
  <2> QED BY <1>4, <2>4
<1>8. j < (Len(u) + 1) - 1
  BY <1>2, <1>4, <1>5
<1> QED BY <1>4, <1>7, <1>8 DEF BaseOf

\* The answer to a start is the base of what comes next.
LEMMA BaseNew ==
    ASSUME NEW t \in Seq(AllRows), NEW r \in AllRows, NEW u, u = Append(t, r),
           r.dir = "response", Len(t) \in Starts(t)
    PROVE  BaseOf(u, Len(u) + 1, r.attempts)
<1>1. StartsAdded(t, u, r)
  BY StartsFacts
<1>2. Len(t) \in Nat /\ Len(u) = Len(t) + 1 /\ Len(t) \in 1 .. Len(t) /\ Len(u) \notin Starts(u)
  BY <1>1 DEF StartsAdded
<1>3. Len(t) \in Starts(u)
  BY <1>1, <1>2 DEF StartsAdded
<1>4. u[Len(t) + 1] = r
  BY <1>2, AppendRow
<1>5. \A h \in Starts(u) : h < Len(u) + 1 => h <= Len(t)
  <2> SUFFICES ASSUME NEW h \in Starts(u)
               PROVE  h <= Len(t)
    OBVIOUS
  <2>1. h \in 1 .. Len(t) + 1 /\ h # Len(u)
    BY <1>1, <1>2 DEF StartsAdded
  <2> QED BY <1>2, <2>1
<1>6. Len(t) < (Len(u) + 1) - 1
  BY <1>2
<1> QED BY <1>3, <1>4, <1>5, <1>6 DEF BaseOf

\* A row that completes no crystal and refuses nothing.
LEMMA SessionQuiet ==
    ASSUME NEW t \in Seq(AllRows), NEW r \in AllRows, NEW u, u = Append(t, r),
           NEW c, Session(t, c),
           Len(t) \in Rows(t, "request") /\ t[Len(t)].op \in {"step", "reset"} => r.ok,
           Len(t) \in StepsOf(t) => r.dir = "response" /\ ~r.final
    PROVE  Session(u, c)
<1>1. /\ u \in Seq(AllRows) /\ Len(t) \in Nat /\ Len(u) = Len(t) + 1
      /\ DOMAIN t = 1 .. Len(t) /\ DOMAIN u = 1 .. Len(u)
      /\ u[Len(u)] = r /\ \A i \in 1 .. Len(t) : u[i] = t[i]
  BY AppendRow
<1>2. Completed(u) = Completed(t)
  <2>1. CASE Len(t) \in StepsOf(t)
    <3>1. AnswerAdded(t, u, r)
      BY <2>1, AnswerRow
    <3> QED BY <2>1, <3>1 DEF AnswerAdded
  <2>2. CASE Len(t) \notin StepsOf(t)
    <3>1. AllAnswered(t)
      <4> SUFFICES ASSUME NEW i \in StepsOf(t)
                   PROVE  i < Len(t)
        BY DEF AllAnswered
      <4>1. i \in 1 .. Len(t) /\ i # Len(t)
        BY <2>2, StepsFacts
      <4>2. Len(t) \in Nat
        OBVIOUS
      <4> QED BY <4>1, <4>2
    <3>2. CASE r.dir = "request" /\ r.op = "step"
      <4>1. StepAdded(t, u)
        BY <3>1, <3>2, StepRow
      <4> QED BY <4>1 DEF StepAdded
    <3>3. CASE ~(r.dir = "request" /\ r.op = "step")
      <4>1. NoNews(t, u)
        BY <3>1, <3>3, QuietRow
      <4> QED BY <4>1 DEF NoNews
    <3> QED BY <3>2, <3>3
  <2> QED BY <2>1, <2>2
<1>3. ASSUME NEW i \in Rows(u, "request"), u[i].op \in {"step", "reset"}, i < Len(u)
      PROVE  u[i + 1].ok
  <2>1. i \in 1 .. Len(t) /\ u[i].dir = "request"
    BY <1>1, <1>3 DEF Rows
  <2>2. u[i] = t[i] /\ i \in Rows(t, "request")
    BY <1>1, <2>1 DEF Rows
  <2>3. CASE i = Len(t)
    BY <1>1, <1>3, <2>2, <2>3
  <2>4. CASE i # Len(t)
    <3>1. i < Len(t) /\ i + 1 \in 1 .. Len(t)
      <4>1. Len(t) \in Nat
        OBVIOUS
      <4> QED BY <2>1, <2>4, <4>1
    <3> QED BY <1>1, <1>3, <2>2, <3>1 DEF Session
  <2> QED BY <2>3, <2>4
<1>4. ASSUME NEW i \in Completed(t)
      PROVE  BaseOf(u, i, u[i + 1].attempts - 1)
  <2>1. i \in 1 .. Len(t) /\ i < Len(t)
    BY <1>4, StepsFacts DEF Completed
  <2>2. i \in Int /\ i <= Len(t) + 1 /\ i + 1 \in 1 .. Len(t)
    BY <1>1, <2>1
  <2>3. BaseOf(t, i, t[i + 1].attempts - 1)
    BY <1>4 DEF Session
  <2>4. BaseOf(u, i, t[i + 1].attempts - 1)
    BY <2>2, <2>3, BaseSame
  <2> QED BY <1>1, <2>2, <2>4
<1> QED BY <1>2, <1>3, <1>4 DEF Session

\* The answer that completes a crystal.
LEMMA SessionFinal ==
    ASSUME NEW t \in Seq(AllRows), NEW r \in AllRows, NEW u, u = Append(t, r),
           NEW c \in Seq(Nat \X Nat), Session(t, c), Len(t) \in StepsOf(t),
           r.dir = "response", r.ok, r.final, r.attempts = Len(c) + 1,
           BaseOf(t, Len(t), Len(c)), NEW d, Len(d) = Len(c) + 1
    PROVE  Session(u, d)
<1>1. /\ u \in Seq(AllRows) /\ Len(t) \in Nat /\ Len(u) = Len(t) + 1 /\ Len(c) \in Nat
      /\ DOMAIN t = 1 .. Len(t) /\ DOMAIN u = 1 .. Len(u)
      /\ u[Len(u)] = r /\ \A i \in 1 .. Len(t) : u[i] = t[i]
  BY AppendRow
<1>2. Completed(u) = Completed(t) \cup {Len(t)} /\ Len(t) \notin Completed(t)
  <2>1. AnswerAdded(t, u, r)
    BY AnswerRow
  <2> QED BY <2>1 DEF AnswerAdded
<1>3. Cardinality(Completed(u)) = Len(d)
  <2>1. Cardinality(Completed(t)) = Len(c) /\ IsFiniteSet(Completed(t))
    BY StepsFacts DEF Session
  <2>2. Cardinality(Completed(t) \cup {Len(t)}) = Cardinality(Completed(t)) + 1
    BY <1>2, <2>1, FS_AddElement
  <2> QED BY <1>2, <2>1, <2>2
<1>4. ASSUME NEW i \in Rows(u, "request"), u[i].op \in {"step", "reset"}, i < Len(u)
      PROVE  u[i + 1].ok
  <2>1. i \in 1 .. Len(t) /\ u[i].dir = "request"
    BY <1>1, <1>4 DEF Rows
  <2>2. u[i] = t[i] /\ i \in Rows(t, "request")
    BY <1>1, <2>1 DEF Rows
  <2>3. CASE i = Len(t)
    BY <1>1, <2>3
  <2>4. CASE i # Len(t)
    <3>1. i < Len(t) /\ i + 1 \in 1 .. Len(t)
      <4>1. Len(t) \in Nat
        OBVIOUS
      <4> QED BY <2>1, <2>4, <4>1
    <3> QED BY <1>1, <1>4, <2>2, <3>1 DEF Session
  <2> QED BY <2>3, <2>4
<1>5. ASSUME NEW i \in Completed(t)
      PROVE  BaseOf(u, i, u[i + 1].attempts - 1)
  <2>1. i \in 1 .. Len(t) /\ i < Len(t)
    BY <1>5, StepsFacts DEF Completed
  <2>2. i \in Int /\ i <= Len(t) + 1 /\ i + 1 \in 1 .. Len(t)
    BY <1>1, <2>1
  <2>3. BaseOf(t, i, t[i + 1].attempts - 1)
    BY <1>5 DEF Session
  <2>4. BaseOf(u, i, t[i + 1].attempts - 1)
    BY <2>2, <2>3, BaseSame
  <2> QED BY <1>1, <2>2, <2>4
<1>6. BaseOf(u, Len(t), u[Len(t) + 1].attempts - 1)
  <2>1. Len(t) \in Int /\ Len(t) <= Len(t) + 1 /\ u[Len(t) + 1] = r /\ r.attempts - 1 = Len(c)
    BY <1>1
  <2>2. BaseOf(u, Len(t), Len(c))
    BY <2>1, BaseSame
  <2> QED BY <2>1, <2>2
<1> QED BY <1>2, <1>3, <1>4, <1>5, <1>6 DEF Session

-----------------------------------------------------------------------------
(* Requests and answers in turn *)

\* Odd rows are requests, so that an even number of rows leaves none open.
LEMMA TurnFacts ==
    ASSUME NEW t \in Seq(AllRows), Alternates(t)
    PROVE  /\ DOMAIN t = 1 .. Len(t) /\ Len(t) \in Nat
           /\ \A i \in 1 .. Len(t) : /\ i \in Rows(t, "request") <=> i % 2 = 1
                                     /\ i % 2 = 1 => t[i] \in RequestRows
           /\ AllPaired(t) => AllAnswered(t) /\ Len(t) \notin Rows(t, "request")
           /\ \A op : AskedLast(t, op) =>
                 /\ Len(t) \in Rows(t, "request")
                 /\ op # "step" => AllAnswered(t)
                 /\ op = "step" => Len(t) \in StepsOf(t)
                 /\ Len(t) \in Starts(t) <=> op \in {"init", "reset"}
<1>1. DOMAIN t = 1 .. Len(t) /\ Len(t) \in Nat
  OBVIOUS
<1>2. \A i \in 1 .. Len(t) : /\ i \in Rows(t, "request") <=> i % 2 = 1
                             /\ i % 2 = 1 => t[i] \in RequestRows
  <2> TAKE i \in 1 .. Len(t)
  <2>1. t[i] \in AllRows /\ t[i].dir = IF i % 2 = 1 THEN "request" ELSE "response"
    BY <1>1 DEF Alternates
  <2>2. t[i].dir = "request" => t[i] \in RequestRows
    BY <2>1 DEF AllRows, ResponseRows, Exception
  <2> QED BY <1>1, <2>1, <2>2 DEF Rows
<1>3. StepsOf(t) \subseteq 1 .. Len(t) /\ StepsOf(t) \subseteq Rows(t, "request")
  BY StepsFacts DEF StepsOf
<1>4. ASSUME AllPaired(t)
      PROVE  AllAnswered(t) /\ Len(t) \notin Rows(t, "request")
  <2>1. Len(t) % 2 = 0
    BY <1>4 DEF AllPaired
  <2>2. Len(t) \notin Rows(t, "request")
    <3>1. Rows(t, "request") \subseteq 1 .. Len(t)
      BY <1>1 DEF Rows
    <3> QED BY <1>1, <1>2, <2>1, <3>1
  <2>3. ASSUME NEW i \in StepsOf(t)
        PROVE  i < Len(t)
    <3>1. i \in 1 .. Len(t) /\ i # Len(t)
      BY <1>3, <2>2
    <3>2. Len(t) \in Nat
      OBVIOUS
    <3> QED BY <3>1, <3>2
  <2> QED BY <2>2, <2>3 DEF AllAnswered
<1>5. ASSUME NEW op, AskedLast(t, op)
      PROVE  /\ Len(t) \in Rows(t, "request")
             /\ op # "step" => AllAnswered(t)
             /\ op = "step" => Len(t) \in StepsOf(t)
             /\ Len(t) \in Starts(t) <=> op \in {"init", "reset"}
  <2>1. Len(t) % 2 = 1 /\ t[Len(t)].op = op
    BY <1>5 DEF AskedLast
  <2>2. Len(t) \in 1 .. Len(t)
    BY <1>1, <2>1
  <2>3. Len(t) \in Rows(t, "request")
    BY <1>2, <2>1, <2>2
  <2>4. ASSUME op # "step", NEW i \in StepsOf(t)
        PROVE  i < Len(t)
    <3>1. i \in 1 .. Len(t) /\ i # Len(t)
      BY <1>3, <2>1, <2>4 DEF StepsOf
    <3>2. Len(t) \in Nat
      OBVIOUS
    <3> QED BY <3>1, <3>2
  <2> QED BY <2>1, <2>3, <2>4 DEF AllAnswered, StepsOf, Starts
<1> QED BY <1>1, <1>2, <1>4, <1>5

LEMMA PairsAsk ==
    ASSUME NEW t \in Seq(AllRows), NEW r \in AllRows, NEW u, u = Append(t, r), AllPaired(t),
           r.dir = "request", r.id = Cardinality(Rows(t, "request")), Len(t) = 0 => r.op = "init"
    PROVE  AskedLast(u, r.op)
<1>1. /\ u \in Seq(AllRows) /\ Len(t) \in Nat /\ Len(u) = Len(t) + 1
      /\ DOMAIN t = 1 .. Len(t) /\ DOMAIN u = 1 .. Len(u)
      /\ u[Len(u)] = r /\ \A i \in 1 .. Len(t) : u[i] = t[i]
  BY AppendRow
<1>2. Alternates(t) /\ Len(t) % 2 = 0
  BY DEF AllPaired
<1>3. Len(u) % 2 = 1
  BY <1>1, <1>2
<1>4. \A i \in DOMAIN u : u[i].dir = IF i % 2 = 1 THEN "request" ELSE "response"
  <2> TAKE i \in DOMAIN u
  <2>1. CASE i = Len(u)
    BY <1>1, <1>3, <2>1
  <2>2. CASE i \in 1 .. Len(t)
    BY <1>1, <1>2, <2>2 DEF Alternates
  <2> QED BY <1>1, <2>1, <2>2
<1>5. \A i \in DOMAIN u : i % 2 = 0 => u[i].id = u[i - 1].id
  <2> SUFFICES ASSUME NEW i \in DOMAIN u, i % 2 = 0
               PROVE  u[i].id = u[i - 1].id
    OBVIOUS
  <2>1. i \in 1 .. Len(t) /\ i - 1 \in 1 .. Len(t)
    BY <1>1, <1>3
  <2> QED BY <1>1, <1>2, <2>1 DEF Alternates
<1>6. u[1].op = "init" /\ (Len(u) >= 2 => u[2].ok)
  <2>1. CASE Len(t) = 0
    BY <1>1, <2>1
  <2>2. CASE Len(t) # 0
    <3>1. Len(t) >= 2 /\ 1 \in 1 .. Len(t) /\ 2 \in 1 .. Len(t)
      BY <1>1, <1>2, <2>2
    <3> QED BY <1>1, <1>2, <3>1 DEF Alternates
  <2> QED BY <2>1, <2>2
<1>7. Cardinality(Rows(u, "request")) = Cardinality(Rows(t, "request")) + 1
  <2>1. Rows(u, "request") = Rows(t, "request") \cup {Len(u)}
    <3>1. ASSUME NEW i \in 1 .. Len(t)
          PROVE  i \in Rows(u, "request") <=> i \in Rows(t, "request")
      BY <1>1 DEF Rows
    <3>2. Len(u) \in Rows(u, "request")
      BY <1>1 DEF Rows
    <3>3. Rows(u, "request") \subseteq 1 .. Len(u) /\ Rows(t, "request") \subseteq 1 .. Len(t)
      BY <1>1 DEF Rows
    <3>4. 1 .. Len(u) = (1 .. Len(t)) \cup {Len(u)}
      BY <1>1
    <3> QED BY <3>1, <3>2, <3>3, <3>4
  <2>2. Len(u) \notin Rows(t, "request")
    BY <1>1 DEF Rows
  <2> QED BY <2>1, <2>2, RequestCount, FS_AddElement
<1>8. Cardinality(Rows(t, "request")) \in Nat
  BY RequestCount
<1>9. Alternates(u)
  BY <1>4, <1>5, <1>6 DEF Alternates
<1> QED BY <1>1, <1>3, <1>7, <1>8, <1>9 DEF AskedLast

LEMMA PairsAnswer ==
    ASSUME NEW t \in Seq(AllRows), NEW r \in AllRows, NEW u, u = Append(t, r), NEW op, AskedLast(t, op),
           r.dir = "response", r.id = Cardinality(Rows(t, "request")) - 1, Len(t) = 1 => r.ok
    PROVE  AllPaired(u) /\ Rows(u, "request") = Rows(t, "request")
<1>1. /\ u \in Seq(AllRows) /\ Len(t) \in Nat /\ Len(u) = Len(t) + 1
      /\ DOMAIN t = 1 .. Len(t) /\ DOMAIN u = 1 .. Len(u)
      /\ u[Len(u)] = r /\ \A i \in 1 .. Len(t) : u[i] = t[i]
  BY AppendRow
<1>2. Alternates(t) /\ Len(t) % 2 = 1 /\ t[Len(t)].id = r.id
  BY DEF AskedLast
<1>3. Len(u) % 2 = 0
  BY <1>1, <1>2
<1>4. \A i \in DOMAIN u : u[i].dir = IF i % 2 = 1 THEN "request" ELSE "response"
  <2> TAKE i \in DOMAIN u
  <2>1. CASE i = Len(u)
    BY <1>1, <1>3, <2>1
  <2>2. CASE i \in 1 .. Len(t)
    BY <1>1, <1>2, <2>2 DEF Alternates
  <2> QED BY <1>1, <2>1, <2>2
<1>5. \A i \in DOMAIN u : i % 2 = 0 => u[i].id = u[i - 1].id
  <2> SUFFICES ASSUME NEW i \in DOMAIN u, i % 2 = 0
               PROVE  u[i].id = u[i - 1].id
    OBVIOUS
  <2>1. CASE i = Len(u)
    <3>1. i - 1 = Len(t) /\ Len(t) \in 1 .. Len(t)
      BY <1>1, <1>2, <2>1
    <3> QED BY <1>1, <1>2, <2>1, <3>1
  <2>2. CASE i # Len(u)
    <3>1. i \in 1 .. Len(t) /\ i - 1 \in 1 .. Len(t)
      BY <1>1, <2>2
    <3> QED BY <1>1, <1>2, <3>1 DEF Alternates
  <2> QED BY <2>1, <2>2
<1>6. u[1].op = "init" /\ u[2].ok
  <2>1. Len(t) >= 1 /\ 1 \in 1 .. Len(t)
    BY <1>1, <1>2
  <2>2. CASE Len(t) = 1
    BY <1>1, <1>2, <2>1, <2>2 DEF Alternates
  <2>3. CASE Len(t) # 1
    <3>1. 2 \in 1 .. Len(t) /\ Len(t) >= 2
      BY <1>1, <2>1, <2>3
    <3> QED BY <1>1, <1>2, <2>1, <3>1 DEF Alternates
  <2> QED BY <2>2, <2>3
<1>7. Rows(u, "request") = Rows(t, "request")
  <2>1. ASSUME NEW i \in 1 .. Len(t)
        PROVE  i \in Rows(u, "request") <=> i \in Rows(t, "request")
    BY <1>1 DEF Rows
  <2>2. Len(u) \notin Rows(u, "request")
    BY <1>1 DEF Rows
  <2>3. Rows(u, "request") \subseteq 1 .. Len(u) /\ Rows(t, "request") \subseteq 1 .. Len(t)
    BY <1>1 DEF Rows
  <2>4. 1 .. Len(u) = (1 .. Len(t)) \cup {Len(u)}
    BY <1>1
  <2> QED BY <2>1, <2>2, <2>3, <2>4
<1>8. Alternates(u)
  BY <1>4, <1>5, <1>6 DEF Alternates
<1> QED BY <1>3, <1>7, <1>8 DEF AllPaired

\* What is known of the transcript while the rollout goes on.
LEMMA TurnState ==
    ASSUME Inv, Going, Pairs
    PROVE  /\ transcript \in Seq(AllRows) /\ Len(transcript) \in Nat /\ Alternates(transcript)
           /\ Requests = Cardinality(Rows(transcript, "request")) /\ Requests \in Nat
           /\ channel.at = "none" => AllPaired(transcript) /\ AllAnswered(transcript)
           /\ channel.at # "none" => /\ AskedLast(transcript, channel.op)
                                     /\ pc \in DOMAIN OpAt /\ channel.op = OpAt[pc]
<1>1. transcript \in Seq(AllRows) /\ Len(transcript) \in Nat
  BY DEF Inv, Typed
<1>2. Requests = Cardinality(Rows(transcript, "request"))
  BY DEF Requests, Rows
<1>3. Requests \in Nat
  BY <1>1, <1>2, RequestCount
<1>4. channel.at = "none" => AllPaired(transcript) /\ AllAnswered(transcript)
  BY <1>1, TurnFacts DEF Pairs, AllPaired
<1>5. Alternates(transcript)
  BY DEF Pairs, AllPaired, AskedLast
<1>6. ASSUME channel.at # "none"
      PROVE  pc \in DOMAIN OpAt /\ channel.op = OpAt[pc]
  <2>1. pc \in Places /\ pc \notin {"raised", "killed", "complete", "start", "loop"}
    BY <1>6, NoRequestType DEF Inv, Typed, Conversation, Going
  <2> QED BY <2>1, OpAtFacts DEF Inv, Conversation, Places
<1> QED BY <1>1, <1>2, <1>3, <1>4, <1>5, <1>6 DEF Pairs

LEMMA PairsStill ==
    ASSUME Pairs, transcript' = transcript, pc' = pc, channel'.op = channel.op,
           channel'.at = "none" <=> channel.at = "none",
           env' = "closed" => \/ pc = "close" /\ channel'.at = "answered" /\ channel'.answer.ok
                              \/ env = "closed" /\ channel' = channel
    PROVE  Pairs'
BY DEF Pairs, Answer

\* A request after an answer, or the first.
LEMMA PairsAsked ==
    ASSUME Inv, Live, Pairs, NEW op \in Ops, NEW arg, NEW next, Ask(op, arg, next), env' = env,
           \/ pc = "start" /\ op = "init" /\ next = "init"
           \/ pc = "loop" /\ next \in DOMAIN OpAt \ {"init"}
    PROVE  /\ Pairs' /\ transcript' \in Seq(AllRows)
           /\ \E r \in AllRows : r.dir = "request" /\ r.op = op /\ transcript' = Append(transcript, r)
<1> DEFINE row == [dir |-> "request", id |-> Requests, op |-> op]
<1>1. row \in AllRows /\ row.dir = "request" /\ row.op = op /\ row.id = Requests
  BY RequestRow DEF Inv
<1>2. transcript' = Append(transcript, row) /\ pc' = next
  BY DEF Ask
<1>3. channel'.at = "logged" /\ channel'.op = op
  BY DEF Ask, NoRequest
<1> HIDE DEF row
<1>4. channel.at = "none" /\ Going
  BY NoRequestType DEF Inv, Conversation, Live, Going
<1>5. /\ AllPaired(transcript) /\ Requests = Cardinality(Rows(transcript, "request"))
      /\ transcript \in Seq(AllRows) /\ Len(transcript) \in Nat
  BY <1>4, TurnState
<1>6. Len(transcript) = 0 => op = "init"
  BY DEF Pairs
<1>7. AskedLast(transcript', op)
  BY <1>1, <1>2, <1>5, <1>6, PairsAsk
<1>8. transcript' \in Seq(AllRows) /\ Len(transcript') = Len(transcript) + 1
  BY <1>1, <1>2, <1>5, AppendRow
<1>9. pc = "start" => Len(transcript) = 0
  BY DEF Pairs
<1>10. pc = "loop" => Len(transcript) >= 2
  BY DEF Pairs
<1>11. env # "closed"
  BY DEF Pairs
<1>12. next \notin {"start", "complete"}
  BY DEF OpAt
<1>13. /\ next = "init" => Len(transcript') = 1
       /\ next # "init" => Len(transcript') >= 2
  BY <1>5, <1>8, <1>9, <1>10
<1>14. Pairs'
  BY <1>2, <1>3, <1>7, <1>11, <1>12, <1>13 DEF Pairs
<1> QED BY <1>1, <1>2, <1>8, <1>14

\* The row of an answer.
LEMMA PairsAnswered ==
    ASSUME Inv, Live, Pairs, channel.at = "answered", pc = "init" => Answer.ok,
           NEW u, u = Append(transcript, Received)
    PROVE  /\ u \in Seq(AllRows) /\ Len(u) \in Nat /\ Len(u) >= 2 /\ Len(u) = Len(transcript) + 1
           /\ AllPaired(u) /\ AllAnswered(u) /\ Cardinality(Rows(u, "request")) = Requests
           /\ pc = "close" /\ Answer.ok => CloseWasOk(u)
<1>1. Going
  BY DEF Live, Going
<1>2. /\ AskedLast(transcript, channel.op) /\ channel.op = OpAt[pc] /\ pc \in DOMAIN OpAt
      /\ transcript \in Seq(AllRows) /\ Len(transcript) \in Nat
      /\ Requests = Cardinality(Rows(transcript, "request"))
  BY <1>1, TurnState
<1>3. Received \in AllRows /\ Received.dir = "response" /\ Received.id = Requests - 1 /\ Received.ok = Answer.ok
  BY AnswerState
<1>4. Len(transcript) = 1 => Answer.ok
  <2>1. pc # "start"
    BY <1>2, OpAtFacts
  <2>2. pc # "init" => Len(transcript) >= 2
    BY <2>1 DEF Pairs
  <2> QED BY <1>2, <2>2
<1>5. AllPaired(u) /\ Rows(u, "request") = Rows(transcript, "request")
  BY <1>2, <1>3, <1>4, PairsAnswer
<1>6. /\ u \in Seq(AllRows) /\ Len(u) = Len(transcript) + 1 /\ Len(transcript) >= 1
      /\ u[Len(u)] = Received /\ \A i \in 1 .. Len(transcript) : u[i] = transcript[i]
  <2>1. Len(transcript) >= 1
    BY <1>2 DEF AskedLast
  <2> QED BY <1>2, <1>3, <2>1, AppendRow
<1>7. AllAnswered(u)
  BY <1>5, <1>6, TurnFacts DEF AllPaired
<1>8. ASSUME pc = "close", Answer.ok
      PROVE  CloseWasOk(u)
  <2>1. Len(u) - 1 = Len(transcript) /\ Len(transcript) \in 1 .. Len(transcript) /\ Len(u) >= 2
    BY <1>2, <1>6
  <2>2. u[Len(u) - 1].op = "close"
    BY <1>2, <1>6, <1>8, <2>1, OpAtFacts DEF AskedLast
  <2> QED BY <1>3, <1>6, <1>8, <2>1, <2>2 DEF CloseWasOk
<1> QED BY <1>2, <1>5, <1>6, <1>7, <1>8

LEMMA PairsLogged ==
    ASSUME Inv, Live, Pairs, channel.at = "answered", pc = "init" => Answer.ok, env' = env,
           Logged, channel' = NoRequest,
           \/ pc # "close" /\ pc' = "loop"
           \/ pc = "close" /\ pc' = "complete"
    PROVE  Pairs'
<1>1. /\ Len(transcript') \in Nat /\ Len(transcript') >= 2 /\ AllPaired(transcript')
      /\ pc = "close" /\ Answer.ok => CloseWasOk(transcript')
  BY PairsAnswered DEF Logged
<1>2. env = "closed" => pc = "close" /\ Answer.ok
  BY DEF Pairs, Live
<1> QED BY <1>1, <1>2, NoRequestType DEF Pairs

\* An answer that is logged with the next request.
LEMMA PairsBoth ==
    ASSUME Inv, Live, Pairs, channel.at = "answered", pc \in {"tool", "step"}, env' = env,
           NEW op \in Ops, NEW next \in {"step", "observe", "settle", "reset"}, LogAndAsk(op, next)
    PROVE  /\ Pairs'
           /\ \E v \in Seq(AllRows), r \in AllRows :
                 /\ v = Append(transcript, Received) /\ AllPaired(v) /\ AllAnswered(v)
                 /\ r.dir = "request" /\ r.op = op /\ transcript' = Append(v, r)
<1> DEFINE row == [dir |-> "request", id |-> Requests, op |-> op]
<1>1. row \in AllRows /\ row.dir = "request" /\ row.op = op /\ row.id = Requests
  BY RequestRow DEF Inv
<1>2. transcript' = transcript \o <<Received, row>> /\ pc' = next
  BY DEF LogAndAsk
<1>3. channel'.at = "logged" /\ channel'.op = op
  BY DEF LogAndAsk, NoRequest
<1> HIDE DEF row
<1>4. PICK v : v = Append(transcript, Received)
  OBVIOUS
<1>5. /\ v \in Seq(AllRows) /\ Len(v) \in Nat /\ Len(v) >= 2 /\ AllPaired(v) /\ AllAnswered(v)
      /\ Cardinality(Rows(v, "request")) = Requests
  BY <1>4, PairsAnswered
<1>6. transcript' = Append(v, row)
  BY <1>1, <1>2, <1>4, AppendTwo, AnswerState, LiveState
<1>7. AskedLast(transcript', op)
  <2>1. Len(v) # 0
    BY <1>5
  <2> QED BY <1>1, <1>5, <1>6, <2>1, PairsAsk
<1>8. Len(transcript') >= 2
  <2>1. Len(transcript') = Len(v) + 1
    BY <1>1, <1>5, <1>6, AppendRow
  <2> QED BY <1>5, <2>1
<1>9. env # "closed"
  BY DEF Pairs
<1>10. Pairs'
  BY <1>2, <1>3, <1>7, <1>8, <1>9 DEF Pairs
<1> QED BY <1>1, <1>4, <1>5, <1>6, <1>10

-----------------------------------------------------------------------------
(* The trace of a MADE episode *)

LEMMA BookMore ==
    ASSUME NEW t, NEW c, NEW U, NEW s \in Nat, NEW s2 \in Nat, s <= s2, Book(t, c, U, s)
    PROVE  Book(t, c, U, s2)
<1>1. \A j \in Fruitful(t) : t[j + 1].stable \in 0 .. s2
  <2> TAKE j \in Fruitful(t)
  <2>1. t[j + 1].stable \in 0 .. s
    BY DEF Book
  <2> QED BY <2>1
<1> QED BY <1>1 DEF Book

\* The stable structures of an episode are not taken back.
LEMMA StableGrows ==
    ASSUME Made, adapter \in States
    PROVE  /\ adapter.stable \in Nat
           /\ \A invoked \in BOOLEAN : Begun(invoked).stable = adapter.stable
           /\ \A ok, invoked \in BOOLEAN : \A a \in Ended(ok, invoked) :
                 a.stable \in Nat /\ a.stable >= adapter.stable
<1>1. adapter \in MadeStates
  BY DEF States
<1>2. adapter.stable \in Nat
  BY <1>1 DEF MadeStates
<1>3. ASSUME NEW invoked \in BOOLEAN
      PROVE  Begun(invoked).stable = adapter.stable
  <2> DEFINE taken == MadeTaken(adapter)
  <2>1. taken \in MadeStates /\ taken.stable = adapter.stable
    BY <1>1 DEF MadeTaken, MadeStates
  <2>2. Begun(invoked) = IF invoked THEN [taken EXCEPT !.attempts = taken.attempts + 1] ELSE taken
    BY <2>1 DEF Begun, MadeCounted, MadeStates
  <2> HIDE DEF taken
  <2> QED BY <2>1, <2>2 DEF MadeStates
<1>4. ASSUME NEW ok \in BOOLEAN, NEW invoked \in BOOLEAN, NEW a \in Ended(ok, invoked)
      PROVE  a.stable \in Nat /\ a.stable >= adapter.stable
  <2>1. CASE ok
    <3>1. PICK found \in {0, 1} : a = [adapter EXCEPT !.stable = adapter.stable + found]
      BY <2>1 DEF Ended, MadeMeasured
    <3> QED BY <1>1, <1>2, <3>1 DEF MadeStates
  <2>2. CASE ~ok
    <3>1. PICK fault \in BOOLEAN : a = [adapter EXCEPT !.faulted = fault]
      BY <2>2 DEF Ended, MadeRaised
    <3> QED BY <1>1, <1>2, <3>1 DEF MadeStates
  <2> QED BY <2>1, <2>2
<1> QED BY <1>2, <1>3, <1>4

LEMMA MayStepSame ==
    ASSUME benchmark' = benchmark, adapter' = adapter,
           channel'.op = channel.op \/ {channel.op, channel'.op} \cap {"observe", "reset"} = {}
    PROVE  MayStep' <=> MayStep
<1>1. Refused' <=> Refused
  BY DEF Refused
<1>2. /\ MadeMayStep(adapter)' <=> MadeMayStep(adapter)
      /\ CrystalMayStep(adapter)' <=> CrystalMayStep(adapter)
      /\ Made' <=> Made
  BY DEF Made, MadeMayStep, MadeDone, CrystalMayStep, CrystalDone
<1> QED BY <1>1, <1>2 DEF MayStep

\* What remains to be shown of a step that adds no row.
LEMMA MadeStill ==
    ASSUME Made, MadeTrace, transcript' = transcript, pc' = pc, curve' = curve,
           adapter.stable \in Nat, adapter'.stable \in Nat, adapter.stable <= adapter'.stable,
           (pc = "step" /\ Asked') \/ Selected' => MayStep',
           calls' + (IF pc = "step" /\ Asked' THEN 1 ELSE 0) = calls + (IF pc = "step" /\ Asked THEN 1 ELSE 0)
    PROVE  MadeTrace'
<1>1. Unsettled' = Unsettled
  BY DEF Unsettled
<1>2. Book(transcript, curve, Unsettled, adapter'.stable)
  BY BookMore DEF MadeTrace
<1>3. Book(transcript, curve, Unsettled, adapter.stable)'
  BY <1>1, <1>2
<1>4. Cardinality(StepsOf(transcript)) = calls' + (IF pc = "step" /\ Asked' THEN 1 ELSE 0)
  BY DEF MadeTrace
<1> HIDE DEF Asked, Selected, MayStep, Unsettled
<1> QED BY <1>3, <1>4 DEF MadeTrace

LEMMA MadeServe ==
    ASSUME Inv, Going, Pairs, Made, MadeTrace, Serve
    PROVE  MadeTrace'
<1>1. /\ env = "up" /\ channel.at = "sent" /\ (channel.op = "step" => ~MayStep)
      /\ UNCHANGED <<benchmark, calls, skipped, transcript, pc, curve>>
  BY DEF Serve, client
<1>2. PICK outcome \in Outcomes :
         /\ adapter' = outcome.adapter /\ Answered(outcome.adapter, outcome.ok)
  BY DEF Serve
<1>3. /\ outcome.adapter \in States /\ outcome.ok \in BOOLEAN
      /\ channel.op = "tool" /\ ~Refused => outcome \in MadeTool(adapter, channel.arg)
      /\ channel.op \in {"init", "observe", "step"} => outcome.adapter = adapter
      /\ Refused /\ channel.op # "init" /\ channel.op # "close" => outcome = Unchanged(FALSE)
      /\ channel.op \in OpsOf /\ ToolNamed
  BY <1>1, OutcomeFacts DEF Inv, Conversation
<1>4. /\ channel'.at = "answered" /\ channel'.op = channel.op /\ channel'.arg = channel.arg
      /\ channel'.answer.ok = outcome.ok
  BY <1>2, <1>3, AnsweredFacts DEF Inv, Typed
<1>5. adapter \in MadeStates /\ channel.arg \in Arguments
  BY DEF Inv, Typed, States, Channels
<1>6. channel.op = OpAt[pc] /\ pc \in DOMAIN OpAt
  BY <1>1, TurnState
<1>7. pc # "step"
  BY <1>1, <1>6, OpAtFacts DEF MadeTrace, Asked
<1>8. adapter.stable \in Nat /\ adapter'.stable = adapter.stable
  <2>1. CASE channel.op = "tool" /\ ~Refused
    <3>1. channel.arg.tool \in {"generate", "select"}
      BY <1>3, <1>5, <2>1 DEF ToolNamed, Arguments
    <3> QED BY <1>2, <1>3, <1>5, <2>1, <3>1, MadeToolFacts DEF MadeStates
  <2>2. CASE channel.op \notin {"init", "close"} /\ Refused
    BY <1>2, <1>3, <1>5, <2>2 DEF Unchanged, MadeStates
  <2>3. CASE channel.op = "close"
    <3>1. PICK ok \in BOOLEAN : outcome = [adapter |-> [adapter EXCEPT !.open = FALSE], ok |-> ok]
      BY <2>3 DEF Outcomes
    <3>2. outcome.adapter = [adapter EXCEPT !.open = FALSE]
      BY <3>1
    <3> QED BY <1>2, <1>5, <3>2 DEF MadeStates
  <2>4. CASE channel.op \in {"init", "observe", "step"}
    BY <1>2, <1>3, <1>5, <2>4 DEF MadeStates
  <2> QED BY <1>3, <2>1, <2>2, <2>3, <2>4 DEF OpsOf, Ops
<1>9. ASSUME Selected'
      PROVE  MayStep'
  <2>1. pc = "tool" /\ outcome.ok /\ channel.arg.tool = "select" /\ channel.op = "tool"
    BY <1>1, <1>4, <1>6, <1>9, OpAtFacts DEF Selected, Answer
  <2>2. ~Refused
    BY <1>3, <2>1 DEF Unchanged
  <2>3. /\ outcome.adapter.open = adapter.open /\ outcome.adapter.faulted = adapter.faulted
        /\ outcome.adapter.selected \in Candidates /\ ~MadeDone(adapter)
        /\ outcome.adapter.attempts = adapter.attempts
    BY <1>3, <1>5, <2>1, <2>2, MadeToolFacts
  <2>4. ~Refused'
    BY <1>2, <1>4, <2>1, <2>2, <2>3 DEF Refused
  <2>5. MadeMayStep(adapter')
    BY <1>2, <2>3, Naturals1 DEF MadeMayStep, MadeDone
  <2> QED BY <1>1, <2>4, <2>5 DEF MayStep, Made
<1>10. ~(pc = "step" /\ Asked') /\ ~(pc = "step" /\ Asked)
  BY <1>7
<1>11. calls \in Nat
  BY DEF Inv, Typed
<1> QED BY <1>1, <1>8, <1>9, <1>10, <1>11, MadeStill

LEMMA MadeBeginStep ==
    ASSUME Inv, Going, Pairs, Made, MadeTrace, BeginStep, skipped' = skipped
    PROVE  MadeTrace'
<1>1. /\ channel.at = "sent" /\ channel.op = "step" /\ MayStep
      /\ UNCHANGED <<benchmark, env, transcript, pc, curve>>
  BY DEF BeginStep, client
<1>2. PICK invoked \in BOOLEAN :
         /\ adapter' = Begun(invoked)
         /\ calls' = IF invoked /\ (Made \/ CrystalTerminal(adapter)) THEN calls + 1 ELSE calls
         /\ skipped' = IF invoked THEN skipped ELSE skipped + 1
         /\ channel' = [channel EXCEPT !.at = "working", !.answer = <<invoked>>]
  BY DEF BeginStep, Begun
<1>3. adapter \in States /\ channel \in Channels /\ calls \in Nat /\ skipped \in Nat
  BY DEF Inv, Typed
<1>4. channel'.at = "working"
  BY <1>2, <1>3 DEF Channels
<1>5. pc = "step" /\ Asked
  BY <1>1, TurnState, OpAtFacts DEF Asked
<1>6. calls' = calls + 1
  BY <1>2, <1>3
<1>7. adapter.stable \in Nat /\ adapter'.stable = adapter.stable
  BY <1>2, <1>3, StableGrows
<1>8. ~Asked' /\ ~Selected'
  BY <1>4 DEF Asked, Selected
<1> QED BY <1>1, <1>3, <1>5, <1>6, <1>7, <1>8, MadeStill

LEMMA MadeEndStep ==
    ASSUME Inv, Going, Pairs, Made, MadeTrace, EndStep
    PROVE  MadeTrace'
<1>1. /\ channel.at = "working" /\ UNCHANGED <<benchmark, env, calls, skipped, transcript, pc, curve>>
  BY DEF EndStep, client
<1>2. channel.op = "step" /\ channel.answer[1] \in BOOLEAN
  <2>1. PICK invoked \in BOOLEAN : channel.answer = <<invoked>>
    BY <1>1 DEF Inv, Conversation, Invocations
  <2> QED BY <1>1, <2>1 DEF Inv, Conversation
<1>3. PICK ok \in BOOLEAN : \E a \in Ended(ok, channel.answer[1]) : adapter' = a /\ Answered(a, ok)
  BY DEF EndStep, Ended
<1>4. PICK a \in Ended(ok, channel.answer[1]) : adapter' = a /\ Answered(a, ok)
  BY <1>3
<1>5. adapter \in States /\ channel \in Channels /\ calls \in Nat
  BY DEF Inv, Typed
<1>6. adapter.stable \in Nat /\ adapter'.stable \in Nat /\ adapter.stable <= adapter'.stable
  BY <1>2, <1>4, <1>5, StableGrows
<1>7. channel'.at = "answered"
  BY <1>2, <1>4, <1>5, EndedFacts, AnsweredFacts
<1>8. pc = "step"
  BY <1>1, <1>2, TurnState, OpAtFacts
<1>9. ~Asked' /\ ~Asked /\ ~Selected'
  BY <1>1, <1>7, <1>8 DEF Asked, Selected
<1> QED BY <1>1, <1>5, <1>6, <1>9, MadeStill

\* A step that neither works on a request nor writes a row.
LEMMA MadeIdle ==
    ASSUME Inv, Made, MadeTrace, UNCHANGED <<benchmark, adapter, calls, transcript, curve>>,
           \/ pc' = pc /\ channel' = channel
           \/ pc' = pc /\ channel.at = "logged" /\ channel' = [channel EXCEPT !.at = "sent"]
           \/ pc = "loop" /\ pc' = "complete" /\ channel' = channel
    PROVE  MadeTrace'
<1>1. calls \in Nat /\ adapter \in States /\ channel \in Channels
  BY DEF Inv, Typed
<1>2. adapter.stable \in Nat
  BY <1>1, StableGrows
<1>3. MayStep' <=> MayStep
  <2>1. channel'.op = channel.op
    BY <1>1 DEF Channels
  <2> QED BY <2>1, MayStepSame
<1>4. CASE pc' = pc /\ channel' = channel
  <2>1. (Asked' <=> Asked) /\ (Selected' <=> Selected)
    BY <1>4 DEF Asked, Selected, Answer
  <2> HIDE DEF Asked, Selected, MayStep
  <2>2. (pc = "step" /\ Asked) \/ Selected => MayStep
    BY DEF MadeTrace
  <2> QED BY <1>1, <1>2, <1>3, <1>4, <2>1, <2>2, MadeStill
<1>5. CASE pc' = pc /\ channel.at = "logged" /\ channel' = [channel EXCEPT !.at = "sent"]
  <2>1. channel'.at = "sent"
    BY <1>1, <1>5 DEF Channels
  <2>2. Asked' /\ Asked /\ ~Selected'
    BY <1>5, <2>1 DEF Asked, Selected
  <2> HIDE DEF Asked, Selected, MayStep
  <2>3. (pc = "step" /\ Asked) => MayStep
    BY DEF MadeTrace
  <2> QED BY <1>1, <1>2, <1>3, <1>5, <2>2, <2>3, MadeStill
<1>6. CASE pc = "loop" /\ pc' = "complete" /\ channel' = channel
  <2>1. Unsettled = {} /\ Unsettled' = {}
    BY <1>6 DEF Unsettled
  <2>2. Book(transcript, curve, Unsettled, adapter.stable)'
    BY <2>1 DEF MadeTrace
  <2>3. ~Selected'
    BY <1>6 DEF Selected
  <2>4. /\ Cardinality(StepsOf(transcript)) = calls + 0
        /\ Cardinality(StepsOf(transcript)) = Len(curve) + 0
    BY <1>6 DEF MadeTrace
  <2> HIDE DEF Unsettled, Selected
  <2> QED BY <1>6, <2>2, <2>3, <2>4 DEF MadeTrace
<1> QED BY <1>4, <1>5, <1>6

\* A row that is no step's.
LEMMA QuietBook ==
    ASSUME NEW t \in Seq(AllRows), NEW r \in AllRows, NEW u, u = Append(t, r), AllAnswered(t),
           r.dir = "request" => r.op # "step", NEW c, NEW U, NEW s \in Nat, Book(t, c, U, s)
    PROVE  /\ Book(u, c, U, s) /\ StepsOf(u) = StepsOf(t) /\ AllAnswered(u)
           /\ Fruitful(u) = Fruitful(t)
<1>1. NoNews(t, u) /\ AllAnswered(u)
  BY QuietRow
<1>2. U \cap StepsOf(t) \subseteq U /\ s <= s
  OBVIOUS
<1>3. Book(u, c, U, s)
  BY <1>1, <1>2, BookQuiet
<1> QED BY <1>1, <1>3 DEF NoNews

\* The trace of an episode that waits for no step.
LEMMA MadeSettledTrace ==
    ASSUME pc' \notin {"step", "settle", "reset"}, pc' # "tool" \/ channel'.at = "logged",
           Book(transcript', curve', {}, adapter'.stable),
           Cardinality(StepsOf(transcript')) = calls', Cardinality(StepsOf(transcript')) = Len(curve'),
           calls' \in Nat
    PROVE  MadeTrace'
<1>1. Unsettled' = {}
  BY DEF Unsettled
<1>2. ~Selected'
  BY DEF Selected
<1>3. Book(transcript, curve, Unsettled, adapter.stable)'
  BY <1>1
<1>4. /\ Cardinality(StepsOf(transcript')) = calls' + 0
      /\ Cardinality(StepsOf(transcript')) = Len(curve') + 0
  <2>1. PICK n \in Nat : n = calls'
    OBVIOUS
  <2> QED BY <2>1
<1> HIDE DEF Unsettled, Selected
<1> QED BY <1>2, <1>3, <1>4 DEF MadeTrace

LEMMA MadeAsked ==
    ASSUME Inv, Going, Pairs, Made, MadeTrace, pc \in {"start", "loop"},
           UNCHANGED <<benchmark, adapter, calls, curve>>,
           NEW op \in {"init", "tool", "close"}, NEW r \in AllRows, r.dir = "request", r.op = op,
           transcript' = Append(transcript, r), pc' = op, channel'.at = "logged"
    PROVE  MadeTrace'
<1>1. channel.at = "none"
  BY NoRequestType DEF Inv, Conversation
<1>2. transcript \in Seq(AllRows) /\ AllAnswered(transcript)
  BY <1>1, TurnState
<1>3. calls \in Nat /\ adapter.stable \in Nat
  BY StableGrows DEF Inv, Typed
<1>4. /\ Book(transcript, curve, {}, adapter.stable)
      /\ Cardinality(StepsOf(transcript)) = calls /\ Cardinality(StepsOf(transcript)) = Len(curve)
  BY <1>3 DEF MadeTrace, Unsettled
<1>5. Book(transcript', curve, {}, adapter.stable) /\ StepsOf(transcript') = StepsOf(transcript)
  BY <1>2, <1>3, <1>4, QuietBook
<1> QED BY <1>3, <1>4, <1>5, MadeSettledTrace

\* The numbers of an answer to a step.
LEMMA MadeNumbers ==
    ASSUME Inv, Live, Pairs, Made, MadeTrace, channel.at = "answered"
    PROVE  /\ transcript \in Seq(AllRows) /\ curve \in Seq(Nat \X Nat)
           /\ calls \in Nat /\ adapter.stable \in Nat /\ Len(curve) \in Nat
           /\ Received \in AllRows /\ Received.dir = "response" /\ Received.ok = Answer.ok
           /\ Received.attempts = calls /\ Received.stable = adapter.stable
           /\ Answer.seen.attempts = calls /\ Answer.seen.stable = adapter.stable
           /\ Cardinality(StepsOf(transcript)) = calls
           /\ calls = Len(curve) + (IF pc \in {"step", "settle"} THEN 1 ELSE 0)
           /\ AskedLast(transcript, OpAt[pc])
<1>1. Going
  BY DEF Live, Going
<1>2. /\ transcript \in Seq(AllRows) /\ curve \in Seq(Nat \X Nat) /\ calls \in Nat
      /\ adapter \in States /\ adapter.attempts = calls
  BY DEF Inv, Typed, Accounting
<1>3. adapter.stable \in Nat
  BY <1>2, StableGrows
<1>4. ~Asked
  BY DEF Asked
<1>5. /\ Cardinality(StepsOf(transcript)) = calls
      /\ calls = Len(curve) + (IF pc \in {"step", "settle"} THEN 1 ELSE 0)
  BY <1>2, <1>4 DEF MadeTrace
<1>6. Observation(adapter).stable = adapter.stable
  BY DEF Observation
<1>7. /\ Received \in AllRows /\ Received.dir = "response" /\ Received.ok = Answer.ok
      /\ Received.attempts = adapter.attempts /\ Received.stable = Answer.seen.stable
      /\ Answer.seen.attempts = adapter.attempts /\ Answer.seen = Observation(adapter)
  BY AnswerState
<1>8. AskedLast(transcript, OpAt[pc])
  BY <1>1, TurnState
<1>9. Len(curve) \in Nat
  BY <1>2
<1> QED BY <1>2, <1>3, <1>5, <1>6, <1>7, <1>8, <1>9

LEMMA MadeReceive ==
    ASSUME Inv, Live, Pairs, Made, MadeTrace, channel.at = "answered",
           pc \in {"init", "observe", "close"}, UNCHANGED <<benchmark, adapter, calls, curve>>,
           Logged, pc' \in {"loop", "complete"}
    PROVE  MadeTrace'
<1>1. AllAnswered(transcript)
  BY MadeNumbers, TurnFacts, OpAtFacts DEF AskedLast
<1>2. /\ Book(transcript, curve, {}, adapter.stable)
  BY DEF MadeTrace, Unsettled
<1>3. Book(transcript', curve, {}, adapter.stable) /\ StepsOf(transcript') = StepsOf(transcript)
  BY <1>1, <1>2, MadeNumbers, QuietBook DEF Logged
<1>4. Cardinality(StepsOf(transcript')) = calls /\ calls = Len(curve) /\ calls \in Nat
  BY <1>3, MadeNumbers
<1> QED BY <1>3, <1>4, MadeSettledTrace

LEMMA MadeReceiveSettled ==
    ASSUME Inv, Pairs, Made, MadeTrace, ReceiveSettled
    PROVE  MadeTrace'
<1>1. /\ Live /\ channel.at = "answered" /\ pc = "settle"
      /\ transcript' = Append(transcript, Received) /\ pc' = "loop" /\ channel' = NoRequest
      /\ curve' = Append(curve, <<calls, Latest(curve)>>)
      /\ UNCHANGED <<benchmark, adapter, calls>>
  BY MadeNumbers DEF ReceiveSettled, Logged, CurveAfterFailure, Latest, physical
<1> DEFINE k == Len(transcript) - 2
<1>2. AllAnswered(transcript) /\ Len(transcript) \in Nat /\ transcript[Len(transcript)].op = "observe"
  BY <1>1, MadeNumbers, TurnFacts, OpAtFacts DEF AskedLast
<1>3. /\ Len(transcript) >= 3 /\ k \in StepsOf(transcript) /\ ~transcript[Len(transcript) - 1].ok
      /\ Book(transcript, curve, {k}, adapter.stable)
  BY <1>1 DEF MadeTrace, Unsettled
<1>4. k \notin Fruitful(transcript)
  <2>1. k + 1 = Len(transcript) - 1
    BY <1>2
  <2> QED BY <1>3, <2>1 DEF Fruitful
<1>5. \A i \in StepsOf(transcript) : i <= k
  <2> TAKE i \in StepsOf(transcript)
  <2>1. i \in 1 .. Len(transcript) /\ i < Len(transcript)
    BY <1>2, MadeNumbers, <1>1, StepsFacts DEF AllAnswered
  <2>2. i % 2 = 1 /\ Len(transcript) % 2 = 1
    <3>1. i \in Rows(transcript, "request")
      BY DEF StepsOf
    <3> QED BY <1>1, <2>1, <3>1, MadeNumbers, TurnFacts DEF AskedLast
  <2> QED BY <1>2, <2>1, <2>2
<1> HIDE DEF k
<1>6. /\ Book(transcript', curve, {k}, adapter.stable) /\ StepsOf(transcript') = StepsOf(transcript)
      /\ Fruitful(transcript') = Fruitful(transcript) /\ transcript' \in Seq(AllRows)
  BY <1>1, <1>2, <1>3, MadeNumbers, QuietBook, AppendRow
<1>7. Cardinality(StepsOf(transcript')) = calls /\ calls = Len(curve) + 1 /\ calls \in Nat
  BY <1>1, <1>6, MadeNumbers
<1>8. Book(transcript', curve', {}, adapter.stable)
  BY <1>1, <1>3, <1>4, <1>5, <1>6, <1>7, MadeNumbers, BookSettled
<1>9. Len(curve') = calls
  <2>1. Latest(curve) \in Nat
    BY <1>1, MadeNumbers, LatestType
  <2> QED BY <1>1, <1>7, <2>1, MadeNumbers, CurvePoint DEF Point
<1> QED BY <1>1, <1>7, <1>8, <1>9, MadeSettledTrace

LEMMA MadeStepOk ==
    ASSUME Inv, Pairs, Made, MadeTrace, ReceiveMadeStep, Answer.ok
    PROVE  MadeTrace'
<1>1. /\ Live /\ channel.at = "answered" /\ pc = "step"
      /\ transcript' = Append(transcript, Received) /\ pc' = "loop"
      /\ curve' = Append(curve, <<calls, adapter.stable>>)
      /\ UNCHANGED <<benchmark, adapter, calls>>
  BY MadeNumbers DEF ReceiveMadeStep, Logged, physical
<1>2. Len(transcript) \in StepsOf(transcript)
  BY <1>1, MadeNumbers, TurnFacts, OpAtFacts DEF AskedLast
<1>3. Book(transcript, curve, {Len(transcript)}, adapter.stable)
  BY <1>1 DEF MadeTrace, Unsettled
<1>4. Cardinality(StepsOf(transcript)) = calls /\ calls = Len(curve) + 1 /\ calls \in Nat
  BY <1>1, MadeNumbers
<1>5. /\ transcript \in Seq(AllRows) /\ curve \in Seq(Nat \X Nat) /\ adapter.stable \in Nat
      /\ Received \in AllRows /\ Received.dir = "response" /\ Received.ok
      /\ Received.attempts = calls /\ Received.stable = adapter.stable
  BY <1>1, MadeNumbers
<1>6. Book(transcript', curve', {}, adapter.stable)
  <2>1. PICK r \in AllRows : r = Received
    BY <1>5
  <2>2. PICK s \in Nat : s = adapter.stable
    BY <1>5
  <2>3. s <= s
    BY <2>2
  <2>4. transcript' = Append(transcript, r) /\ curve' = Append(curve, <<calls, s>>)
    BY <1>1, <2>1, <2>2
  <2>5. r.dir = "response" /\ r.ok /\ r.attempts = calls /\ r.stable = s
    BY <1>5, <2>1, <2>2
  <2>6. Book(transcript, curve, {Len(transcript)}, s)
    BY <1>3, <2>2
  <2>7. Book(transcript', curve', {}, s)
    BY <1>2, <1>4, <1>5, <2>3, <2>4, <2>5, <2>6, BookOk
  <2> QED BY <2>2, <2>7
<1>7. StepsOf(transcript') = StepsOf(transcript)
  BY <1>1, <1>2, MadeNumbers, AnswerRow DEF AnswerAdded
<1>8. Len(curve') = calls
  BY <1>1, <1>4, MadeNumbers, CurvePoint DEF Point
<1> QED BY <1>1, <1>4, <1>6, <1>7, <1>8, MadeSettledTrace

LEMMA MadeStepFailed ==
    ASSUME Inv, Pairs, Made, MadeTrace, ReceiveMadeStep, ~Answer.ok
    PROVE  Pairs' /\ MadeTrace'
<1>1. /\ Live /\ channel.at = "answered" /\ pc = "step" /\ LogAndAsk("observe", "settle")
      /\ pc' = "settle" /\ channel'.at = "logged"
      /\ UNCHANGED <<benchmark, adapter, env, calls, curve>>
  BY DEF ReceiveMadeStep, LogAndAsk, physical, NoRequest
<1>2. Len(transcript) \in StepsOf(transcript)
  BY <1>1, MadeNumbers, TurnFacts, OpAtFacts DEF AskedLast
<1>3. Book(transcript, curve, {Len(transcript)}, adapter.stable)
  BY <1>1 DEF MadeTrace, Unsettled
<1>4. PICK v \in Seq(AllRows), r \in AllRows :
         /\ v = Append(transcript, Received) /\ AllPaired(v) /\ AllAnswered(v)
         /\ r.dir = "request" /\ r.op = "observe" /\ transcript' = Append(v, r)
  BY <1>1, PairsBoth DEF Ops
<1>5. Cardinality(StepsOf(transcript)) = calls /\ calls = Len(curve) + 1 /\ calls \in Nat
  BY <1>1, MadeNumbers
<1>6. Book(v, curve, {Len(transcript)}, adapter.stable) /\ StepsOf(v) = StepsOf(transcript)
  <2>1. Book(v, curve, {Len(transcript)}, adapter.stable)
    BY <1>1, <1>2, <1>3, <1>4, <1>5, MadeNumbers, BookFailed
  <2>2. AnswerAdded(transcript, v, Received)
    BY <1>1, <1>2, <1>4, MadeNumbers, AnswerRow
  <2> QED BY <2>1, <2>2 DEF AnswerAdded
<1>7. /\ Book(transcript', curve, {Len(transcript)}, adapter.stable)
      /\ StepsOf(transcript') = StepsOf(transcript)
  BY <1>1, <1>4, <1>6, MadeNumbers, QuietBook
<1>8. /\ Len(transcript') = Len(transcript) + 2 /\ Len(transcript) \in Nat /\ Len(transcript) >= 1
      /\ transcript'[Len(transcript) + 1] = Received
  <2>1. /\ Len(v) = Len(transcript) + 1 /\ Len(transcript) \in Nat /\ v[Len(v)] = Received
    BY <1>1, <1>4, MadeNumbers, AppendRow
  <2>2. Len(transcript') = Len(v) + 1 /\ \A i \in 1 .. Len(v) : transcript'[i] = v[i]
    BY <1>4, AppendRow
  <2>3. Len(transcript) \in 1 .. Len(transcript)
    BY <1>1, <1>2, MadeNumbers, StepsFacts
  <2>4. Len(v) \in 1 .. Len(v)
    BY <2>1, <2>3
  <2> QED BY <2>1, <2>2, <2>3, <2>4
<1>9. Unsettled' = {Len(transcript)}
  <2>1. Len(transcript') - 2 = Len(transcript)
    BY <1>8
  <2> QED BY <1>1, <2>1 DEF Unsettled
<1>10. /\ Len(transcript') >= 3 /\ Len(transcript') - 2 \in StepsOf(transcript')
       /\ ~transcript'[Len(transcript') - 1].ok
  <2>1. Len(transcript') - 2 = Len(transcript) /\ Len(transcript') - 1 = Len(transcript) + 1
    BY <1>8
  <2>2. ~Received.ok
    BY <1>1, MadeNumbers
  <2> QED BY <1>2, <1>7, <1>8, <2>1, <2>2
<1>11. Book(transcript, curve, Unsettled, adapter.stable)'
  BY <1>1, <1>7, <1>9
<1>12. /\ Cardinality(StepsOf(transcript')) = calls' + 0
       /\ Cardinality(StepsOf(transcript')) = Len(curve') + 1
  BY <1>1, <1>5, <1>7
<1>13. ~Selected'
  BY <1>1 DEF Selected
<1>14. MadeTrace'
  <2> HIDE DEF Unsettled, Selected
  <2> QED BY <1>1, <1>10, <1>11, <1>12, <1>13 DEF MadeTrace
<1>15. Pairs'
  BY <1>1, PairsBoth DEF Ops
<1> QED BY <1>14, <1>15

LEMMA MadeReceiveTool ==
    ASSUME Inv, Pairs, Made, MadeTrace, ReceiveTool
    PROVE  Pairs' /\ MadeTrace'
<1>1. /\ Live /\ channel.at = "answered" /\ pc = "tool"
      /\ IF Selected THEN LogAndAsk("step", "step") ELSE LogAndAsk("observe", "observe")
      /\ UNCHANGED <<benchmark, adapter, env, calls, curve>>
  BY DEF ReceiveTool, Selected, physical
<1>2. PICK op \in {"step", "observe"} : LogAndAsk(op, op) /\ (op = "step" => Selected)
  BY <1>1
<1>3. pc' = op /\ channel'.at = "logged" /\ channel'.op = op
  BY <1>2 DEF LogAndAsk, NoRequest
<1>4. /\ Pairs'
      /\ \E v \in Seq(AllRows), r \in AllRows :
            /\ v = Append(transcript, Received) /\ AllPaired(v) /\ AllAnswered(v)
            /\ r.dir = "request" /\ r.op = op /\ transcript' = Append(v, r)
  <2>1. op \in Ops /\ op \in {"step", "observe", "settle", "reset"}
    BY DEF Ops
  <2>2. Live /\ channel.at = "answered" /\ pc \in {"tool", "step"} /\ env' = env /\ LogAndAsk(op, op)
    BY <1>1, <1>2
  <2> QED BY <2>1, <2>2, PairsBoth
<1>5. PICK v \in Seq(AllRows), r \in AllRows :
         /\ v = Append(transcript, Received) /\ AllPaired(v) /\ AllAnswered(v)
         /\ r.dir = "request" /\ r.op = op /\ transcript' = Append(v, r)
  BY <1>4
<1>6. AllAnswered(transcript)
  BY <1>1, MadeNumbers, TurnFacts, OpAtFacts DEF AskedLast
<1>7. Book(transcript, curve, {}, adapter.stable)
  BY <1>1 DEF MadeTrace, Unsettled
<1>8. Cardinality(StepsOf(transcript)) = calls /\ calls = Len(curve) /\ calls \in Nat
  BY <1>1, MadeNumbers
<1>9. Book(v, curve, {}, adapter.stable) /\ StepsOf(v) = StepsOf(transcript)
  BY <1>1, <1>5, <1>6, <1>7, MadeNumbers, QuietBook
<1>10. CASE op = "observe"
  <2>1. Book(transcript', curve, {}, adapter.stable) /\ StepsOf(transcript') = StepsOf(v)
    <3>1. adapter.stable \in Nat /\ r.op # "step"
      BY <1>1, <1>5, <1>10, MadeNumbers
    <3> QED BY <1>5, <1>9, <3>1, QuietBook
  <2>2. MadeTrace'
    BY <1>1, <1>3, <1>8, <1>9, <1>10, <2>1, MadeSettledTrace
  <2> QED BY <1>4, <2>2
<1>11. CASE op = "step"
  <2>1. Book(transcript', curve, {Len(transcript')}, adapter.stable)
    <3>1. PICK u : u = transcript'
      OBVIOUS
    <3>2. r.dir = "request" /\ r.op = "step" /\ u = Append(v, r) /\ AllAnswered(v)
      BY <1>5, <1>11, <3>1
    <3>3. Book(u, curve, {Len(u)}, adapter.stable)
      <4>1. PICK c, s : c = curve /\ s = adapter.stable
        OBVIOUS
      <4>2. v \in Seq(AllRows) /\ r \in AllRows /\ Book(v, c, {}, s)
        BY <1>5, <1>9, <4>1
      <4>3. Book(u, c, {Len(u)}, s)
        BY <3>2, <4>2, BookStep, Zenon
      <4> QED BY <4>1, <4>3
    <3> QED BY <3>1, <3>3, Zenon
  <2>2. Cardinality(StepsOf(transcript')) = calls + 1
    <3>1. PICK u : u = transcript'
      OBVIOUS
    <3>2. r.dir = "request" /\ r.op = "step" /\ u = Append(v, r) /\ AllAnswered(v)
      BY <1>5, <1>11, <3>1
    <3>3. StepAdded(v, u)
      BY <1>5, <3>2, StepRow, Zenon
    <3>4. Cardinality(StepsOf(u)) = Cardinality(StepsOf(v)) + 1
      BY <3>3 DEF StepAdded
    <3> QED BY <1>8, <1>9, <3>1, <3>4, Zenon
  <2>3. channel.op = "tool"
    BY <1>1, TurnState, OpAtFacts DEF Live, Going
  <2>4. MayStep'
    BY <1>1, <1>2, <1>3, <1>11, <2>3, MayStepSame DEF MadeTrace
  <2>5. Unsettled' = {Len(transcript')} /\ Asked'
    BY <1>3, <1>11 DEF Unsettled, Asked
  <2>6. Book(transcript, curve, Unsettled, adapter.stable)'
    BY <1>1, <2>1, <2>5
  <2>7. /\ Cardinality(StepsOf(transcript')) = calls' + 1
        /\ Cardinality(StepsOf(transcript')) = Len(curve') + 1
    BY <1>1, <1>8, <2>2
  <2>8. MadeTrace'
    <3> HIDE DEF Unsettled, Asked, MayStep
    <3> QED BY <1>3, <1>11, <2>4, <2>5, <2>6, <2>7 DEF MadeTrace
  <2> QED BY <1>4, <2>8
<1> QED BY <1>10, <1>11

-----------------------------------------------------------------------------
(* The trace of a CrystalGym session *)

\* The last site is known before the step and told after it.
LEMMA LastSite ==
    ASSUME ~Made, adapter \in States
    PROVE  /\ CrystalTerminal(adapter) \in BOOLEAN
           /\ \A invoked \in BOOLEAN : CrystalTerminal(Begun(invoked)) <=> CrystalTerminal(adapter)
           /\ \A invoked \in BOOLEAN : \A a \in Ended(TRUE, invoked) :
                 a.final <=> CrystalTerminal(adapter)
<1>1. adapter \in CrystalStates
  BY DEF States
<1>2. CrystalTerminal(adapter) \in BOOLEAN
  BY DEF CrystalTerminal
<1>3. ASSUME NEW invoked \in BOOLEAN
      PROVE  CrystalTerminal(Begun(invoked)) <=> CrystalTerminal(adapter)
  <2>1. CASE CrystalTerminal(adapter)
    <3>1. Begun(invoked) = [adapter EXCEPT !.attempts = adapter.attempts + 1]
      BY <1>1, <2>1 DEF Begun, CrystalCounted, CrystalStates
    <3>2. Begun(invoked).filled = adapter.filled
      BY <1>1, <3>1 DEF CrystalStates
    <3> QED BY <3>2 DEF CrystalTerminal
  <2>2. CASE ~CrystalTerminal(adapter)
    BY <2>2 DEF Begun, CrystalCounted
  <2> QED BY <2>1, <2>2
<1>4. ASSUME NEW invoked \in BOOLEAN, NEW a \in Ended(TRUE, invoked)
      PROVE  a.final <=> CrystalTerminal(adapter)
  <2> DEFINE filled == [adapter EXCEPT !.filled = adapter.filled + 1]
             terminal == CrystalTerminal(adapter)
  <2>1. a = [filled EXCEPT !.final = terminal]
    BY <1>1 DEF Ended, CrystalMeasured, CrystalStates
  <2>2. filled \in CrystalStates
    BY <1>1 DEF CrystalStates
  <2> HIDE DEF filled, terminal
  <2>3. a.final = terminal
    BY <2>1, <2>2 DEF CrystalStates
  <2> QED BY <2>3 DEF terminal
<1> QED BY <1>2, <1>3, <1>4

\* What remains to be shown of a step that adds no row.
LEMMA CrystalStill ==
    ASSUME CrystalTrace, transcript' = transcript, curve' = curve, pc' = pc,
           pc = "loop" => EpisodeDone(adapter)' = EpisodeDone(adapter),
           pc # "step" \/ Asked' => calls' = Len(curve),
           pc = "step" /\ channel'.at = "working" =>
              calls' = Len(curve) + (IF CrystalTerminal(adapter)' THEN 1 ELSE 0),
           pc = "step" /\ channel'.at = "answered" /\ Answer'.ok =>
              calls' = Len(curve) + (IF adapter'.final THEN 1 ELSE 0)
    PROVE  CrystalTrace'
<1>1. Session(transcript, curve)' /\ pc' \notin {"tool", "observe", "settle"}
  BY DEF CrystalTrace
<1>2. pc' # "step" \/ Asked' => calls' = Len(curve')
  OBVIOUS
<1>3. pc' = "step" /\ channel'.at = "working" =>
         calls' = Len(curve') + (IF CrystalTerminal(adapter)' THEN 1 ELSE 0)
  OBVIOUS
<1>4. pc' = "step" /\ channel'.at = "answered" /\ Answer'.ok =>
         calls' = Len(curve') + (IF adapter'.final THEN 1 ELSE 0)
  OBVIOUS
<1>5. pc' = "step" => BaseOf(transcript', Len(transcript'), Len(curve'))
  BY DEF CrystalTrace
<1>6. pc' = "loop" /\ ~EpisodeDone(adapter)' => BaseOf(transcript', Len(transcript') + 1, Len(curve'))
  BY DEF CrystalTrace
<1> QED BY <1>1, <1>2, <1>3, <1>4, <1>5, <1>6, Zenon DEF CrystalTrace

LEMMA CrystalServe ==
    ASSUME Inv, Going, Pairs, ~Made, CrystalTrace, Serve
    PROVE  CrystalTrace'
<1>1. /\ env = "up" /\ channel.at = "sent"
      /\ UNCHANGED <<benchmark, calls, skipped, transcript, pc, curve>>
  BY DEF Serve, client
<1>2. PICK outcome \in Outcomes :
         /\ adapter' = outcome.adapter /\ Answered(outcome.adapter, outcome.ok)
  BY DEF Serve
<1>3. outcome.adapter \in States /\ outcome.ok \in BOOLEAN /\ (channel.op = "step" => ~outcome.ok)
  BY <1>1, OutcomeFacts
<1>4. channel'.at = "answered" /\ channel'.answer.ok = outcome.ok
  BY <1>2, <1>3, AnsweredFacts DEF Inv, Typed
<1>5. channel.op = OpAt[pc] /\ pc \in DOMAIN OpAt
  BY <1>1, TurnState
<1>6. pc = "step" => ~Answer'.ok
  BY <1>3, <1>4, <1>5, OpAtFacts DEF Answer
<1>7. ~Asked' /\ channel'.at # "working"
  BY <1>4 DEF Asked
<1>8. pc # "loop"
  BY <1>5, OpAtFacts
<1>9. pc # "step" => calls = Len(curve)
  BY DEF CrystalTrace
<1> HIDE DEF Asked, Answer
<1> QED BY <1>1, <1>6, <1>7, <1>8, <1>9, CrystalStill

LEMMA CrystalBeginStep ==
    ASSUME Inv, Going, Pairs, ~Made, CrystalTrace, BeginStep
    PROVE  CrystalTrace'
<1>1. /\ channel.at = "sent" /\ channel.op = "step"
      /\ UNCHANGED <<benchmark, env, transcript, pc, curve>>
  BY DEF BeginStep, client
<1>2. PICK invoked \in BOOLEAN :
         /\ invoked \/ (Made /\ skipped < MaxSkips)
         /\ adapter' = Begun(invoked)
         /\ calls' = IF invoked /\ (Made \/ CrystalTerminal(adapter)) THEN calls + 1 ELSE calls
         /\ channel' = [channel EXCEPT !.at = "working", !.answer = <<invoked>>]
  BY DEF BeginStep, Begun
<1>3. adapter \in States /\ channel \in Channels /\ calls \in Nat
  BY DEF Inv, Typed
<1>4. channel'.at = "working"
  BY <1>2, <1>3 DEF Channels
<1>5. pc = "step" /\ Asked
  BY <1>1, TurnState, OpAtFacts DEF Asked
<1>6. calls = Len(curve)
  BY <1>5 DEF CrystalTrace
<1>7. CrystalTerminal(adapter)' <=> CrystalTerminal(adapter)
  <2>1. CrystalTerminal(adapter)' <=> CrystalTerminal(adapter')
    BY DEF CrystalTerminal
  <2> HIDE DEF CrystalTerminal
  <2> QED BY <1>2, <1>3, <2>1, LastSite
<1> HIDE DEF CrystalTerminal
<1>8. calls' = Len(curve) + (IF CrystalTerminal(adapter)' THEN 1 ELSE 0)
  BY <1>2, <1>3, <1>6, <1>7
<1>9. ~Asked' /\ channel'.at # "answered" /\ pc # "loop"
  BY <1>4, <1>5 DEF Asked
<1> HIDE DEF Asked, Answer
<1> QED BY <1>1, <1>5, <1>8, <1>9, CrystalStill

LEMMA CrystalEndStep ==
    ASSUME Inv, Going, Pairs, ~Made, CrystalTrace, EndStep
    PROVE  CrystalTrace'
<1>1. /\ channel.at = "working" /\ UNCHANGED <<benchmark, env, calls, skipped, transcript, pc, curve>>
  BY DEF EndStep, client
<1>2. channel.op = "step" /\ channel.answer[1] \in BOOLEAN
  <2>1. PICK invoked \in BOOLEAN : channel.answer = <<invoked>>
    BY <1>1 DEF Inv, Conversation, Invocations
  <2> QED BY <1>1, <2>1 DEF Inv, Conversation
<1>3. PICK ok \in BOOLEAN : \E a \in Ended(ok, channel.answer[1]) : adapter' = a /\ Answered(a, ok)
  BY DEF EndStep, Ended
<1>4. PICK a \in Ended(ok, channel.answer[1]) : adapter' = a /\ Answered(a, ok)
  BY <1>3
<1>5. adapter \in States /\ channel \in Channels
  BY DEF Inv, Typed
<1>6. channel'.at = "answered" /\ channel'.answer.ok = ok
  BY <1>2, <1>4, <1>5, EndedFacts, AnsweredFacts
<1>7. pc = "step"
  BY <1>1, <1>2, TurnState, OpAtFacts
<1>8. calls = Len(curve) + (IF CrystalTerminal(adapter) THEN 1 ELSE 0)
  BY <1>1, <1>7 DEF CrystalTrace
<1>9. ok => (adapter'.final <=> CrystalTerminal(adapter))
  BY <1>2, <1>4, <1>5, LastSite
<1>10. Answer'.ok => calls' = Len(curve) + (IF adapter'.final THEN 1 ELSE 0)
  <2> HIDE DEF CrystalTerminal
  <2> QED BY <1>1, <1>6, <1>8, <1>9 DEF Answer
<1>11. ~Asked' /\ channel'.at # "working"
  BY <1>6 DEF Asked
<1> HIDE DEF Asked, Answer, CrystalTerminal
<1> QED BY <1>1, <1>7, <1>10, <1>11, CrystalStill

LEMMA CrystalIdle ==
    ASSUME Inv, ~Made, CrystalTrace, UNCHANGED <<benchmark, adapter, calls, transcript, curve>>,
           \/ pc' = pc /\ channel' = channel
           \/ pc' = pc /\ channel.at = "logged" /\ channel' = [channel EXCEPT !.at = "sent"]
           \/ pc = "loop" /\ pc' = "complete" /\ channel' = channel
    PROVE  CrystalTrace'
<1>1. channel \in Channels
  BY DEF Inv, Typed
<1>2. EpisodeDone(adapter)' = EpisodeDone(adapter) /\ CrystalTerminal(adapter)' = CrystalTerminal(adapter)
  BY DEF EpisodeDone, CrystalTerminal, Made
<1> HIDE DEF EpisodeDone, CrystalTerminal
<1>3. CASE pc' = pc /\ channel' = channel
  <2>1. (Asked' <=> Asked) /\ Answer' = Answer
    BY <1>3 DEF Asked, Answer
  <2> HIDE DEF Asked, Answer
  <2>2. pc # "step" \/ Asked' => calls' = Len(curve)
    BY <2>1 DEF CrystalTrace
  <2>3. pc = "step" /\ channel'.at = "working" =>
           calls' = Len(curve) + (IF CrystalTerminal(adapter)' THEN 1 ELSE 0)
    BY <1>2, <1>3 DEF CrystalTrace
  <2>4. pc = "step" /\ channel'.at = "answered" /\ Answer'.ok =>
           calls' = Len(curve) + (IF adapter'.final THEN 1 ELSE 0)
    BY <1>3, <2>1 DEF CrystalTrace
  <2> QED BY <1>2, <1>3, <2>2, <2>3, <2>4, CrystalStill
<1>4. CASE pc' = pc /\ channel.at = "logged" /\ channel' = [channel EXCEPT !.at = "sent"]
  <2>1. channel'.at = "sent" /\ Asked
    BY <1>1, <1>4 DEF Channels, Asked
  <2>2. calls' = Len(curve)
    BY <2>1 DEF CrystalTrace
  <2>3. channel'.at \notin {"working", "answered"}
    BY <2>1
  <2> HIDE DEF Asked, Answer
  <2> QED BY <1>2, <1>4, <2>2, <2>3, CrystalStill
<1>5. CASE pc = "loop" /\ pc' = "complete" /\ channel' = channel
  <2>1. Session(transcript', curve') /\ calls' = Len(curve')
    BY <1>5 DEF CrystalTrace
  <2> HIDE DEF Asked, Answer
  <2> QED BY <1>5, <2>1 DEF CrystalTrace
<1> QED BY <1>3, <1>4, <1>5

\* The trace of a session that waits for no step.
LEMMA CrystalSettledTrace ==
    ASSUME pc' \notin {"tool", "observe", "settle", "step"}, Session(transcript', curve'),
           calls' = Len(curve'),
           pc' = "loop" /\ ~EpisodeDone(adapter)' => BaseOf(transcript', Len(transcript') + 1, Len(curve'))
    PROVE  CrystalTrace'
<1> HIDE DEF Asked, Answer, EpisodeDone
<1> QED BY DEF CrystalTrace

LEMMA CrystalAsked ==
    ASSUME Inv, Going, Pairs, ~Made, CrystalTrace, NEW op \in {"init", "step", "close"},
           pc \in {"start", "loop"}, op = "step" => pc = "loop" /\ ~EpisodeDone(adapter),
           UNCHANGED <<benchmark, adapter, calls, curve>>,
           NEW r \in AllRows, r.dir = "request", r.op = op,
           transcript' = Append(transcript, r), pc' = op, channel'.at = "logged"
    PROVE  CrystalTrace'
<1>1. channel.at = "none"
  BY NoRequestType DEF Inv, Conversation
<1>2. /\ transcript \in Seq(AllRows) /\ AllPaired(transcript) /\ AllAnswered(transcript)
      /\ Len(transcript) \in Nat
  BY <1>1, TurnState
<1>3. /\ Len(transcript) \notin Rows(transcript, "request")
      /\ Len(transcript) \notin StepsOf(transcript)
  BY <1>2, TurnFacts DEF AllPaired, StepsOf
<1>4. Session(transcript, curve) /\ calls = Len(curve)
  BY DEF CrystalTrace
<1>5. Session(transcript', curve)
  BY <1>2, <1>3, <1>4, SessionQuiet
<1>6. CASE op = "step"
  <2>1. BaseOf(transcript, Len(transcript) + 1, Len(curve))
    <3> HIDE DEF EpisodeDone
    <3> QED BY <1>6 DEF CrystalTrace
  <2>2. Len(transcript') = Len(transcript) + 1
    BY <1>2, AppendRow
  <2>3. Len(transcript) + 1 \in Int /\ Len(transcript) + 1 <= Len(transcript) + 1
    BY <1>2
  <2>4. BaseOf(transcript', Len(transcript'), Len(curve'))
    BY <1>2, <2>1, <2>2, <2>3, BaseSame
  <2>5. channel'.at \notin {"working", "answered"} /\ pc' = "step"
    BY <1>6
  <2> HIDE DEF Asked, Answer, EpisodeDone
  <2> QED BY <1>4, <1>5, <2>4, <2>5 DEF CrystalTrace
<1>7. CASE op # "step"
  BY <1>4, <1>5, <1>7, CrystalSettledTrace
<1> QED BY <1>6, <1>7

\* The numbers of an answer.
LEMMA CrystalNumbers ==
    ASSUME Inv, Live, Pairs, ~Made, CrystalTrace, channel.at = "answered"
    PROVE  /\ transcript \in Seq(AllRows) /\ curve \in Seq(Nat \X Nat)
           /\ calls \in Nat /\ Len(curve) \in Nat /\ Session(transcript, curve)
           /\ Received \in AllRows /\ Received.dir = "response" /\ Received.ok = Answer.ok
           /\ Received.attempts = calls /\ (Received.final <=> adapter.final)
           /\ Answer.seen.attempts = calls /\ (Answer.seen.final <=> adapter.final)
           /\ Answer.seen.done = EpisodeDone(adapter)
           /\ pc # "step" => calls = Len(curve)
           /\ pc = "step" /\ Answer.ok => calls = Len(curve) + (IF adapter.final THEN 1 ELSE 0)
           /\ pc = "step" => BaseOf(transcript, Len(transcript), Len(curve))
           /\ AskedLast(transcript, OpAt[pc])
<1>1. Going
  BY DEF Live, Going
<1>2. /\ transcript \in Seq(AllRows) /\ curve \in Seq(Nat \X Nat) /\ calls \in Nat
      /\ adapter \in States /\ adapter.attempts = calls
  BY DEF Inv, Typed, Accounting
<1>3. Observation(adapter).final = adapter.final
  BY DEF Observation
<1>4. /\ Received \in AllRows /\ Received.dir = "response" /\ Received.ok = Answer.ok
      /\ Received.attempts = adapter.attempts /\ Received.final = Answer.seen.final
      /\ Answer.seen.attempts = adapter.attempts /\ Answer.seen = Observation(adapter)
      /\ Answer.seen.done = EpisodeDone(adapter)
  BY AnswerState
<1>5. AskedLast(transcript, OpAt[pc])
  BY <1>1, TurnState
<1>6. Len(curve) \in Nat
  BY <1>2
<1> HIDE DEF Answer, EpisodeDone
<1>7. /\ Session(transcript, curve)
      /\ pc # "step" => calls = Len(curve)
      /\ pc = "step" /\ Answer.ok => calls = Len(curve) + (IF adapter.final THEN 1 ELSE 0)
      /\ pc = "step" => BaseOf(transcript, Len(transcript), Len(curve))
  BY DEF CrystalTrace
<1> QED BY <1>2, <1>3, <1>4, <1>5, <1>6, <1>7

\* The answer to a start, or to the close.
LEMMA CrystalReceive ==
    ASSUME Inv, Live, Pairs, ~Made, CrystalTrace, channel.at = "answered",
           \/ pc \in {"init", "reset"} /\ Answer.ok /\ pc' = "loop"
           \/ pc = "close" /\ pc' # "loop" /\ pc' \notin {"tool", "observe", "settle", "step"},
           UNCHANGED <<benchmark, adapter, calls, curve>>, Logged
    PROVE  CrystalTrace'
<1>1. transcript' = Append(transcript, Received) /\ OpAt[pc] = pc /\ pc \in {"init", "reset", "close"}
  BY OpAtFacts DEF Logged
<1>2. /\ Len(transcript) \notin StepsOf(transcript) /\ transcript[Len(transcript)].op = pc
      /\ Len(transcript) \in Starts(transcript) <=> pc \in {"init", "reset"}
  <2>1. AskedLast(transcript, pc) /\ transcript \in Seq(AllRows) /\ Alternates(transcript)
    BY <1>1, CrystalNumbers DEF AskedLast
  <2>2. Len(transcript) \in Starts(transcript) <=> pc \in {"init", "reset"}
    BY <2>1, TurnFacts
  <2> QED BY <1>1, <2>1, <2>2 DEF AskedLast, StepsOf
<1>3. Session(transcript', curve)
  <2>1. pc = "reset" => Received.ok
    BY CrystalNumbers
  <2> QED BY <1>1, <1>2, <2>1, CrystalNumbers, SessionQuiet
<1>4. calls = Len(curve)
  BY <1>1, CrystalNumbers
<1>5. pc' = "loop" => BaseOf(transcript', Len(transcript') + 1, Len(curve))
  <2>1. Received.attempts = Len(curve)
    BY <1>4, CrystalNumbers
  <2> QED BY <1>1, <1>2, <2>1, CrystalNumbers, BaseNew
<1>6. pc' \notin {"tool", "observe", "settle", "step"}
  OBVIOUS
<1> HIDE DEF EpisodeDone, Answer
<1> QED BY <1>3, <1>4, <1>5, <1>6, CrystalSettledTrace

LEMMA CrystalReceiveSite ==
    ASSUME Inv, Pairs, ~Made, CrystalTrace, ReceiveSite
    PROVE  Pairs' /\ CrystalTrace'
<1>1. /\ Live /\ channel.at = "answered" /\ pc = "step" /\ Answer.ok
      /\ curve' = IF Answer.seen.final THEN Append(curve, <<Answer.seen.attempts, 0>>) ELSE curve
      /\ IF Answer.seen.final /\ ~Answer.seen.done THEN LogAndAsk("reset", "reset")
                                      ELSE Logged /\ pc' = "loop" /\ channel' = NoRequest
      /\ UNCHANGED <<benchmark, adapter, env, calls>>
  BY DEF ReceiveSite, physical
<1>2. PICK v : v = Append(transcript, Received)
  OBVIOUS
<1>3. /\ v \in Seq(AllRows) /\ Len(v) \in Nat /\ AllPaired(v) /\ AllAnswered(v)
  BY <1>1, <1>2, PairsAnswered
<1>4. /\ Len(transcript) \in StepsOf(transcript) /\ Len(transcript) \notin Starts(transcript)
  <2>1. AskedLast(transcript, "step") /\ transcript \in Seq(AllRows) /\ Alternates(transcript)
    BY <1>1, OpAtFacts, CrystalNumbers DEF AskedLast
  <2> QED BY <2>1, TurnFacts
<1>5. EpisodeDone(adapter)' = EpisodeDone(adapter)
  BY <1>1 DEF EpisodeDone, Made
<1> HIDE DEF EpisodeDone, Answer
<1>6. CASE ~adapter.final
  <2>1. curve' = curve /\ transcript' = v /\ pc' = "loop" /\ channel' = NoRequest /\ Logged
    BY <1>1, <1>2, <1>6, CrystalNumbers DEF Logged
  <2>2. Session(v, curve)
    BY <1>1, <1>2, <1>4, <1>6, CrystalNumbers, SessionQuiet
  <2>3. calls = Len(curve)
    BY <1>1, <1>6, CrystalNumbers
  <2>4. BaseOf(v, Len(v) + 1, Len(curve))
    BY <1>1, <1>2, <1>4, CrystalNumbers, BaseAfter
  <2>5. CrystalTrace'
    BY <1>1, <2>1, <2>2, <2>3, <2>4, CrystalSettledTrace
  <2>6. Pairs'
    BY <1>1, <2>1, PairsLogged
  <2> QED BY <2>5, <2>6
<1>7. CASE adapter.final
  <2>1. curve' = Append(curve, <<calls, 0>>)
    BY <1>1, <1>7, CrystalNumbers
  <2>2. calls = Len(curve) + 1 /\ Received.final /\ Received.attempts = Len(curve) + 1 /\ Received.ok
    BY <1>1, <1>7, CrystalNumbers
  <2>3. Len(curve') = Len(curve) + 1
    BY <1>1, <2>1, CrystalNumbers, CurvePoint DEF Point
  <2>4. Session(v, curve')
    BY <1>1, <1>2, <1>4, <2>2, <2>3, CrystalNumbers, SessionFinal
  <2>5. CASE EpisodeDone(adapter)
    <3>1. transcript' = v /\ pc' = "loop" /\ channel' = NoRequest /\ Logged
      BY <1>1, <1>2, <2>5, CrystalNumbers DEF Logged
    <3>2. CrystalTrace'
      BY <1>1, <1>5, <2>2, <2>3, <2>4, <2>5, <3>1, CrystalSettledTrace
    <3>3. Pairs'
      BY <1>1, <3>1, PairsLogged
    <3> QED BY <3>2, <3>3
  <2>6. CASE ~EpisodeDone(adapter)
    <3>1. LogAndAsk("reset", "reset") /\ "reset" \in Ops
      BY <1>1, <1>7, <2>6, CrystalNumbers DEF Ops
    <3>2. /\ Pairs'
          /\ \E x \in Seq(AllRows), r \in AllRows :
                /\ x = Append(transcript, Received) /\ AllPaired(x) /\ AllAnswered(x)
                /\ r.dir = "request" /\ r.op = "reset" /\ transcript' = Append(x, r)
      BY <1>1, <3>1, PairsBoth
    <3>3. PICK r \in AllRows : r.dir = "request" /\ r.op = "reset" /\ transcript' = Append(v, r)
      BY <1>2, <3>2
    <3>4. Len(v) \notin Rows(v, "request") /\ Len(v) \notin StepsOf(v)
      BY <1>3, TurnFacts DEF AllPaired, StepsOf
    <3>5. Session(transcript', curve')
      BY <1>3, <2>4, <3>3, <3>4, SessionQuiet
    <3>6. pc' = "reset"
      BY <3>1 DEF LogAndAsk
    <3>7. CrystalTrace'
      BY <1>1, <2>2, <2>3, <3>5, <3>6, CrystalSettledTrace
    <3> QED BY <3>2, <3>7
  <2> QED BY <2>5, <2>6
<1> QED BY <1>6, <1>7

-----------------------------------------------------------------------------
(* Every step keeps the trace *)

Evidenced == IF Made THEN MadeTrace ELSE CrystalTrace

LEMMA TraceOf ==
    /\ Trace /\ Going => Pairs /\ (skipped = 0 => Evidenced)
    /\ (Going' => Pairs' /\ (skipped' = 0 => Evidenced')) => Trace'
    /\ benchmark' = benchmark => (Made' <=> Made)
<1>1. benchmark' = benchmark => (Made' <=> Made)
  BY DEF Made
<1>2. /\ Trace /\ Going => Pairs /\ (skipped = 0 => Evidenced)
      /\ (Going' => Pairs' /\ (skipped' = 0 => Evidenced')) => Trace'
  <2> HIDE DEF Made, MadeTrace, CrystalTrace, Pairs, Going
  <2> QED BY DEF Trace, Evidenced
<1> QED BY <1>1, <1>2

\* A step of neither the environment on a request nor of the client on its rows.
LEMMA TraceIdle ==
    ASSUME Inv, Trace, UNCHANGED <<benchmark, adapter, calls, skipped, transcript, curve>>,
           env' = env \/ env' = "dead",
           \/ pc' = pc /\ channel' = channel
           \/ pc' = pc /\ env' = env /\ channel.at = "logged" /\ channel' = [channel EXCEPT !.at = "sent"]
           \/ pc = "loop" /\ pc' = "complete" /\ channel' = channel
    PROVE  Trace'
<1> SUFFICES ASSUME Going'
             PROVE  Pairs' /\ (skipped' = 0 => Evidenced')
  BY TraceOf
<1>1. Going
  BY DEF Going
<1>2. Pairs /\ (skipped = 0 => Evidenced)
  BY <1>1, TraceOf
<1>3. Pairs'
  <2>1. CASE pc' = pc /\ channel' = channel
    BY <1>2, <2>1, PairsStill DEF Pairs
  <2>2. CASE pc' = pc /\ env' = env /\ channel.at = "logged" /\ channel' = [channel EXCEPT !.at = "sent"]
    <3>1. channel'.at = "sent" /\ channel'.op = channel.op
      BY <2>2 DEF Inv, Typed, Channels
    <3>2. env # "closed"
      <4>1. pc # "complete"
        BY <2>2 DEF Inv, Conversation
      <4> QED BY <1>2, <2>2, <4>1 DEF Pairs
    <3> QED BY <1>2, <2>2, <3>1, <3>2, PairsStill
  <2>3. CASE pc = "loop" /\ pc' = "complete" /\ channel' = channel
    <3>1. channel.at = "none"
      BY <2>3, NoRequestType DEF Inv, Conversation
    <3>2. env # "closed"
      BY <1>2, <2>3 DEF Pairs
    <3> QED BY <1>2, <2>3, <3>1, <3>2 DEF Pairs
  <2> QED BY <2>1, <2>2, <2>3
<1>4. ASSUME skipped' = 0
      PROVE  Evidenced'
  <2>1. Evidenced /\ (Made' <=> Made)
    BY <1>2, <1>4, TraceOf
  <2>2. Made => MadeTrace'
    BY <2>1, MadeIdle DEF Evidenced
  <2>3. ~Made => CrystalTrace'
    BY <2>1, CrystalIdle DEF Evidenced
  <2> HIDE DEF Made, MadeTrace, CrystalTrace
  <2> QED BY <2>1, <2>2, <2>3 DEF Evidenced
<1> QED BY <1>3, <1>4

LEMMA TraceServe ==
    ASSUME Inv, Trace, Serve
    PROVE  Trace'
<1>1. /\ env = "up" /\ channel.at = "sent"
      /\ UNCHANGED <<benchmark, calls, skipped, transcript, pc, curve>>
  BY DEF Serve, client
<1> SUFFICES ASSUME Going'
             PROVE  Pairs' /\ (skipped' = 0 => Evidenced')
  BY TraceOf
<1>2. Going
  BY <1>1 DEF Going
<1>3. Pairs /\ (skipped = 0 => Evidenced)
  BY <1>2, TraceOf
<1>4. Pairs'
  <2>1. PICK outcome \in Outcomes :
           /\ adapter' = outcome.adapter /\ Answered(outcome.adapter, outcome.ok)
           /\ env' = IF channel.op = "close" /\ outcome.ok THEN "closed" ELSE env
    BY DEF Serve
  <2>2. outcome.adapter \in States /\ outcome.ok \in BOOLEAN
    BY <1>1, OutcomeFacts
  <2>3. channel'.at = "answered" /\ channel'.op = channel.op /\ channel'.answer.ok = outcome.ok
    BY <2>1, <2>2, AnsweredFacts DEF Inv, Typed
  <2>4. channel.op = OpAt[pc] /\ pc \in DOMAIN OpAt
    BY <1>1, <1>2, <1>3, TurnState
  <2>5. env' = "closed" => pc = "close" /\ outcome.ok
    BY <1>1, <2>1, <2>4, OpAtFacts
  <2> QED BY <1>1, <1>3, <2>3, <2>5, PairsStill
<1>5. ASSUME skipped' = 0
      PROVE  Evidenced'
  <2>1. Evidenced /\ (Made' <=> Made)
    BY <1>1, <1>3, <1>5, TraceOf
  <2>2. Made => MadeTrace'
    BY <1>2, <1>3, <2>1, MadeServe DEF Evidenced
  <2>3. ~Made => CrystalTrace'
    BY <1>2, <1>3, <2>1, CrystalServe DEF Evidenced
  <2> HIDE DEF Made, MadeTrace, CrystalTrace
  <2> QED BY <2>1, <2>2, <2>3 DEF Evidenced
<1> QED BY <1>4, <1>5

LEMMA TraceBeginStep ==
    ASSUME Inv, Trace, BeginStep
    PROVE  Trace'
<1>1. /\ env = "up" /\ channel.at = "sent" /\ channel.op = "step"
      /\ UNCHANGED <<benchmark, env, transcript, pc, curve>>
  BY DEF BeginStep, client
<1>2. PICK invoked \in BOOLEAN : /\ skipped' = IF invoked THEN skipped ELSE skipped + 1
                                 /\ channel' = [channel EXCEPT !.at = "working", !.answer = <<invoked>>]
  BY DEF BeginStep
<1> SUFFICES ASSUME Going'
             PROVE  Pairs' /\ (skipped' = 0 => Evidenced')
  BY TraceOf
<1>3. Going
  BY <1>1 DEF Going
<1>4. Pairs /\ (skipped = 0 => Evidenced)
  BY <1>3, TraceOf
<1>5. Pairs'
  <2>1. channel'.at = "working" /\ channel'.op = channel.op
    BY <1>2 DEF Inv, Typed, Channels
  <2> QED BY <1>1, <1>4, <2>1, PairsStill
<1>6. ASSUME skipped' = 0
      PROVE  Evidenced'
  <2>1. skipped = 0 /\ skipped' = skipped
    BY <1>2, <1>6 DEF Inv, Typed
  <2>2. Evidenced /\ (Made' <=> Made)
    BY <1>1, <1>4, <2>1, TraceOf
  <2>3. Made => MadeTrace'
    BY <1>3, <1>4, <2>1, <2>2, MadeBeginStep DEF Evidenced
  <2>4. ~Made => CrystalTrace'
    BY <1>3, <1>4, <2>2, CrystalBeginStep DEF Evidenced
  <2> HIDE DEF Made, MadeTrace, CrystalTrace
  <2> QED BY <2>2, <2>3, <2>4 DEF Evidenced
<1> QED BY <1>5, <1>6

LEMMA TraceEndStep ==
    ASSUME Inv, Trace, EndStep
    PROVE  Trace'
<1>1. /\ env = "up" /\ channel.at = "working"
      /\ UNCHANGED <<benchmark, env, calls, skipped, transcript, pc, curve>>
  BY DEF EndStep, client
<1>2. \E ok \in BOOLEAN : \E a : Answered(a, ok)
  BY DEF EndStep
<1> SUFFICES ASSUME Going'
             PROVE  Pairs' /\ (skipped' = 0 => Evidenced')
  BY TraceOf
<1>3. Going
  BY <1>1 DEF Going
<1>4. Pairs /\ (skipped = 0 => Evidenced)
  BY <1>3, TraceOf
<1>5. Pairs'
  <2>1. PICK w : channel' = [channel EXCEPT !.at = "answered", !.answer = w]
    BY <1>2 DEF Answered
  <2>2. channel'.at = "answered" /\ channel'.op = channel.op
    BY <2>1 DEF Inv, Typed, Channels
  <2> QED BY <1>1, <1>4, <2>2, PairsStill
<1>6. ASSUME skipped' = 0
      PROVE  Evidenced'
  <2>1. Evidenced /\ (Made' <=> Made)
    BY <1>1, <1>4, <1>6, TraceOf
  <2>2. Made => MadeTrace'
    BY <1>3, <1>4, <2>1, MadeEndStep DEF Evidenced
  <2>3. ~Made => CrystalTrace'
    BY <1>3, <1>4, <2>1, CrystalEndStep DEF Evidenced
  <2> HIDE DEF Made, MadeTrace, CrystalTrace
  <2> QED BY <2>1, <2>2, <2>3 DEF Evidenced
<1> QED BY <1>5, <1>6

\* What remains to be shown of a step of the client.
LEMMA TraceClient ==
    ASSUME Inv, Live, Trace, UNCHANGED <<benchmark, physical>>,
           Going' => Pairs',
           Going' /\ Made /\ MadeTrace => MadeTrace',
           Going' /\ ~Made /\ CrystalTrace => CrystalTrace'
    PROVE  Trace'
<1>1. UNCHANGED <<benchmark, skipped>> /\ Going
  BY DEF physical, Live, Going
<1>2. (skipped = 0 => Evidenced) /\ (Made' <=> Made)
  BY <1>1, TraceOf
<1>3. Going' /\ skipped' = 0 => Evidenced'
  <2> HIDE DEF Made, MadeTrace, CrystalTrace, Going
  <2> QED BY <1>1, <1>2 DEF Evidenced
<1> HIDE DEF Going, Pairs
<1> QED BY <1>3, TraceOf

LEMMA TracePairs ==
    ASSUME Trace, Live
    PROVE  Going /\ Pairs
BY TraceOf DEF Live, Going

LEMMA TraceAsks ==
    ASSUME Inv, Trace, Start \/ CallTool \/ FillSite \/ (Close /\ env = "up")
    PROVE  Trace'
<1>1. /\ Live /\ UNCHANGED <<benchmark, physical, tools, seen, curve, pausing>>
      /\ UNCHANGED <<benchmark, adapter, calls, curve, env>>
  BY DEF Start, CallTool, FillSite, Close, Deciding, physical
<1>2. Going /\ Pairs
  BY <1>1, TracePairs
<1>3. PICK op \in {"init", "tool", "step", "close"} :
         /\ \E arg : Ask(op, arg, op)
         /\ pc = (IF op = "init" THEN "start" ELSE "loop")
         /\ op = "tool" => Made
         /\ op = "step" => ~Made /\ ~seen.done
  BY DEF Start, CallTool, FillSite, Close, Deciding
<1>4. PICK arg : Ask(op, arg, op)
  BY <1>3
<1>5. /\ Pairs'
      /\ \E r \in AllRows : r.dir = "request" /\ r.op = op /\ transcript' = Append(transcript, r)
  <2>1. op \in Ops
    BY DEF Ops
  <2>2. \/ pc = "start" /\ op = "init" /\ op = "init"
        \/ pc = "loop" /\ op \in DOMAIN OpAt \ {"init"}
    BY <1>3, OpAtFacts
  <2> QED BY <1>1, <1>2, <1>4, <2>1, <2>2, PairsAsked
<1>6. PICK r \in AllRows : r.dir = "request" /\ r.op = op /\ transcript' = Append(transcript, r)
  BY <1>5
<1>7. pc' = op /\ channel'.at = "logged"
  BY <1>4 DEF Ask, NoRequest
<1>8. pc \in {"start", "loop"}
  BY <1>3
<1>9. ASSUME Made, MadeTrace
      PROVE  MadeTrace'
  <2>1. op \in {"init", "tool", "close"}
    BY <1>3, <1>9
  <2> HIDE DEF Made
  <2> QED BY <1>1, <1>2, <1>6, <1>7, <1>8, <1>9, <2>1, MadeAsked
<1>10. ASSUME ~Made, CrystalTrace
       PROVE  CrystalTrace'
  <2>1. op \in {"init", "step", "close"}
    BY <1>3, <1>10
  <2>2. op = "step" => pc = "loop" /\ ~EpisodeDone(adapter)
    <3>1. pc = "loop" => seen = Observation(adapter)
      BY DEF Inv, Conversation
    <3>2. Observation(adapter).done = EpisodeDone(adapter)
      BY <1>1, LiveState, ObservationType
    <3> HIDE DEF EpisodeDone, Observation
    <3> QED BY <1>3, <3>1, <3>2
  <2> HIDE DEF Made
  <2> QED BY <1>1, <1>2, <1>6, <1>7, <1>8, <1>10, <2>1, <2>2, CrystalAsked
<1> HIDE DEF Made, MadeTrace, CrystalTrace, Pairs, Going
<1> QED BY <1>1, <1>5, <1>9, <1>10, TraceClient

\* An answer that has to be ok: of those that wait for one, none is MADE's step.
LEMMA TraceObservation ==
    ASSUME Inv, Trace, ReceiveObservation \/ ReceiveFailedSite
    PROVE  Trace'
<1>1. /\ Live /\ channel.at = "answered" /\ Checked("loop")
      /\ \/ pc \in {"init", "observe", "reset"}
         \/ pc = "step" /\ ~Answer.ok
      /\ UNCHANGED <<benchmark, physical>> /\ UNCHANGED <<benchmark, adapter, calls, curve, env>>
  BY DEF ReceiveObservation, ReceiveFailedSite, Checked, physical
<1>2. Going /\ Pairs
  BY <1>1, TracePairs
<1>3. CASE ~Answer.ok
  <2>1. ~Going'
    BY <1>1, <1>3 DEF Checked, Going
  <2> HIDE DEF Going, Pairs, Made, MadeTrace, CrystalTrace
  <2> QED BY <1>1, <2>1, TraceClient
<1>4. CASE Answer.ok
  <2>1. /\ pc' = "loop" /\ channel' = NoRequest /\ Logged /\ pc \in {"init", "observe", "reset"}
    BY <1>1, <1>4 DEF Checked
  <2>2. Pairs'
    BY <1>1, <1>2, <1>4, <2>1, PairsLogged
  <2>3. Made /\ MadeTrace => MadeTrace'
    <3>1. MadeTrace => pc # "reset"
      BY DEF MadeTrace
    <3> HIDE DEF Made
    <3> QED BY <1>1, <1>2, <2>1, <3>1, MadeReceive
  <2>4. ~Made /\ CrystalTrace => CrystalTrace'
    <3>1. CrystalTrace => pc # "observe"
      BY DEF CrystalTrace
    <3> HIDE DEF Made
    <3> QED BY <1>1, <1>2, <1>4, <2>1, <3>1, CrystalReceive
  <2> HIDE DEF Made, MadeTrace, CrystalTrace, Pairs, Going
  <2> QED BY <1>1, <2>2, <2>3, <2>4, TraceClient
<1> QED BY <1>3, <1>4

LEMMA TraceClose ==
    ASSUME Inv, Trace, ReceiveClose
    PROVE  Trace'
<1>1. /\ Live /\ channel.at = "answered" /\ pc = "close" /\ Logged /\ channel' = NoRequest
      /\ pc' \in {"complete", "raised"}
      /\ UNCHANGED <<benchmark, physical>> /\ UNCHANGED <<benchmark, adapter, calls, curve, env>>
  BY DEF ReceiveClose, physical
<1>2. Going /\ Pairs
  BY <1>1, TracePairs
<1>3. CASE pc' = "raised"
  <2>1. ~Going'
    BY <1>3 DEF Going
  <2> HIDE DEF Going, Pairs, Made, MadeTrace, CrystalTrace
  <2> QED BY <1>1, <2>1, TraceClient
<1>4. CASE pc' = "complete"
  <2>1. Pairs'
    BY <1>1, <1>2, <1>4, PairsLogged
  <2>2. Made /\ MadeTrace => MadeTrace'
    <3> HIDE DEF Made
    <3> QED BY <1>1, <1>2, <1>4, MadeReceive
  <2>3. ~Made /\ CrystalTrace => CrystalTrace'
    <3> HIDE DEF Made
    <3> QED BY <1>1, <1>2, <1>4, CrystalReceive
  <2> HIDE DEF Made, MadeTrace, CrystalTrace, Pairs, Going
  <2> QED BY <1>1, <2>1, <2>2, <2>3, TraceClient
<1> QED BY <1>1, <1>3, <1>4

LEMMA TraceSettled ==
    ASSUME Inv, Trace, ReceiveSettled
    PROVE  Trace'
<1>1. /\ Live /\ channel.at = "answered" /\ pc = "settle" /\ Logged /\ channel' = NoRequest
      /\ pc' = "loop" /\ UNCHANGED <<benchmark, physical>> /\ env' = env
  BY DEF ReceiveSettled, physical
<1>2. Going /\ Pairs
  BY <1>1, TracePairs
<1>3. Pairs'
  BY <1>1, <1>2, PairsLogged
<1>4. Made /\ MadeTrace => MadeTrace'
  BY <1>2, MadeReceiveSettled
<1>5. ~CrystalTrace
  BY <1>1 DEF CrystalTrace
<1> HIDE DEF Made, MadeTrace, CrystalTrace, Pairs, Going
<1> QED BY <1>1, <1>3, <1>4, <1>5, TraceClient

\* The pairs are kept whether or not a step has been skipped.
LEMMA TraceSteps ==
    ASSUME Inv, Trace, ReceiveTool \/ ReceiveMadeStep \/ ReceiveSite
    PROVE  Trace'
<1>1. /\ Live /\ channel.at = "answered" /\ pc \in {"tool", "step"}
      /\ UNCHANGED <<benchmark, physical>> /\ env' = env
  BY DEF ReceiveTool, ReceiveMadeStep, ReceiveSite, physical
<1>2. Going /\ Pairs
  BY <1>1, TracePairs
<1>3. Pairs'
  <2>1. CASE Logged /\ pc' = "loop" /\ channel' = NoRequest
    BY <1>1, <1>2, <2>1, PairsLogged
  <2>2. CASE \E next \in {"step", "observe", "settle", "reset"} : LogAndAsk(OpAt[next], next)
    <3>1. PICK next \in {"step", "observe", "settle", "reset"} : LogAndAsk(OpAt[next], next)
      BY <2>2
    <3>2. OpAt[next] \in Ops
      BY OpAtFacts DEF Ops
    <3> QED BY <1>1, <1>2, <3>1, <3>2, PairsBoth
  <2> QED BY <2>1, <2>2, OpAtFacts DEF ReceiveTool, ReceiveMadeStep, ReceiveSite
<1>4. ASSUME Made, MadeTrace
      PROVE  MadeTrace'
  <2>1. ReceiveTool \/ ReceiveMadeStep
    BY <1>4 DEF ReceiveSite
  <2> HIDE DEF Made
  <2> QED BY <1>2, <1>4, <2>1, MadeReceiveTool, MadeStepOk, MadeStepFailed
<1>5. ASSUME ~Made, CrystalTrace
      PROVE  CrystalTrace'
  <2>1. ReceiveSite
    BY <1>5 DEF CrystalTrace, ReceiveTool, ReceiveMadeStep
  <2> HIDE DEF Made
  <2> QED BY <1>2, <1>5, <2>1, CrystalReceiveSite
<1> HIDE DEF Made, MadeTrace, CrystalTrace, Pairs, Going
<1> QED BY <1>1, <1>3, <1>4, <1>5, TraceClient

LEMMA TraceGone ==
    ASSUME pc' \in {"raised", "killed"}
    PROVE  Trace'
BY DEF Trace, Going

LEMMA TraceKeeps ==
    ASSUME Inv, Trace, [Next]_vars
    PROVE  Trace'
<1>1. CASE EnvironmentStep
  <2>1. CASE EnvironmentExits
    <3>1. /\ UNCHANGED <<benchmark, adapter, calls, skipped, transcript, curve, pc, channel>>
          /\ env' = "dead"
      BY <2>1 DEF EnvironmentExits, client
    <3> HIDE DEF Trace
    <3> QED BY <3>1, TraceIdle
  <2> QED BY <1>1, <2>1, TraceServe, TraceBeginStep, TraceEndStep DEF EnvironmentStep
<1>2. CASE ClientStep
  <2>1. CASE Send
    <3>1. CASE env = "up"
      <4>1. /\ UNCHANGED <<benchmark, adapter, calls, skipped, transcript, curve, pc, env>>
            /\ channel.at = "logged" /\ channel' = [channel EXCEPT !.at = "sent"]
        BY <2>1, <3>1 DEF Send, client, physical
      <4> HIDE DEF Trace
      <4> QED BY <4>1, TraceIdle
    <3>2. CASE env # "up"
      BY <2>1, <3>2, TraceGone DEF Send, Raising
    <3> QED BY <3>1, <3>2
  <2>2. CASE TimeOut \/ EndOfFile \/ RolloutRaises
    BY <2>2, TraceGone DEF TimeOut, EndOfFile, RolloutRaises, Raising
  <2>3. CASE NoValidAction
    <3>1. UNCHANGED <<benchmark, adapter, calls, skipped, transcript, curve, pc, channel, env>>
      BY <2>3 DEF NoValidAction, physical
    <3> HIDE DEF Trace
    <3> QED BY <3>1, TraceIdle
  <2>4. CASE Close /\ env # "up"
    <3>1. /\ UNCHANGED <<benchmark, adapter, calls, skipped, transcript, curve, channel, env>>
          /\ pc = "loop" /\ pc' = "complete"
      BY <2>4 DEF Close, physical
    <3> HIDE DEF Trace
    <3> QED BY <3>1, TraceIdle
  <2> HIDE DEF Trace
  <2> QED BY <1>2, <2>1, <2>2, <2>3, <2>4, TraceAsks, TraceObservation, TraceClose, TraceSettled, TraceSteps
          DEF ClientStep
<1>3. CASE ClientDies
  BY <1>3, TraceGone DEF ClientDies, Killed
<1>4. CASE ScriptStep
  <2>1. CASE Terminate
    BY <2>1, TraceGone DEF Terminate, Killed
  <2>2. CASE Stop \/ Verify \/ Abandon \/ Archive
    <3>1. UNCHANGED <<benchmark, adapter, calls, skipped, transcript, curve, pc, channel, env>>
      BY <2>2 DEF Stop, Verify, Abandon, Archive, UnchangedByScript, physical, client
    <3> HIDE DEF Trace
    <3> QED BY <3>1, TraceIdle
  <2> QED BY <1>4, <2>1, <2>2 DEF ScriptStep
<1>5. CASE UNCHANGED vars
  <2>1. UNCHANGED <<benchmark, adapter, calls, skipped, transcript, curve, pc, channel, env>>
    BY <1>5 DEF vars, physical, client
  <2> HIDE DEF Trace
  <2> QED BY <2>1, TraceIdle
<1> QED BY <1>1, <1>2, <1>3, <1>4, <1>5 DEF Next

LEMMA TraceInit ==
    ASSUME Init
    PROVE  Trace
<1>1. /\ adapter = (IF Made THEN MadeNew ELSE CrystalNew)
      /\ env = "up" /\ channel = NoRequest /\ transcript = <<>> /\ pc = "start" /\ curve = <<>>
      /\ calls = 0
  BY DEF Init
<1>2. Len(transcript) = 0 /\ DOMAIN transcript = {} /\ Len(curve) = 0 /\ Latest(curve) = 0
  BY <1>1 DEF Latest
<1>3. Pairs
  <2>1. AllPaired(transcript)
    BY <1>2 DEF AllPaired, Alternates
  <2> QED BY <1>1, <1>2, <2>1, NoRequestType DEF Pairs
<1>4. /\ StepsOf(transcript) = {} /\ Rows(transcript, "request") = {}
      /\ Fruitful(transcript) = {} /\ Completed(transcript) = {}
  BY <1>2 DEF StepsOf, Rows, Fruitful, Completed
<1>5. Cardinality(StepsOf(transcript)) = 0 /\ Cardinality(Completed(transcript)) = 0
  BY <1>4, FS_EmptySet
<1>6. ASSUME Made
      PROVE  MadeTrace
  <2>1. Book(transcript, curve, {}, adapter.stable)
    BY <1>2, <1>4 DEF Book, Brought
  <2>2. Unsettled = {} /\ ~Selected
    BY <1>1 DEF Unsettled, Selected
  <2> HIDE DEF Unsettled, Selected, Book
  <2> QED BY <1>1, <1>2, <1>5, <2>1, <2>2 DEF MadeTrace
<1>7. ASSUME ~Made
      PROVE  CrystalTrace
  <2>1. Session(transcript, curve)
    BY <1>2, <1>4, <1>5 DEF Session
  <2> HIDE DEF Session, Asked, Answer
  <2> QED BY <1>1, <1>2, <2>1 DEF CrystalTrace
<1> HIDE DEF Made, MadeTrace, CrystalTrace
<1> QED BY <1>3, <1>6, <1>7 DEF Trace

-----------------------------------------------------------------------------
(* How the transcript of a MADE rollout ends *)

\* The last pair up to row n is a step that is ok.
EndsOk(t, n) == n >= 2 /\ t[n - 1].op = "step" /\ t[n].ok

\* The last pairs up to row n are a step that failed and the observation after.
EndsFailed(t, n) ==
    n >= 4 /\ t[n - 3].op = "step" /\ ~t[n - 2].ok /\ t[n - 1].op = "observe"

Ends(t, n) == EndsOk(t, n) \/ EndsFailed(t, n)

\* Only a step finishes the episode, so nothing but the observation after a
\* step that failed comes between the last step and the close.
Ending ==
    Going /\ Made =>
        /\ pc \in {"start", "init", "tool", "observe"} => ~EpisodeDone(adapter)
        /\ pc = "settle" => /\ Len(transcript) >= 3 /\ transcript[Len(transcript) - 2].op = "step"
                            /\ ~transcript[Len(transcript) - 1].ok
        /\ pc = "loop" /\ EpisodeDone(adapter) => Ends(transcript, Len(transcript))
        /\ pc = "close" => Ends(transcript, Len(transcript) - 1)
        /\ pc = "complete" => \/ Ends(transcript, Len(transcript))
                              \/ Ends(transcript, Len(transcript) - 2)

LEMMA EndsSame ==
    ASSUME NEW t \in Seq(AllRows), NEW u, \A i \in 1 .. Len(t) : u[i] = t[i],
           NEW n \in Nat, n <= Len(t), Ends(t, n)
    PROVE  Ends(u, n)
<1>1. Len(t) \in Nat
  OBVIOUS
<1>2. CASE EndsOk(t, n)
  <2>1. n - 1 \in 1 .. Len(t) /\ n \in 1 .. Len(t)
    BY <1>1, <1>2 DEF EndsOk
  <2> QED BY <1>2, <2>1 DEF EndsOk, Ends
<1>3. CASE EndsFailed(t, n)
  <2>1. n - 3 \in 1 .. Len(t) /\ n - 2 \in 1 .. Len(t) /\ n - 1 \in 1 .. Len(t)
    BY <1>1, <1>3 DEF EndsFailed
  <2> QED BY <1>3, <2>1 DEF EndsFailed, Ends
<1> QED BY <1>2, <1>3 DEF Ends

LEMMA EndingInit ==
    ASSUME Init
    PROVE  Ending
<1>1. pc = "start" /\ (Made => adapter = MadeNew)
  BY DEF Init
<1>2. Made => ~EpisodeDone(adapter)
  BY <1>1, Naturals1 DEF EpisodeDone, MadeDone, MadeNew
<1> HIDE DEF Made, EpisodeDone
<1> QED BY <1>1, <1>2 DEF Ending

\* Away from the steps, whether the episode is done stays as it is.
LEMMA DoneSame ==
    ASSUME benchmark' = benchmark, adapter' = adapter
    PROVE  (EpisodeDone(adapter)' <=> EpisodeDone(adapter)) /\ (Made' <=> Made)
BY DEF EpisodeDone, Made

LEMMA EndingStill ==
    ASSUME Ending, UNCHANGED <<benchmark, adapter, transcript, pc>>
    PROVE  Ending'
<1>1. (EpisodeDone(adapter)' <=> EpisodeDone(adapter)) /\ (Made' <=> Made)
  BY DoneSame
<1> HIDE DEF EpisodeDone, Made
<1> QED BY <1>1 DEF Ending, Going

\* While the environment works the client waits; only a step may finish.
LEMMA EndingWorks ==
    ASSUME Inv, Inv', Trace, Ending, Serve \/ BeginStep \/ EndStep
    PROVE  Ending'
<1>1. /\ UNCHANGED <<benchmark, transcript, pc>> /\ channel.at \in {"sent", "working"}
      /\ BeginStep \/ EndStep => channel.op = "step"
  BY DEF Serve, BeginStep, EndStep, client, Inv, Conversation
<1> SUFFICES ASSUME Going', Made'
             PROVE  Ending'
  BY DEF Ending
<1>2. Going /\ (Made' <=> Made)
  BY <1>1 DEF Going, Made
<1>3. Pairs
  BY <1>2, TraceOf
<1>4. pc \in DOMAIN OpAt /\ channel.op = OpAt[pc]
  BY <1>1, <1>2, <1>3, TurnState
<1>5. pc \notin {"start", "loop", "complete"}
  BY <1>4, OpAtFacts
<1>6. ASSUME Serve
      PROVE  EpisodeDone(adapter)' <=> EpisodeDone(adapter)
  <2>1. PICK outcome \in Outcomes : adapter' = outcome.adapter
    BY <1>6 DEF Serve
  <2>2. channel.at = "sent"
    BY <1>6 DEF Serve
  <2>3. adapter' \in States /\ adapter'.attempts = adapter.attempts /\ adapter \in States
    BY <2>1, <2>2, OutcomeFacts DEF Inv, Typed
  <2>4. (EpisodeDone(adapter') <=> adapter'.attempts >= Allowed) /\ (EpisodeDone(adapter) <=> adapter.attempts >= Allowed)
    BY <2>3, ObservationType
  <2>5. EpisodeDone(adapter)' <=> EpisodeDone(adapter')
    BY <1>1 DEF EpisodeDone, Made
  <2> HIDE DEF EpisodeDone
  <2> QED BY <2>3, <2>4, <2>5
<1>7. BeginStep \/ EndStep => pc = "step"
  BY <1>1, <1>4, OpAtFacts
<1> HIDE DEF Made, EpisodeDone, Going, Serve, BeginStep, EndStep
<1> QED BY <1>1, <1>2, <1>5, <1>6, <1>7 DEF Ending

\* What remains to be shown of a step of the client on a MADE rollout.
LEMMA EndingClient ==
    ASSUME Inv, Live, Trace, Ending, UNCHANGED <<benchmark, physical>>,
           ASSUME Made, Going, Going', Pairs, EpisodeDone(adapter)' <=> EpisodeDone(adapter)
           PROVE  Ending'
    PROVE  Ending'
<1>1. UNCHANGED <<benchmark, adapter>>
  BY DEF physical
<1>2. (EpisodeDone(adapter)' <=> EpisodeDone(adapter)) /\ (Made' <=> Made)
  BY <1>1, DoneSame
<1>3. Going /\ Pairs
  BY TracePairs
<1> HIDE DEF EpisodeDone, Made
<1>4. ~(Going' /\ Made') => Ending'
  BY DEF Ending
<1> QED BY <1>2, <1>3, <1>4

LEMMA EndingAsks ==
    ASSUME Inv, Trace, Ending, Start \/ CallTool \/ FillSite \/ Close
    PROVE  Ending'
<1>1. /\ Live /\ UNCHANGED <<benchmark, physical>>
  BY DEF Start, CallTool, FillSite, Close, Deciding
<1>2. ASSUME Made, Going, Going', Pairs, EpisodeDone(adapter)' <=> EpisodeDone(adapter)
      PROVE  Ending'
  <2>1. transcript \in Seq(AllRows) /\ Len(transcript) \in Nat /\ adapter \in States
    BY DEF Inv, Typed
  <2>2. pc = "loop" => (seen.done <=> EpisodeDone(adapter))
    <3>1. pc = "loop" => seen = Observation(adapter)
      BY DEF Inv, Conversation
    <3>2. Observation(adapter).done = EpisodeDone(adapter)
      BY <2>1, ObservationType
    <3> HIDE DEF EpisodeDone, Observation
    <3> QED BY <3>1, <3>2
  <2>3. CASE Start
    <3>1. pc = "start" /\ pc' = "init"
      BY <2>3 DEF Start, Ask
    <3> HIDE DEF Made, EpisodeDone, Going
    <3> QED BY <1>2, <3>1 DEF Ending
  <2>4. CASE CallTool
    <3>1. pc = "loop" /\ ~seen.done /\ pc' = "tool"
      BY <2>4 DEF CallTool, Deciding, Ask
    <3> HIDE DEF Made, EpisodeDone, Going
    <3> QED BY <1>2, <2>2, <3>1 DEF Ending
  <2>5. CASE FillSite
    BY <1>2, <2>5 DEF FillSite
  <2>6. CASE Close
    <3>1. pc = "loop" /\ seen.done
      BY <2>6 DEF Close
    <3>2. Ends(transcript, Len(transcript))
      <4> HIDE DEF Made, EpisodeDone, Going
      <4> QED BY <1>2, <2>2, <3>1 DEF Ending
    <3>3. CASE env = "up"
      <4>1. Ask("close", NoArgument, "close")
        BY <2>6, <3>3 DEF Close
      <4>2. PICK r \in AllRows : transcript' = Append(transcript, r)
        <5>1. [dir |-> "request", id |-> Requests, op |-> "close"] \in AllRows
          BY RequestRow DEF Ops, Inv
        <5> QED BY <4>1, <5>1 DEF Ask
      <4>3. /\ Len(transcript') = Len(transcript) + 1
            /\ \A i \in 1 .. Len(transcript) : transcript'[i] = transcript[i]
        BY <2>1, <4>2, AppendRow
      <4>4. Ends(transcript', Len(transcript))
        BY <2>1, <3>2, <4>3, EndsSame
      <4>5. Len(transcript') - 1 = Len(transcript)
        BY <2>1, <4>3
      <4>6. pc' = "close"
        BY <4>1 DEF Ask
      <4> HIDE DEF Made, EpisodeDone, Going, Ends
      <4> QED BY <4>4, <4>5, <4>6 DEF Ending
    <3>4. CASE env # "up"
      <4>1. pc' = "complete" /\ transcript' = transcript
        BY <2>6, <3>4 DEF Close
      <4>2. Ends(transcript', Len(transcript'))
        BY <3>2, <4>1
      <4> HIDE DEF Made, EpisodeDone, Going, Ends
      <4> QED BY <4>1, <4>2 DEF Ending
    <3> QED BY <3>3, <3>4
  <2> QED BY <2>3, <2>4, <2>5, <2>6
<1> QED BY <1>1, <1>2, EndingClient

\* An answer by which the episode cannot have finished.
LEMMA EndingQuiet ==
    ASSUME Inv, Trace, Ending, ReceiveObservation \/ ReceiveTool
    PROVE  Ending'
<1>1. /\ Live /\ UNCHANGED <<benchmark, physical>> /\ channel.at = "answered"
      /\ \/ pc \in {"init", "observe", "reset"} /\ pc' \in {"loop", "raised"}
         \/ pc = "tool" /\ pc' \in {"step", "observe"}
  BY DEF ReceiveObservation, ReceiveTool, Checked, LogAndAsk
<1>2. ASSUME Made, Going, Going', Pairs, EpisodeDone(adapter)' <=> EpisodeDone(adapter)
      PROVE  Ending'
  <2>1. pc # "reset"
    BY <1>2, OpAtFacts DEF Inv, Conversation, OpsOf
  <2>2. pc' # "raised"
    BY <1>2 DEF Going
  <2> HIDE DEF Made, EpisodeDone, Going
  <2> QED BY <1>1, <1>2, <2>1, <2>2 DEF Ending
<1> QED BY <1>1, <1>2, EndingClient

LEMMA EndingSettled ==
    ASSUME Inv, Trace, Ending, ReceiveSettled
    PROVE  Ending'
<1>1. /\ Live /\ UNCHANGED <<benchmark, physical>> /\ channel.at = "answered" /\ pc = "settle"
      /\ pc' = "loop" /\ transcript' = Append(transcript, Received)
  BY DEF ReceiveSettled, Logged
<1>2. ASSUME Made, Going, Going', Pairs, EpisodeDone(adapter)' <=> EpisodeDone(adapter)
      PROVE  Ending'
  <2>1. transcript \in Seq(AllRows) /\ Len(transcript) \in Nat /\ Received \in AllRows
    BY <1>1, ReceivedRow DEF Inv, Typed, Conversation
  <2>2. /\ Len(transcript') = Len(transcript) + 1
        /\ \A i \in 1 .. Len(transcript) : transcript'[i] = transcript[i]
    BY <1>1, <2>1, AppendRow
  <2>3. transcript[Len(transcript)].op = "observe"
    <3>1. AskedLast(transcript, channel.op) /\ channel.op = OpAt[pc]
      BY <1>1, <1>2, TurnState
    <3> QED BY <1>1, <3>1, OpAtFacts DEF AskedLast
  <2>4. /\ Len(transcript) >= 3 /\ transcript[Len(transcript) - 2].op = "step"
        /\ ~transcript[Len(transcript) - 1].ok
    <3> HIDE DEF Made, EpisodeDone, Going
    <3> QED BY <1>1, <1>2 DEF Ending
  <2>5. /\ Len(transcript') - 3 = Len(transcript) - 2 /\ Len(transcript') - 2 = Len(transcript) - 1
        /\ Len(transcript') - 1 = Len(transcript) /\ Len(transcript') >= 4
    BY <2>1, <2>2, <2>4
  <2>6. /\ Len(transcript) - 2 \in 1 .. Len(transcript) /\ Len(transcript) - 1 \in 1 .. Len(transcript)
        /\ Len(transcript) \in 1 .. Len(transcript)
    BY <2>1, <2>4
  <2>7. EndsFailed(transcript', Len(transcript'))
    BY <2>2, <2>3, <2>4, <2>5, <2>6 DEF EndsFailed
  <2> HIDE DEF Made, EpisodeDone, Going, EndsFailed, EndsOk
  <2> QED BY <1>1, <2>7 DEF Ending, Ends
<1> QED BY <1>1, <1>2, EndingClient

LEMMA EndingStep ==
    ASSUME Inv, Trace, Ending, ReceiveMadeStep
    PROVE  Ending'
<1>1. Live /\ UNCHANGED <<benchmark, physical>> /\ channel.at = "answered" /\ pc = "step"
  BY DEF ReceiveMadeStep
<1>2. ASSUME Made, Going, Going', Pairs, EpisodeDone(adapter)' <=> EpisodeDone(adapter)
      PROVE  Ending'
  <2>1. /\ transcript \in Seq(AllRows) /\ Len(transcript) \in Nat /\ Received \in AllRows
        /\ Received.ok = Answer.ok
    BY <1>1, ReceivedRow DEF Inv, Typed, Conversation
  <2>2. transcript[Len(transcript)].op = "step" /\ Len(transcript) >= 1
    <3>1. AskedLast(transcript, channel.op) /\ channel.op = OpAt[pc]
      BY <1>1, <1>2, TurnState
    <3>2. Len(transcript) % 2 = 1
      BY <3>1 DEF AskedLast
    <3> QED BY <1>1, <2>1, <3>1, <3>2, OpAtFacts DEF AskedLast
  <2>3. Len(transcript) \in 1 .. Len(transcript)
    BY <2>1, <2>2
  <2>4. CASE Answer.ok
    <3>1. transcript' = Append(transcript, Received) /\ pc' = "loop"
      BY <2>4 DEF ReceiveMadeStep, Logged
    <3>2. /\ Len(transcript') = Len(transcript) + 1 /\ transcript'[Len(transcript')] = Received
          /\ \A i \in 1 .. Len(transcript) : transcript'[i] = transcript[i]
      BY <2>1, <3>1, AppendRow
    <3>3. Len(transcript') - 1 = Len(transcript) /\ Len(transcript') >= 2
      BY <2>1, <2>2, <3>2
    <3>4. EndsOk(transcript', Len(transcript'))
      BY <2>1, <2>2, <2>3, <2>4, <3>2, <3>3 DEF EndsOk
    <3> HIDE DEF Made, EpisodeDone, Going, EndsFailed, EndsOk
    <3> QED BY <3>1, <3>4 DEF Ending, Ends
  <2>5. CASE ~Answer.ok
    <3>1. LogAndAsk("observe", "settle")
      BY <2>5 DEF ReceiveMadeStep
    <3>2. PICK q \in AllRows : transcript' = transcript \o <<Received, q>>
      <4>1. [dir |-> "request", id |-> Requests, op |-> "observe"] \in AllRows
        BY RequestRow DEF Ops, Inv
      <4> QED BY <3>1, <4>1 DEF LogAndAsk
    <3>3. PICK u : u = Append(transcript, Received)
      OBVIOUS
    <3>4. /\ u \in Seq(AllRows) /\ Len(u) = Len(transcript) + 1 /\ u[Len(u)] = Received
          /\ \A i \in 1 .. Len(transcript) : u[i] = transcript[i]
      BY <2>1, <3>3, AppendRow
    <3>5. transcript' = Append(u, q)
      BY <2>1, <3>2, <3>3, AppendTwo
    <3>6. Len(transcript') = Len(u) + 1 /\ \A i \in 1 .. Len(u) : transcript'[i] = u[i]
      BY <3>4, <3>5, AppendRow
    <3>7. /\ Len(transcript') >= 3 /\ Len(transcript') - 2 = Len(transcript)
          /\ Len(transcript') - 1 = Len(u) /\ Len(transcript) \in 1 .. Len(u) /\ Len(u) \in 1 .. Len(u)
      BY <2>1, <2>2, <3>4, <3>6
    <3>8. transcript'[Len(transcript') - 2].op = "step" /\ ~transcript'[Len(transcript') - 1].ok
      BY <2>1, <2>2, <2>3, <2>5, <3>4, <3>6, <3>7
    <3>9. pc' = "settle"
      BY <3>1 DEF LogAndAsk
    <3> HIDE DEF Made, EpisodeDone, Going
    <3> QED BY <3>7, <3>8, <3>9 DEF Ending
  <2> QED BY <2>4, <2>5
<1> QED BY <1>1, <1>2, EndingClient

LEMMA EndingClosed ==
    ASSUME Inv, Trace, Ending, ReceiveClose
    PROVE  Ending'
<1>1. /\ Live /\ UNCHANGED <<benchmark, physical>> /\ channel.at = "answered" /\ pc = "close"
      /\ pc' \in {"complete", "raised"} /\ transcript' = Append(transcript, Received)
  BY DEF ReceiveClose, Logged
<1>2. ASSUME Made, Going, Going', Pairs, EpisodeDone(adapter)' <=> EpisodeDone(adapter)
      PROVE  Ending'
  <2>1. transcript \in Seq(AllRows) /\ Len(transcript) \in Nat /\ Received \in AllRows
    BY <1>1, ReceivedRow DEF Inv, Typed, Conversation
  <2>2. /\ Len(transcript') = Len(transcript) + 1
        /\ \A i \in 1 .. Len(transcript) : transcript'[i] = transcript[i]
    BY <1>1, <2>1, AppendRow
  <2>3. Ends(transcript, Len(transcript) - 1)
    <3> HIDE DEF Made, EpisodeDone, Going, Ends
    <3> QED BY <1>1, <1>2 DEF Ending
  <2>4. Len(transcript) - 1 \in Nat /\ Len(transcript') - 2 = Len(transcript) - 1
    BY <2>1, <2>2, <2>3 DEF Ends, EndsOk, EndsFailed
  <2>5. Len(transcript) - 1 <= Len(transcript)
    BY <2>1
  <2>6. Ends(transcript', Len(transcript) - 1)
    BY <2>1, <2>2, <2>3, <2>4, <2>5, EndsSame
  <2>7. pc' = "complete"
    BY <1>1, <1>2 DEF Going
  <2>8. Ends(transcript', Len(transcript') - 2)
    BY <2>4, <2>6
  <2> HIDE DEF Made, EpisodeDone, Going, Ends
  <2> QED BY <2>7, <2>8 DEF Ending
<1> QED BY <1>1, <1>2, EndingClient

LEMMA EndingGone ==
    ASSUME pc' \in {"raised", "killed"}
    PROVE  Ending'
BY DEF Ending, Going

LEMMA EndingKeeps ==
    ASSUME Inv, Inv', Trace, Ending, [Next]_vars
    PROVE  Ending'
<1>1. CASE EnvironmentStep
  <2>1. CASE EnvironmentExits
    BY <2>1, EndingStill DEF EnvironmentExits, client
  <2> QED BY <1>1, <2>1, EndingWorks DEF EnvironmentStep
<1>2. CASE ClientStep
  <2>1. CASE Send
    <3>1. CASE env = "up"
      <4>1. UNCHANGED <<benchmark, adapter, transcript, pc>>
        BY <2>1, <3>1 DEF Send, client, physical
      <4> QED BY <4>1, EndingStill
    <3>2. CASE env # "up"
      BY <2>1, <3>2, EndingGone DEF Send, Raising
    <3> QED BY <3>1, <3>2
  <2>2. CASE TimeOut \/ EndOfFile \/ RolloutRaises
    BY <2>2, EndingGone DEF TimeOut, EndOfFile, RolloutRaises, Raising
  <2>3. CASE NoValidAction
    <3>1. UNCHANGED <<benchmark, adapter, transcript, pc>>
      BY <2>3 DEF NoValidAction, physical
    <3> QED BY <3>1, EndingStill
  <2>4. CASE ReceiveSite \/ ReceiveFailedSite
    <3>1. ~Made /\ benchmark' = benchmark
      BY <2>4 DEF ReceiveSite, ReceiveFailedSite
    <3> QED BY <3>1 DEF Ending, Made
  <2> HIDE DEF Ending, Trace, Inv
  <2> QED BY <1>2, <2>1, <2>2, <2>3, <2>4, EndingAsks, EndingQuiet, EndingSettled, EndingStep, EndingClosed
          DEF ClientStep
<1>3. CASE ClientDies
  BY <1>3, EndingGone DEF ClientDies, Killed
<1>4. CASE ScriptStep
  <2>1. CASE Terminate
    BY <2>1, EndingGone DEF Terminate, Killed
  <2>2. CASE Stop \/ Verify \/ Abandon \/ Archive
    <3>1. UNCHANGED <<benchmark, adapter, transcript, pc>>
      BY <2>2 DEF Stop, Verify, Abandon, Archive, UnchangedByScript, physical, client
    <3> QED BY <3>1, EndingStill
  <2> QED BY <1>4, <2>1, <2>2 DEF ScriptStep
<1>5. CASE UNCHANGED vars
  <2>1. UNCHANGED <<benchmark, adapter, transcript, pc>>
    BY <1>5 DEF vars, physical, client
  <2> QED BY <2>1, EndingStill
<1> QED BY <1>1, <1>2, <1>3, <1>4, <1>5 DEF Next

-----------------------------------------------------------------------------
(* The evidence *)

\* What the greatest number of a set is.
LEMMA Greatest ==
    ASSUME NEW S \in SUBSET Int, NEW v \in S, \A x \in S : x <= v
    PROVE  Max(S) = v
<1>1. \E x \in S : \A y \in S : x >= y
  OBVIOUS
<1>2. Max(S) \in S /\ \A y \in S : Max(S) >= y
  BY <1>1 DEF Max
<1>3. PICK m \in S : m = Max(S)
  BY <1>2
<1>4. m \in Int /\ v \in Int /\ m >= v /\ v >= m
  BY <1>2, <1>3
<1> QED BY <1>3, <1>4

LEMMA EvidenceMade ==
    ASSUME NEW t \in Seq(AllRows), NEW c \in Seq(Nat \X Nat), NEW s \in Nat, AllPaired(t),
           Book(t, c, {}, s), Cardinality(StepsOf(t)) = Budget, Len(c) = Budget
    PROVE  MadeEvidence(t, c) <=> CountersAgree(t)
<1>1. \A i \in StepsOf(t) : i < Len(t)
  BY TurnFacts DEF AllPaired, AllAnswered
<1>2. \A i \in StepsOf(t) : t[i + 1].attempts = Cardinality(Upto(t, i))
  BY <1>1 DEF Book
<1>3. ASSUME NEW i \in StepsOf(t)
      PROVE  c[Cardinality(Upto(t, i))] = <<Cardinality(Upto(t, i)), Discovered(t, i)>>
  <2> DEFINE k == Cardinality(Upto(t, i))
             found == {t[j + 1].stable : j \in {h \in Upto(t, i) : t[h + 1].ok}}
  <2>1. k \in 1 .. Len(c) /\ c[k][1] = k /\ Brought(t, Upto(t, i), c[k][2])
    BY DEF Book, Recorded
  <2>2. c[k] \in Nat \X Nat
    BY <2>1
  <2>3. {h \in Upto(t, i) : t[h + 1].ok} = Fruitful(t) \cap Upto(t, i)
    BY <1>1 DEF Fruitful, Upto
  <2>4. found = {t[j + 1].stable : j \in Fruitful(t) \cap Upto(t, i)}
    BY <2>3
  <2>5. \A j \in Fruitful(t) : t[j + 1].stable \in Nat
    BY DEF Book
  <2> HIDE DEF k
  <2>6. PICK v \in Nat : v = c[k][2]
    BY <2>2
  <2>7. {0} \cup found \in SUBSET Int
    <3>1. ASSUME NEW x \in found
          PROVE  x \in Nat
      <4>1. PICK j \in Fruitful(t) \cap Upto(t, i) : x = t[j + 1].stable
        BY <2>4
      <4> QED BY <2>5, <4>1
    <3> QED BY <3>1
  <2>8. v \in {0} \cup found
    BY <2>1, <2>4, <2>6 DEF Brought
  <2>9. \A x \in {0} \cup found : x <= v
    <3>1. ASSUME NEW x \in found
          PROVE  x <= v
      <4>1. PICK j \in Fruitful(t) \cap Upto(t, i) : x = t[j + 1].stable
        BY <2>4
      <4> QED BY <2>1, <2>6, <4>1 DEF Brought
    <3> QED BY <2>6, <3>1
  <2> HIDE DEF found
  <2>10. Max({0} \cup found) = v
    BY <2>7, <2>8, <2>9, Greatest
  <2>11. Discovered(t, i) = v
    BY <2>10 DEF Discovered, found
  <2> QED BY <2>1, <2>2, <2>6, <2>11 DEF k
<1> HIDE DEF CountersAgree
<1> QED BY <1>2, <1>3 DEF MadeEvidence

\* A transcript that ends with a step that is ok tells the same counters in the
\* answer to its last step and in its last observation; one whose last step
\* failed tells one request more in the observation that follows.
LEMMA CountersTold ==
    ASSUME NEW t \in Seq(AllRows), AllPaired(t), CloseWasOk(t), Ends(t, Len(t) - 2)
    PROVE  CountersAgree(t) <=> LastStepOk(t)
<1> DEFINE n == Len(t)
<1>1. n \in Nat /\ n >= 4 /\ n % 2 = 0 /\ DOMAIN t = 1 .. n
  <2>1. n \in Nat /\ DOMAIN t = 1 .. n
    OBVIOUS
  <2> QED BY <2>1 DEF Ends, EndsOk, EndsFailed, AllPaired
<1>2. Alternates(t)
  BY DEF AllPaired
<1> HIDE DEF n
<1>3. \A i \in Rows(t, "request") : i \in 1 .. n /\ i % 2 = 1
  <2> TAKE i \in Rows(t, "request")
  <2>1. i \in 1 .. n
    BY <1>1 DEF Rows
  <2> QED BY <1>2, <2>1, TurnFacts DEF n
<1>4. /\ n - 1 \in Rows(t, "request") /\ n - 3 \in Rows(t, "request")
      /\ n >= 6 => n - 5 \in Rows(t, "request")
  <2>1. n - 1 \in 1 .. n /\ (n - 1) % 2 = 1 /\ n - 3 \in 1 .. n /\ (n - 3) % 2 = 1
    BY <1>1
  <2>2. n >= 6 => n - 5 \in 1 .. n /\ (n - 5) % 2 = 1
    BY <1>1
  <2> QED BY <1>2, <2>1, <2>2, TurnFacts DEF n
<1>5. t[n - 1].op = "close"
  BY DEF CloseWasOk, n
<1>6. /\ StepsOf(t) \subseteq Rows(t, "request") /\ n - 1 \notin StepsOf(t)
      /\ Observing(t) \subseteq Rows(t, "request") /\ n - 1 \notin Observing(t)
  BY <1>5 DEF StepsOf, Observing
<1>7. \A S \in SUBSET Rows(t, "request") : n - 1 \notin S => S \in SUBSET Int /\ \A x \in S : x <= n - 3
  <2> TAKE S \in SUBSET Rows(t, "request")
  <2>1. ASSUME n - 1 \notin S, NEW x \in S
        PROVE  x \in Int /\ x <= n - 3
    <3>1. x \in 1 .. n /\ x % 2 = 1 /\ x # n - 1
      BY <1>3, <2>1
    <3> QED BY <1>1, <3>1
  <2> QED BY <2>1
<1>8. CASE EndsOk(t, n - 2)
  <2>1. t[n - 3].op = "step" /\ t[n - 2].ok
    <3>1. n - 2 - 1 = n - 3
      BY <1>1
    <3> QED BY <1>8, <3>1 DEF EndsOk
  <2>2. n - 3 \in StepsOf(t) /\ n - 3 \in Observing(t)
    <3>1. n - 3 + 1 = n - 2
      BY <1>1
    <3> QED BY <1>4, <2>1, <3>1 DEF StepsOf, Observing
  <2>3. Max(StepsOf(t)) = n - 3 /\ Max(Observing(t)) = n - 3
    BY <1>6, <1>7, <2>2, Greatest
  <2>4. CountersAgree(t)
    BY <2>3 DEF CountersAgree
  <2>5. LastStepOk(t)
    <3>1. n - 3 + 1 = n - 2
      BY <1>1
    <3> QED BY <2>1, <2>3, <3>1 DEF LastStepOk
  <2> QED BY <2>4, <2>5
<1>9. CASE EndsFailed(t, n - 2)
  <2>1. n >= 6 /\ t[n - 5].op = "step" /\ ~t[n - 4].ok /\ t[n - 3].op = "observe"
    <3>1. n - 2 - 3 = n - 5 /\ n - 2 - 2 = n - 4 /\ n - 2 - 1 = n - 3 /\ (n - 2 >= 4 => n >= 6)
      BY <1>1
    <3> QED BY <1>9, <3>1 DEF EndsFailed
  <2>2. n - 5 \in StepsOf(t) /\ n - 3 \notin StepsOf(t) /\ n - 3 \in Observing(t)
    BY <1>4, <2>1 DEF StepsOf, Observing
  <2>3. StepsOf(t) \in SUBSET Int /\ \A x \in StepsOf(t) : x <= n - 5
    <3>1. ASSUME NEW x \in StepsOf(t)
          PROVE  x \in Int /\ x <= n - 5
      <4>1. x \in 1 .. n /\ x % 2 = 1 /\ x <= n - 3 /\ x # n - 3
        BY <1>3, <1>6, <1>7, <2>2
      <4> QED BY <1>1, <4>1
    <3> QED BY <3>1
  <2>4. Max(StepsOf(t)) = n - 5
    BY <2>2, <2>3, Greatest
  <2>5. Max(Observing(t)) = n - 3
    BY <1>6, <1>7, <2>2, Greatest
  <2> DEFINE told(i) == {j \in Rows(t, "request") : j <= i /\ t[j].op # "init"}
  <2>6. RpcAttempts(t, n - 5) # RpcAttempts(t, n - 3)
    <3>1. told(n - 5) \subseteq told(n - 3)
      <4>1. \A j \in 1 .. n : j <= n - 5 => j <= n - 3
        BY <1>1
      <4> QED BY <1>3, <4>1
    <3>2. n - 3 \in told(n - 3) /\ n - 3 \notin told(n - 5)
      <4>1. n - 3 <= n - 3 /\ ~(n - 3 <= n - 5)
        BY <1>1
      <4> QED BY <1>4, <2>1, <4>1
    <3>3. IsFiniteSet(told(n - 3))
      <4>1. told(n - 3) \subseteq Rows(t, "request")
        OBVIOUS
      <4> QED BY <4>1, RequestCount, FS_Subset
    <3> HIDE DEF told
    <3>4. Cardinality(told(n - 5)) # Cardinality(told(n - 3))
      BY <3>1, <3>2, <3>3, FS_Subset
    <3> QED BY <3>4 DEF RpcAttempts, told
  <2>7. ~CountersAgree(t)
    BY <2>4, <2>5, <2>6 DEF CountersAgree
  <2>8. ~LastStepOk(t)
    <3>1. n - 5 + 1 = n - 4
      BY <1>1
    <3> QED BY <2>1, <2>4, <3>1 DEF LastStepOk
  <2> QED BY <2>7, <2>8
<1>10. Ends(t, n - 2)
  BY DEF n
<1> HIDE DEF EndsOk, EndsFailed, CountersAgree, LastStepOk
<1> QED BY <1>8, <1>9, <1>10 DEF Ends

LEMMA EvidenceCrystal ==
    ASSUME NEW t \in Seq(AllRows), NEW c, AllPaired(t), Session(t, c), Len(c) = Crystals
    PROVE  CrystalEvidence(t, c)
<1>1. /\ Len(t) \in Nat /\ StepsOf(t) \subseteq 1 .. Len(t) /\ AllAnswered(t)
      /\ Len(t) \notin Rows(t, "request") /\ Rows(t, "request") \subseteq 1 .. Len(t)
      /\ DOMAIN t = 1 .. Len(t)
  BY StepsFacts, TurnFacts DEF AllPaired, Rows
<1>2. \A i \in Rows(t, "request") : t[i].op \in {"step", "reset"} => t[i + 1].ok
  <2> TAKE i \in Rows(t, "request")
  <2>1. i \in 1 .. Len(t) /\ i # Len(t)
    BY <1>1
  <2>2. Len(t) \in Nat
    BY <1>1
  <2>3. i < Len(t)
    BY <2>1, <2>2
  <2> QED BY <2>3 DEF Session
<1>3. Finals(t) = Completed(t)
  BY <1>1 DEF Finals, Completed, AllAnswered
<1>4. ASSUME NEW i \in Finals(t)
      PROVE  LET starts == {j \in Rows(t, "request") : t[j].op \in {"init", "reset"} /\ j < i}
             IN  t[i + 1].attempts - t[Max(starts) + 1].attempts = 1
  <2> DEFINE starts == {j \in Rows(t, "request") : t[j].op \in {"init", "reset"} /\ j < i}
  <2>1. BaseOf(t, i, t[i + 1].attempts - 1) /\ i \in StepsOf(t)
    BY <1>3 DEF Session, Completed
  <2>2. PICK j \in Starts(t) : /\ j < i - 1 /\ t[j + 1].attempts = t[i + 1].attempts - 1
                               /\ \A h \in Starts(t) : h < i => h <= j
    BY <2>1 DEF BaseOf
  <2>3. i \in Int /\ i \in 1 .. Len(t)
    BY <1>1, <2>1
  <2>4. Starts(t) \subseteq 1 .. Len(t)
    BY <1>1 DEF Starts
  <2>5. j \in Int /\ j < i
    BY <2>2, <2>3, <2>4
  <2>6. starts = {h \in Starts(t) : h < i}
    BY DEF Starts
  <2>7. starts \in SUBSET Int /\ j \in starts /\ \A h \in starts : h <= j
    BY <2>2, <2>4, <2>5, <2>6
  <2> HIDE DEF starts
  <2>8. Max(starts) = j
    BY <2>7, Greatest
  <2>9. t[i + 1].attempts \in Nat
    <3>1. i < Len(t) /\ i \in Rows(t, "request")
      BY <1>1, <2>1 DEF AllAnswered, StepsOf
    <3>2. i + 1 \in 1 .. Len(t) /\ (i + 1) % 2 = 0
      BY <1>1, <2>3, <3>1, TurnFacts DEF AllPaired
    <3>3. t[i + 1] \in AllRows /\ t[i + 1].dir = "response"
      BY <1>1, <3>2 DEF AllPaired, Alternates
    <3>4. t[i + 1] \in ResponseRows
      BY <3>3 DEF AllRows, RequestRows, Exception
    <3> QED BY <3>4 DEF ResponseRows
  <2>10. PICK n \in Nat : n = t[i + 1].attempts
    BY <2>9
  <2>11. t[Max(starts) + 1].attempts = n - 1
    BY <2>2, <2>8, <2>10
  <2>12. t[i + 1].attempts - t[Max(starts) + 1].attempts = 1
    BY <2>10, <2>11
  <2> QED BY <2>12 DEF starts
<1>5. Cardinality(Finals(t)) = Crystals
  BY <1>3 DEF Session
<1> QED BY <1>2, <1>4, <1>5 DEF CrystalEvidence

\* The reader's reading of the pairs is the client's writing of them.
LEMMA EvidencePaired ==
    ASSUME NEW t \in Seq(AllRows), AllPaired(t), CloseWasOk(t)
    PROVE  Paired(t)
<1>1. DOMAIN t = 1 .. Len(t) /\ Len(t) \in Nat /\ Len(t) >= 2 /\ Len(t) % 2 = 0
  BY DEF CloseWasOk, AllPaired
<1>2. /\ \A i \in DOMAIN t : t[i].dir = IF i % 2 = 1 THEN "request" ELSE "response"
      /\ \A i \in DOMAIN t : i % 2 = 0 => t[i].id = t[i - 1].id
      /\ t[1].op = "init" /\ t[2].ok
  BY <1>1 DEF AllPaired, Alternates
<1>3. Rows(t, "exception") = {}
  BY <1>2 DEF Rows
<1>4. \A i \in Rows(t, "response") : t[i].id = t[i - 1].id
  <2> TAKE i \in Rows(t, "response")
  <2>1. i \in 1 .. Len(t) /\ t[i].dir = "response"
    BY <1>1 DEF Rows
  <2>2. i % 2 # 1
    BY <1>1, <1>2, <2>1
  <2>3. i % 2 = 0
    BY <2>1, <2>2
  <2> QED BY <1>1, <1>2, <2>1, <2>3
<1>5. t # <<>>
  BY <1>1
<1> QED BY <1>1, <1>2, <1>3, <1>4, <1>5 DEF Paired, CloseWasOk

\* Of the rollouts that complete with their environment closed and no step
\* raised before the oracle, the reconstruction of training_jobs.py accepts
\* every one of CrystalGym, and of MADE exactly those whose last attempt did
\* not raise: nothing that the policy proposes, the adapter refuses or the
\* oracle fails at before that attempt makes a finished rollout worthless, and
\* an exception of the last attempt always does.
THEOREM CompletedIsAccepted == Spec => []CompleteIsAccepted
<1>1. Init => Inv /\ Trace /\ Ending
  BY InitKeeps, TraceInit, EndingInit
<1>2. Inv /\ Trace /\ Ending /\ [Next]_vars => Inv' /\ Trace' /\ Ending'
  BY NextKeeps, TraceKeeps, EndingKeeps
<1>3. ASSUME Inv, Trace, Ending, pc = "complete", env = "closed", skipped = 0
      PROVE  Accepted <=> (Made => LastStepOk(transcript))
  <2>1. Going
    BY <1>3 DEF Going
  <2>2. Pairs /\ Evidenced
    BY <1>3, <2>1, TraceOf
  <2>3. channel.at = "none" /\ EpisodeDone(adapter)
    BY <1>3 DEF Inv, Conversation
  <2>4. transcript \in Seq(AllRows) /\ AllPaired(transcript) /\ CloseWasOk(transcript)
    BY <1>3, <2>1, <2>2, <2>3, TurnState DEF Pairs
  <2>5. Paired(transcript)
    BY <2>4, EvidencePaired
  <2>6. calls = Allowed /\ calls \in Nat
    <3>1. adapter \in States /\ adapter.attempts = calls /\ calls <= Allowed /\ calls \in Nat
      BY <1>3 DEF Inv, Typed, Accounting
    <3>2. adapter.attempts >= Allowed
      BY <2>3, <3>1, ObservationType
    <3> QED BY <3>1, <3>2, Naturals1
  <2>7. curve \in Seq(Nat \X Nat) /\ adapter \in States
    BY <1>3 DEF Inv, Typed
  <2>8. ASSUME Made
        PROVE  MadeEvidence(transcript, curve) <=> LastStepOk(transcript)
    <3>1. MadeTrace
      BY <2>2, <2>8 DEF Evidenced
    <3>2. Unsettled = {} /\ ~Asked
      BY <1>3, <2>3 DEF Unsettled, Asked
    <3>3. Book(transcript, curve, {}, adapter.stable)
      BY <3>1, <3>2 DEF MadeTrace
    <3>4. Cardinality(StepsOf(transcript)) = calls + 0 /\ Cardinality(StepsOf(transcript)) = Len(curve) + 0
      BY <1>3, <3>1 DEF MadeTrace
    <3>5. calls = Budget /\ adapter.stable \in Nat /\ Len(curve) \in Nat
      BY <2>6, <2>7, <2>8, StableGrows DEF Allowed
    <3>6. Ends(transcript, Len(transcript) - 2)
      <4>1. Ends(transcript, Len(transcript)) \/ Ends(transcript, Len(transcript) - 2)
        <5> HIDE DEF Made, EpisodeDone, Going, Ends
        <5> QED BY <1>3, <2>1, <2>8 DEF Ending
      <4>2. ~Ends(transcript, Len(transcript))
        BY <2>4 DEF CloseWasOk, Ends, EndsOk, EndsFailed
      <4> QED BY <4>1, <4>2
    <3>7. MadeEvidence(transcript, curve) <=> CountersAgree(transcript)
      BY <2>4, <2>6, <2>7, <3>3, <3>4, <3>5, EvidenceMade
    <3>8. CountersAgree(transcript) <=> LastStepOk(transcript)
      BY <2>4, <3>6, CountersTold
    <3> QED BY <3>7, <3>8
  <2>9. ASSUME ~Made
        PROVE  CrystalEvidence(transcript, curve)
    <3>1. CrystalTrace
      BY <2>2, <2>9 DEF Evidenced
    <3>2. Session(transcript, curve) /\ calls = Len(curve)
      BY <1>3, <3>1 DEF CrystalTrace
    <3>3. calls = Crystals
      BY <2>6, <2>9 DEF Allowed
    <3> QED BY <2>4, <3>2, <3>3, EvidenceCrystal
  <2> HIDE DEF Made, MadeEvidence, CrystalEvidence, Paired, LastStepOk
  <2> QED BY <1>3, <2>5, <2>8, <2>9 DEF Accepted
<1>4. Inv /\ Trace /\ Ending => CompleteIsAccepted
  <2> HIDE DEF Inv, Trace, Ending, Accepted, Made, LastStepOk
  <2> QED BY <1>3 DEF CompleteIsAccepted
<1> QED BY <1>1, <1>2, <1>4, PTL DEF Spec

=============================================================================
