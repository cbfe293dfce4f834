--------------------------- MODULE PipelineProofs ---------------------------
(***************************************************************************)
(* Proofs about the stage pipeline and about the final evaluation, which   *)
(* its last stages run.                                                    *)
(*                                                                         *)
(* The pipeline has one supervisor at a time, which may crash and be       *)
(* started again any number of times, next to a builder that rebuilds the  *)
(* queue and stages that outlive their supervisor.  (Two supervisors that  *)
(* overlap break what is proved here: the status is read before the lock   *)
(* is taken.)  Every queue there ever is holds the declared stages up to   *)
(* one of three places (Queues).  So, however often it is replaced, the    *)
(* stages are launched in the declared order, and what the records say     *)
(* follows from how many were launched (Recorded).                         *)
(*                                                                         *)
(* The final evaluation has variables of its own; its invariant            *)
(* (EvaluationInv) and its theorems are at the end of the module.          *)
(***************************************************************************)
EXTENDS StageSupervisor, FinalEvaluation, TLAPS

OneSupervisor == \A s, t \in Supervisors : s = t

-----------------------------------------------------------------------------
(* The invariant *)

Runnable == {Collections, Made, All}

\* Only a queue of all stages is ever accepted.
Queues ==
    {q \in [runnable : Runnable, command : [Ids -> Nat], sealed : BOOLEAN, accepted : BOOLEAN] :
        q.accepted => q.runnable = All}

Statuses ==
    [record : [Ids -> States], command : [Ids -> Nat], active : Ids \cup {NoStage},
     complete : BOOLEAN]

Launches ==
    [id : Ids, version : Nat, outcome : {"running", "written", "succeeded", "failed"},
     by : Supervisors, read : Queues \cup {NoQueue}]

Typed ==
    /\ queue \in Queues /\ draft \in Queues \cup {NoQueue} /\ plan \in Seq(Builds)
    /\ draft # NoQueue => plan # <<>>
    /\ status \in Statuses /\ mem \in [Supervisors -> Statuses]
    /\ lock \in Supervisors \cup {NoOne}
    /\ pc \in [Supervisors -> {"off", "loaded", "loop", "decide", "start", "run"}]
    /\ seen \in [Supervisors -> Queues \cup {NoQueue}]
    /\ launched \in Seq(Launches)

Last == Len(launched)

\* What is on record of the declared stage i.
Rec(i) == status.record[All[i]]

\* Stages are launched as they are declared.
InOrder ==
    /\ Last <= Len(All)
    /\ \A i \in 1..Last : launched[i].id = All[i]
    /\ \A i \in 1..Last : launched[i].read # NoQueue => launched[i].read.runnable = All

\* All launched stages but the last succeeded; the one behind it may have been
\* announced, and then it has succeeded as well.
Recorded(i) ==
    /\ i < Last => Rec(i) = "succeeded"
    /\ i = Last => Rec(i) # "none"
    /\ i = Last + 1 /\ Rec(i) # "none" =>
          Rec(i) = "started" /\ (Last > 0 => Rec(Last) = "succeeded")
    /\ i > Last + 1 => Rec(i) = "none"
    /\ Rec(i) = "succeeded" =>
          i <= Last /\ launched[i].outcome = "succeeded"
                    /\ launched[i].version = status.command[All[i]]

\* A status that calls the study complete is right.
Sound(st) == st.complete => \A id \in Ids : Succeeded(id)

\* The supervisor has the records that are on disk, and knows its child.
Placed(s) ==
    /\ pc[s] # "off" => /\ mem[s].record = status.record /\ mem[s].command = status.command
                        /\ mem[s].active = status.active
    /\ pc[s] = "decide" => seen[s] \in Queues
    /\ pc[s] = "start" => /\ Last < Len(All) /\ mem[s].active = All[Last + 1]
                          /\ Rec(Last + 1) = "started"
    /\ pc[s] = "run" => /\ Last > 0 /\ mem[s].active = All[Last] /\ Rec(Last) = "started"
                        /\ launched[Last].version = status.command[All[Last]]

Inv ==
    /\ Typed /\ InOrder
    /\ \A i \in 1..Len(All) : Recorded(i)
    /\ Sound(status)
    /\ \A s \in Supervisors : Placed(s) /\ Sound(mem[s])


-----------------------------------------------------------------------------
(* Queues, builds and records *)

LEMMA Concatenation ==
    ASSUME NEW S, NEW s \in Seq(S), NEW t \in Seq(S)
    PROVE  /\ s \o t \in Seq(S) /\ Len(s \o t) = Len(s) + Len(t) /\ Len(s \o t) \in Nat
           /\ \A i \in 1..Len(s) : (s \o t)[i] = s[i]
           /\ \A i \in 1..Len(t) : (s \o t)[Len(s) + i] = t[i]
OBVIOUS

\* A queue holds the first of the declared stages, in their order, and ends
\* with the finalizer only when it holds them all.
LEMMA RunnableFacts ==
    /\ All \in Seq(Ids) /\ Len(All) \in Nat /\ Len(All) > 0
    /\ \A r \in Runnable :
          /\ r \in Seq(Ids) /\ Len(r) \in Nat /\ Len(r) > 0 /\ Len(r) <= Len(All)
          /\ \A i \in 1..Len(r) : r[i] = All[i]
          /\ r[Len(r)] = Finalizer => r = All
<1>1. /\ Collections \in Seq(Ids) /\ MadeRest \in Seq(Ids) /\ Crystal \in Seq(Ids)
      /\ Closing \in Seq(Ids)
      /\ Len(Collections) \in Nat /\ Len(Collections) > 0 /\ Len(MadeRest) \in Nat
      /\ Len(Crystal) \in Nat /\ Len(Closing) \in Nat /\ Len(Closing) > 0
  BY StagesAssumption
<1>2. /\ Made \in Seq(Ids) /\ Len(Made) = Len(Collections) + Len(MadeRest) /\ Len(Made) \in Nat
      /\ \A i \in 1..Len(Collections) : Made[i] = Collections[i]
  BY <1>1, Concatenation DEF Made
<1> DEFINE Most == Made \o Crystal
<1>3. /\ Most \in Seq(Ids) /\ Len(Most) = Len(Made) + Len(Crystal) /\ Len(Most) \in Nat
      /\ \A i \in 1..Len(Made) : Most[i] = Made[i]
  BY <1>1, <1>2, Concatenation
<1>4. All = Most \o Closing
  BY DEF All
<1> HIDE DEF Most
<1>5. /\ All \in Seq(Ids) /\ Len(All) = Len(Most) + Len(Closing) /\ Len(All) \in Nat
      /\ \A i \in 1..Len(Most) : All[i] = Most[i]
      /\ \A i \in 1..Len(Closing) : All[Len(Most) + i] = Closing[i]
  <2>1. Closing \in Seq(Ids) /\ Most \in Seq(Ids)
    BY <1>1, <1>3
  <2>2. /\ Most \o Closing \in Seq(Ids) /\ Len(Most \o Closing) = Len(Most) + Len(Closing)
        /\ Len(Most \o Closing) \in Nat
        /\ \A i \in 1..Len(Most) : (Most \o Closing)[i] = Most[i]
        /\ \A i \in 1..Len(Closing) : (Most \o Closing)[Len(Most) + i] = Closing[i]
    BY ONLY <2>1, Concatenation
  <2> QED BY ONLY <2>2, <1>4, Zenon
<1>6. Finalizer = All[Len(All)]
  <2>1. Len(Closing) \in 1..Len(Closing)
    BY <1>1
  <2> QED BY <1>5, <2>1 DEF Finalizer
<1>7. \A i \in 1..Len(Made) : All[i] = Made[i]
  BY <1>1, <1>2, <1>3, <1>5
<1>8. \A i \in 1..Len(Collections) : All[i] = Collections[i]
  BY <1>1, <1>2, <1>7
<1>9. \A i, k \in 1..Len(All) : All[i] = All[k] => i = k
  BY StagesAssumption
<1>10. /\ Len(Collections) \in 1..Len(All) /\ Len(Collections) # Len(All)
       /\ Len(Made) \in 1..Len(All) /\ Len(Made) # Len(All) /\ Len(All) \in 1..Len(All)
  BY <1>1, <1>2, <1>3, <1>5
<1>11. Made[Len(Made)] = All[Len(Made)] /\ Collections[Len(Collections)] = All[Len(Collections)]
  BY <1>1, <1>2, <1>7, <1>8
<1>12. Made[Len(Made)] # Finalizer /\ Collections[Len(Collections)] # Finalizer
  BY <1>6, <1>9, <1>10, <1>11
<1>13. ASSUME NEW r \in Runnable
       PROVE  /\ r \in Seq(Ids) /\ Len(r) \in Nat /\ Len(r) > 0 /\ Len(r) <= Len(All)
              /\ \A i \in 1..Len(r) : r[i] = All[i]
              /\ r[Len(r)] = Finalizer => r = All
  <2>1. CASE r = Collections
    BY <2>1, <1>1, <1>5, <1>8, <1>10, <1>12
  <2>2. CASE r = Made
    BY <2>2, <1>2, <1>5, <1>7, <1>10, <1>12
  <2>3. CASE r = All
    BY <2>3, <1>5, <1>10
  <2> QED BY <2>1, <2>2, <2>3 DEF Runnable
<1> QED BY <1>5, <1>10, <1>13

LEMMA IdsFacts ==
    /\ \A i \in 1..Len(All) : All[i] \in Ids
    /\ \A id \in Ids : \E i \in 1..Len(All) : id = All[i]
    /\ \A i, k \in 1..Len(All) : All[i] = All[k] => i = k
BY StagesAssumption DEF Ids

LEMMA BuiltType ==
    ASSUME queue \in Queues, NEW build \in Builds
    PROVE  Built(build) \in Queues
<1>1. queue.command \in [Ids -> Nat]
  BY DEF Queues
<1>2. build.seal \in BOOLEAN /\ build.version \in Nat
  BY DEF Builds
<1>3. [id \in Ids |-> IF id \in IdsOf(Collections) THEN queue.command[id] ELSE build.version]
        \in [Ids -> Nat]
  BY <1>1, <1>2
<1>4. (IF build.seal THEN IF build.phase = "made" THEN Made ELSE All ELSE Collections) \in Runnable
  BY DEF Runnable
<1> QED BY <1>2, <1>3, <1>4 DEF Built, Queues

LEMMA StartedFacts ==
    ASSUME NEW st \in Statuses, NEW id \in Ids, NEW c \in Nat,
           NEW next, next = Started(st, id, c)
    PROVE  /\ next \in Statuses /\ next.complete = st.complete /\ next.active = id
           /\ next.record = [st.record EXCEPT ![id] = "started"]
           /\ next.command = [st.command EXCEPT ![id] = c]
<1> DEFINE a == [st EXCEPT !.record[id] = "started"]
           b == [a EXCEPT !.command[id] = c]
           d == [b EXCEPT !.active = id]
<1>1. /\ st.record \in [Ids -> States] /\ st.command \in [Ids -> Nat]
      /\ st.active \in Ids \cup {NoStage} /\ st.complete \in BOOLEAN
  BY DEF Statuses
<1>2. /\ a \in Statuses /\ a.record = [st.record EXCEPT ![id] = "started"]
      /\ a.command = st.command /\ a.complete = st.complete
  BY <1>1 DEF Statuses, States
<1>3. b = [a EXCEPT !.command = [a.command EXCEPT ![id] = c]]
  OBVIOUS
<1>4. Started(st, id, c) = d
  BY DEF Started
<1> HIDE DEF a
<1>5. /\ b \in Statuses /\ b.record = a.record
      /\ b.command = [a.command EXCEPT ![id] = c] /\ b.complete = a.complete
  BY <1>2, <1>1 DEF Statuses
<1> HIDE DEF b
<1>6. /\ d \in Statuses /\ d.record = b.record /\ d.command = b.command
      /\ d.complete = b.complete /\ d.active = id
  BY <1>5 DEF Statuses
<1> QED BY <1>2, <1>4, <1>5, <1>6

\* Whoever leaves the records and the processes alone keeps what the
\* invariant says of them.
LEMMA RecordsStay ==
    ASSUME InOrder, \A i \in 1..Len(All) : Recorded(i),
           launched' = launched, status'.record = status.record, status'.command = status.command
    PROVE  InOrder' /\ (\A i \in 1..Len(All) : Recorded(i)')
           /\ \A id \in Ids : Succeeded(id)' <=> Succeeded(id)
BY DEF InOrder, Recorded, Rec, Last, Succeeded

-----------------------------------------------------------------------------
(* The supervisor *)

\* The supervisor moved, and no record and no process changed.
LEMMA MoveKeeps ==
    ASSUME OneSupervisor, Inv, NEW s \in Supervisors, Typed',
           launched' = launched, status'.record = status.record, status'.command = status.command,
           Placed(s)', Sound(status)', Sound(mem[s])'
    PROVE  Inv'
<1>1. InOrder' /\ \A i \in 1..Len(All) : Recorded(i)'
  BY RecordsStay DEF Inv
<1>2. \A t \in Supervisors : t = s
  BY DEF OneSupervisor
<1> QED BY <1>1, <1>2 DEF Inv

LEMMA SoundStays ==
    ASSUME launched' = launched
    PROVE  \A id \in Ids : Succeeded(id)' <=> Succeeded(id)
BY DEF Succeeded

LEMMA ExitFacts ==
    ASSUME Typed, NEW s \in Supervisors, Exit(s)
    PROVE  /\ pc' \in [Supervisors -> {"off", "loaded", "loop", "decide", "start", "run"}]
           /\ pc'[s] = "off" /\ lock' \in Supervisors \cup {NoOne}
           /\ mem' \in [Supervisors -> Statuses] /\ ~mem'[s].complete
           /\ seen' \in [Supervisors -> Queues \cup {NoQueue}]
<1>1. NewStatus \in Statuses /\ ~NewStatus.complete
  BY DEF NewStatus, Statuses, States
<1>2. /\ pc' = [pc EXCEPT ![s] = "off"] /\ lock' \in {lock, NoOne}
      /\ mem' = [mem EXCEPT ![s] = NewStatus] /\ seen' = [seen EXCEPT ![s] = NoQueue]
  BY DEF Exit, Goto
<1> QED BY <1>1, <1>2 DEF Typed

\* The supervisor is gone; what it left on disk are the records as they were.
LEMMA ExitKeeps ==
    ASSUME OneSupervisor, Inv, NEW s \in Supervisors, Exit(s),
           UNCHANGED <<queue, launched, plan, draft>>, status' \in Statuses,
           status'.record = status.record, status'.command = status.command, Sound(status)'
    PROVE  Inv'
<1>1. Typed'
  BY ExitFacts DEF Inv, Typed
<1>2. Placed(s)' /\ Sound(mem[s])'
  BY ExitFacts DEF Inv, Placed, Sound
<1> QED BY <1>1, <1>2, MoveKeeps

LEMMA LoadKeeps ==
    ASSUME OneSupervisor, Inv, NEW s \in Supervisors, Load(s)
    PROVE  Inv'
<1>1. /\ pc' = [pc EXCEPT ![s] = "loaded"] /\ mem' = [mem EXCEPT ![s] = status]
      /\ UNCHANGED <<queue, status, lock, seen, launched, plan, draft>>
  BY DEF Load, Goto
<1>2. Typed' /\ pc'[s] = "loaded" /\ mem'[s] = status
  BY <1>1 DEF Inv, Typed
<1>3. Placed(s)' /\ Sound(mem[s])' /\ Sound(status)'
  BY <1>1, <1>2, SoundStays DEF Inv, Placed, Sound
<1> QED BY <1>1, <1>2, <1>3, MoveKeeps

LEMMA LockKeeps ==
    ASSUME OneSupervisor, Inv, NEW s \in Supervisors, Lock(s)
    PROVE  Inv'
<1>1. UNCHANGED <<queue, status, launched, plan, draft>> /\ pc[s] = "loaded"
  BY DEF Lock
<1>2. Sound(status)' /\ status' \in Statuses
  BY <1>1, SoundStays DEF Inv, Typed, Sound
<1>3. CASE lock = NoOne
  <2>1. /\ lock' = s /\ pc' = [pc EXCEPT ![s] = "loop"] /\ seen' = seen
        /\ mem' = [mem EXCEPT ![s].complete = FALSE]
    BY <1>3 DEF Lock, Goto
  <2>2. mem[s] \in Statuses
    BY DEF Inv, Typed
  <2>3. /\ [mem[s] EXCEPT !.complete = FALSE] \in Statuses
        /\ [mem[s] EXCEPT !.complete = FALSE].record = mem[s].record
        /\ [mem[s] EXCEPT !.complete = FALSE].command = mem[s].command
        /\ [mem[s] EXCEPT !.complete = FALSE].active = mem[s].active
        /\ ~[mem[s] EXCEPT !.complete = FALSE].complete
    BY <2>2 DEF Statuses
  <2>4. mem' = [mem EXCEPT ![s] = [mem[s] EXCEPT !.complete = FALSE]]
    BY <2>1
  <2>5. mem'[s] = [mem[s] EXCEPT !.complete = FALSE] /\ mem' \in [Supervisors -> Statuses]
    BY <2>3, <2>4 DEF Inv, Typed
  <2>6. Typed' /\ pc'[s] = "loop"
    BY <1>1, <2>1, <2>5 DEF Inv, Typed
  <2>7. Placed(s)' /\ Sound(mem[s])'
    BY <1>1, <2>3, <2>5, <2>6 DEF Inv, Placed, Sound
  <2> QED BY <1>1, <1>2, <2>6, <2>7, MoveKeeps
<1>4. CASE lock # NoOne
  <2>1. Exit(s)
    BY <1>4 DEF Lock
  <2> QED BY <1>1, <1>2, <2>1, ExitKeeps
<1> QED BY <1>3, <1>4

LEMMA ReadQueueKeeps ==
    ASSUME OneSupervisor, Inv, NEW s \in Supervisors, ReadQueue(s)
    PROVE  Inv'
<1>1. /\ pc' = [pc EXCEPT ![s] = "decide"] /\ seen' = [seen EXCEPT ![s] = queue]
      /\ UNCHANGED <<queue, status, lock, mem, launched, plan, draft>> /\ pc[s] = "loop"
  BY DEF ReadQueue, Goto
<1>2. Typed' /\ pc'[s] = "decide" /\ seen'[s] = queue /\ queue \in Queues
  BY <1>1 DEF Inv, Typed
<1>3. Queues' = Queues
  BY DEF Queues
<1>4. Placed(s)' /\ Sound(mem[s])' /\ Sound(status)'
  BY <1>1, <1>2, SoundStays DEF Inv, Placed, Sound
<1> QED BY <1>1, <1>2, <1>4, MoveKeeps

LEMMA RefuseOrCrashKeeps ==
    ASSUME OneSupervisor, Inv, NEW s \in Supervisors, Refuse(s) \/ Crash(s)
    PROVE  Inv'
<1>1. Exit(s) /\ UNCHANGED <<queue, status, launched, plan, draft>>
  BY DEF Refuse, Crash
<1>2. Sound(status)' /\ status' \in Statuses
  BY <1>1, SoundStays DEF Inv, Typed, Sound
<1> QED BY <1>1, <1>2, ExitKeeps

-----------------------------------------------------------------------------
(* What the supervisor decides *)

\* Of the stages before the next one every one has a record, and the next one
\* has none.
LEMMA NextFacts ==
    ASSUME Inv, NEW s \in Supervisors, pc[s] = "decide"
    PROVE  LET k == NextIndex(s)  r == seen[s].runnable
           IN  /\ r \in Runnable /\ k \in Nat /\ k > 0 /\ k <= Len(r) + 1
               /\ k <= Len(r) => Rec(k) = "none"
<1> DEFINE r == seen[s].runnable
           open == {i \in 1..Len(r) : mem[s].record[r[i]] = "none"}
<1>1. r \in Runnable
  BY DEF Inv, Placed, Queues
<1>2. Len(r) \in Nat /\ Len(r) <= Len(All) /\ Len(All) \in Nat /\ \A i \in 1..Len(r) : r[i] = All[i]
  BY <1>1, RunnableFacts
<1>3. open = {i \in 1..Len(r) : Rec(i) = "none"}
  BY <1>2 DEF Inv, Placed, Rec
<1>4. NextIndex(s) = IF open = {} THEN Len(r) + 1
                     ELSE CHOOSE i \in open : \A k \in open : i <= k
  BY DEF NextIndex
<1> HIDE DEF open
<1>5. CASE open = {}
  BY <1>1, <1>2, <1>4, <1>5
<1>6. CASE open # {}
  <2>1. Last \in Nat /\ \A i \in 1..Len(All) : Recorded(i)
    BY DEF Inv, Typed, Last
  <2>2. \A i \in open : i \in 1..Len(r) /\ i > Last
    <3> SUFFICES ASSUME NEW i \in open, i <= Last
                 PROVE  FALSE
      BY <1>2, <1>3, <2>1
    <3>1. i \in 1..Len(All) /\ Rec(i) = "none"
      BY <1>2, <1>3
    <3> QED BY <1>2, <2>1, <3>1 DEF Recorded
  <2>3. \A i \in 1..Len(r) : i > Last + 1 => i \in open
    BY <1>2, <1>3, <2>1 DEF Recorded
  <2>4. \E i \in open : \A k \in open : i <= k
    <3>1. CASE Last + 1 \in open
      BY <1>2, <2>1, <2>2, <3>1
    <3>2. CASE Last + 1 \notin open
      <4>1. PICK i \in open : TRUE
        BY <1>6
      <4>2. i \in 1..Len(r) /\ i > Last + 1
        BY <2>1, <2>2, <3>2, <4>1, <1>2
      <4>3. Last + 2 \in open
        BY <1>2, <2>1, <2>3, <4>2
      <4>4. \A k \in open : Last + 2 <= k
        BY <1>2, <2>1, <2>2, <3>2
      <4> QED BY <4>3, <4>4
    <3> QED BY <3>1, <3>2
  <2>5. NextIndex(s) \in open
    BY <1>4, <1>6, <2>4
  <2> QED BY <1>1, <1>2, <1>3, <2>5
<1> QED BY <1>5, <1>6

\* When it decides, every stage before the next one succeeded.
LEMMA SettledFacts ==
    ASSUME Inv, NEW s \in Supervisors, Decides(s)
    PROVE  \A i \in 1..(NextIndex(s) - 1) : i \in 1..Len(All) /\ Rec(i) = "succeeded"
<1>1. pc[s] = "decide" /\ Settled(s)
  BY DEF Decides
<1>2. /\ seen[s].runnable \in Runnable /\ NextIndex(s) \in Nat
      /\ NextIndex(s) <= Len(seen[s].runnable) + 1
  BY <1>1, NextFacts
<1>3. /\ Len(seen[s].runnable) \in Nat /\ Len(seen[s].runnable) <= Len(All) /\ Len(All) \in Nat
      /\ \A i \in 1..Len(seen[s].runnable) : seen[s].runnable[i] = All[i]
  BY <1>2, RunnableFacts
<1>4. mem[s].record = status.record
  BY <1>1 DEF Inv, Placed
<1> SUFFICES ASSUME NEW i \in 1..(NextIndex(s) - 1)
             PROVE  i \in 1..Len(All) /\ Rec(i) = "succeeded"
  OBVIOUS
<1>5. i \in 1..Len(seen[s].runnable) /\ i \in 1..Len(All)
  BY <1>2, <1>3
<1>6. mem[s].record[seen[s].runnable[i]] = "succeeded"
  BY <1>1 DEF Settled
<1> QED BY <1>3, <1>4, <1>5, <1>6 DEF Rec

LEMMA WaitKeeps ==
    ASSUME OneSupervisor, Inv, NEW s \in Supervisors, Wait(s)
    PROVE  Inv'
<1>1. /\ status' = mem[s] /\ pc[s] = "decide" /\ pc' = [pc EXCEPT ![s] = "loop"]
      /\ seen' = [seen EXCEPT ![s] = NoQueue]
      /\ UNCHANGED <<queue, lock, mem, launched, plan, draft>>
  BY DEF Wait, Decides, Goto
<1>2. status'.record = status.record /\ status'.command = status.command
  BY <1>1 DEF Inv, Placed
<1>3. Typed' /\ pc'[s] = "loop"
  BY <1>1 DEF Inv, Typed
<1>4. Placed(s)' /\ Sound(mem[s])' /\ Sound(status)'
  BY <1>1, <1>3, SoundStays DEF Inv, Placed, Sound
<1> QED BY <1>1, <1>2, <1>3, <1>4, MoveKeeps

\* The study is called complete only when all records say so.
LEMMA FinishQueueKeeps ==
    ASSUME OneSupervisor, Inv, NEW s \in Supervisors, FinishQueue(s)
    PROVE  Inv'
<1>1. /\ status' = [mem[s] EXCEPT !.complete = seen[s].accepted] /\ pc[s] = "decide"
      /\ Exit(s) /\ UNCHANGED <<queue, launched, plan, draft>>
      /\ NextIndex(s) > Len(seen[s].runnable) /\ Decides(s)
  BY DEF FinishQueue, Decides, Finished
<1>2. seen[s] \in Queues /\ mem[s] \in Statuses /\ seen[s].accepted \in BOOLEAN
  BY <1>1 DEF Inv, Typed, Placed, Queues
<1>3. /\ status' \in Statuses /\ status'.record = mem[s].record
      /\ status'.command = mem[s].command /\ status'.complete = seen[s].accepted
  BY <1>1, <1>2 DEF Statuses
<1>4. status'.record = status.record /\ status'.command = status.command
  BY <1>1, <1>3 DEF Inv, Placed
<1>5. ASSUME seen[s].accepted, NEW id \in Ids
      PROVE  Succeeded(id)
  <2>1. seen[s].runnable = All
    BY <1>2, <1>5 DEF Queues
  <2>2. NextIndex(s) = Len(All) + 1 /\ Len(All) \in Nat
    BY <1>1, <2>1, NextFacts, RunnableFacts
  <2>3. PICK i \in 1..Len(All) : id = All[i]
    BY <1>5, IdsFacts
  <2>4. i \in 1..(NextIndex(s) - 1)
    BY <2>2
  <2>5. Rec(i) = "succeeded"
    BY <1>1, <2>4, SettledFacts
  <2>6. i <= Last /\ launched[i].outcome = "succeeded" /\ Last \in Nat
    BY <2>3, <2>5 DEF Inv, Recorded, Typed, Last
  <2>7. i \in 1..Len(launched) /\ launched[i].id = id
    BY <2>3, <2>6 DEF Inv, InOrder, Last
  <2> QED BY <2>6, <2>7 DEF Succeeded
<1>6. Sound(status)'
  BY <1>1, <1>3, <1>5, SoundStays DEF Sound
<1> QED BY <1>1, <1>3, <1>4, <1>6, ExitKeeps

\* The stage that is announced is the one after the last that was launched.
LEMMA RecordStartKeeps ==
    ASSUME OneSupervisor, Inv, NEW s \in Supervisors, RecordStart(s)
    PROVE  Inv'
<1> DEFINE k == NextIndex(s)  id == seen[s].runnable[k]  c == seen[s].command[id]
           next == Started(mem[s], id, c)
<1>1. /\ Decides(s) /\ pc[s] = "decide" /\ ~(k > Len(seen[s].runnable))
      /\ mem' = [mem EXCEPT ![s] = next] /\ status' = mem'[s]
      /\ pc' = [pc EXCEPT ![s] = "start"]
      /\ UNCHANGED <<queue, lock, seen, launched, plan, draft>>
  BY DEF RecordStart, ChooseStage, Decides, Finished, Goto
<1>2. /\ seen[s].runnable \in Runnable /\ k \in Nat /\ k > 0
      /\ k <= Len(seen[s].runnable) => Rec(k) = "none"
  BY <1>1, NextFacts
<1>3. /\ Len(seen[s].runnable) \in Nat /\ Len(seen[s].runnable) <= Len(All) /\ Len(All) \in Nat
      /\ \A i \in 1..Len(seen[s].runnable) : seen[s].runnable[i] = All[i]
  BY <1>2, RunnableFacts
<1>4. \A i \in 1..(k - 1) : i \in 1..Len(All) /\ Rec(i) = "succeeded"
  BY <1>1, SettledFacts
<1> HIDE DEF k
<1>5. /\ k \in 1..Len(seen[s].runnable) /\ k \in 1..Len(All) /\ id = All[k] /\ id \in Ids
      /\ Rec(k) = "none"
  BY <1>1, <1>2, <1>3, IdsFacts
<1>6. Last \in Nat /\ Last <= Len(All) /\ \A i \in 1..Len(All) : Recorded(i)
  BY DEF Inv, Typed, InOrder, Last
<1>7. k = Last + 1
  <2>1. ~(k < Last) /\ k # Last
    BY <1>5, <1>6 DEF Recorded
  <2>2. CASE k > Last + 1
    <3>1. Last + 1 \in 1..(k - 1)
      BY <1>2, <1>6, <2>2
    <3>2. Rec(Last + 1) = "succeeded" /\ Last + 1 \in 1..Len(All)
      BY <1>4, <3>1
    <3> QED BY <1>6, <3>2 DEF Recorded
  <2> QED BY <1>2, <1>6, <2>1, <2>2
<1>8. c \in Nat /\ mem[s] \in Statuses
  <2>1. seen[s] \in Queues
    BY <1>1 DEF Inv, Placed
  <2> QED BY <1>5, <2>1 DEF Inv, Typed, Queues
<1> HIDE DEF id, c
<1> HIDE DEF next
<1>9. /\ next \in Statuses /\ next.complete = mem[s].complete /\ next.active = id
      /\ next.record = [mem[s].record EXCEPT ![id] = "started"]
      /\ next.command = [mem[s].command EXCEPT ![id] = c]
  <2>1. next = Started(mem[s], id, c)
    BY DEF next
  <2>2. id \in Ids /\ c \in Nat /\ mem[s] \in Statuses
    BY <1>5, <1>8
  <2> HIDE DEF Statuses
  <2> QED BY ONLY <2>1, <2>2, StartedFacts
<1>10. mem'[s] = next /\ status' = next /\ pc'[s] = "start"
  BY <1>1 DEF Inv, Typed
<1>11. Typed'
  BY <1>1, <1>9, <1>10 DEF Inv, Typed
<1>12. /\ status'.record = [status.record EXCEPT ![id] = "started"]
       /\ status'.command = [status.command EXCEPT ![id] = c]
       /\ status.record \in [Ids -> States] /\ status.command \in [Ids -> Nat]
  BY <1>1, <1>9, <1>10 DEF Inv, Typed, Placed, Statuses
<1>13. \A i \in 1..Len(All) :
          /\ i # k => Rec(i)' = Rec(i) /\ status'.command[All[i]] = status.command[All[i]]
          /\ i = k => Rec(i)' = "started"
  <2> SUFFICES ASSUME NEW i \in 1..Len(All)
               PROVE  /\ i # k => /\ status'.record[All[i]] = status.record[All[i]]
                                  /\ status'.command[All[i]] = status.command[All[i]]
                      /\ i = k => status'.record[All[i]] = "started"
    BY DEF Rec
  <2>1. All[i] \in Ids /\ (All[i] = id <=> i = k)
    BY <1>5, IdsFacts
  <2> QED BY <1>12, <2>1
<1>14. InOrder' /\ Last' = Last /\ launched' = launched
  BY <1>1 DEF Inv, InOrder, Last
<1>15. ASSUME NEW i \in 1..Len(All)
       PROVE  Recorded(i)'
  <2>1. CASE i = k
    <3>1. Last > 0 => Last \in 1..(k - 1)
      BY <1>6, <1>7
    <3>2. Last > 0 => Rec(Last)' = "succeeded"
      BY <3>1, <1>4, <1>7, <1>13, <1>14, <1>6
    <3>3. Rec(i)' = "started" /\ i = Last + 1
      BY <2>1, <1>7, <1>13
    <3> QED BY <3>2, <3>3, <1>6, <1>14 DEF Recorded
  <2>2. CASE i # k
    <3>1. Rec(i)' = Rec(i) /\ status'.command[All[i]] = status.command[All[i]]
      BY <2>2, <1>13
    <3>2. i # Last + 1 /\ Recorded(i)
      BY <2>2, <1>6, <1>7
    <3> QED BY <3>1, <3>2, <1>6, <1>14 DEF Recorded
  <2> QED BY <2>1, <2>2
<1>16. Placed(s)'
  <2>1. Last < Len(All) /\ Rec(Last + 1)' = "started" /\ id = All[Last + 1]
    BY <1>3, <1>5, <1>6, <1>7, <1>13, <1>14
  <2> QED BY <2>1, <1>9, <1>10, <1>14 DEF Placed
<1>17. Sound(status)' /\ Sound(mem[s])'
  BY <1>1, <1>9, <1>10, SoundStays DEF Inv, Sound
<1>18. \A t \in Supervisors : t = s
  BY DEF OneSupervisor
<1> QED BY <1>11, <1>14, <1>15, <1>16, <1>17, <1>18 DEF Inv

\* The announced stage is launched, as the next in order.
LEMMA LaunchKeeps ==
    ASSUME OneSupervisor, Inv, NEW s \in Supervisors, Launch(s)
    PROVE  Inv'
<1> DEFINE id == mem[s].active
           child == [id |-> id, version |-> mem[s].command[id], outcome |-> "running",
                     by |-> s, read |-> NoQueue]
<1>1. /\ pc[s] = "start" /\ launched' = Append(launched, child)
      /\ pc' = [pc EXCEPT ![s] = "run"]
      /\ UNCHANGED <<queue, status, lock, mem, seen, plan, draft>>
  BY DEF Launch, Goto
<1>2. /\ Last \in Nat /\ Last < Len(All) /\ id = All[Last + 1] /\ Rec(Last + 1) = "started"
      /\ Len(All) \in Nat /\ launched \in Seq(Launches)
  BY <1>1, RunnableFacts DEF Inv, Placed, Typed, Last
<1>3. Last + 1 \in 1..Len(All) /\ id \in Ids
  BY <1>2, IdsFacts
<1>4. mem[s].command = status.command /\ mem[s] \in Statuses /\ mem[s].active = id
  BY <1>1 DEF Inv, Placed, Typed
<1>5. mem[s].command[id] \in Nat
  BY <1>3, <1>4 DEF Statuses
<1> HIDE DEF id
<1>6. /\ child \in Launches /\ child.id = id /\ child.version = status.command[id]
      /\ child.read = NoQueue /\ child.outcome = "running"
  BY <1>3, <1>4, <1>5 DEF Launches
<1> HIDE DEF child
<1>7. /\ launched' \in Seq(Launches) /\ Last' = Last + 1
      /\ \A i \in 1..Last : launched'[i] = launched[i]
      /\ launched'[Last + 1] = child
  BY <1>1, <1>2, <1>6 DEF Last
<1>8. Typed' /\ pc'[s] = "run"
  BY <1>1, <1>7 DEF Inv, Typed, Launches, Queues
<1>9. InOrder'
  <2>1. ASSUME NEW i \in 1..Last'
        PROVE  /\ launched'[i].id = All[i]
               /\ launched'[i].read # NoQueue => launched'[i].read.runnable = All
    <3>1. CASE i \in 1..Last
      BY <3>1, <1>7 DEF Inv, InOrder
    <3>2. CASE i = Last + 1
      BY <3>2, <1>2, <1>6, <1>7
    <3> QED BY <3>1, <3>2, <1>2, <1>7
  <2> QED BY <2>1, <1>2, <1>7 DEF InOrder
<1>10. \A i \in 1..Len(All) : Rec(i)' = Rec(i) /\ status' = status
  BY <1>1 DEF Rec
<1>11. ASSUME NEW i \in 1..Len(All)
       PROVE  Recorded(i)'
  <2>1. Recorded(i) /\ Recorded(Last + 1)
    BY <1>3 DEF Inv
  <2>2. i = Last => i \in 1..Last
    BY <1>2
  <2>3. Rec(Last + 1) # "none"
    BY <1>2
  <2>4. Last > 0 => Rec(Last) = "succeeded"
    BY <2>1, <2>3 DEF Recorded
  <2>5. i < Last + 1 => Rec(i) = "succeeded"
    BY <1>2, <2>1, <2>4 DEF Recorded
  <2>6. Rec(i) = "succeeded" => /\ i <= Last /\ i \in 1..Last /\ launched[i].outcome = "succeeded"
                                /\ launched[i].version = status.command[All[i]]
    BY <1>2, <2>1 DEF Recorded
  <2>7. i > Last + 1 => Rec(i) = "none"
    BY <2>1 DEF Recorded
  <2> QED BY <1>2, <1>7, <1>10, <2>3, <2>5, <2>6, <2>7 DEF Recorded
<1>12. Placed(s)'
  BY <1>1, <1>2, <1>3, <1>4, <1>6, <1>7, <1>8, <1>10 DEF Inv, Placed
<1>13. \A st \in Ids : Succeeded(st) => Succeeded(st)'
  <2>1. \A i \in 1..Len(launched) : i \in 1..Len(launched') /\ launched'[i] = launched[i]
    BY <1>2, <1>7 DEF Last
  <2> QED BY <2>1 DEF Succeeded
<1>14. Sound(status)' /\ Sound(mem[s])'
  BY <1>1, <1>13 DEF Inv, Sound
<1>15. \A t \in Supervisors : t = s
  BY DEF OneSupervisor
<1> QED BY <1>8, <1>9, <1>11, <1>12, <1>14, <1>15 DEF Inv

\* The supervisor waits for the process it launched, and it launched them all.
LEMMA ChildIsLast ==
    ASSUME OneSupervisor, Inv, NEW s \in Supervisors, Last > 0
    PROVE  Child(s) = Last
<1>1. Last \in Nat /\ \A i \in 1..Last : launched[i].by = s
  <2>1. Last \in Nat /\ \A i \in 1..Last : launched[i] \in Launches
    BY DEF Inv, Typed, Last
  <2>2. \A launch \in Launches : launch.by = s
    BY DEF Launches, OneSupervisor
  <2> QED BY <2>1, <2>2
<1> DEFINE mine == {i \in 1..Len(launched) : launched[i].by = s}
<1>2. mine = 1..Last
  BY <1>1 DEF Last
<1>3. Child(s) = CHOOSE i \in mine : \A k \in mine : k <= i
  BY DEF Child
<1> HIDE DEF mine
<1>4. Last \in mine /\ \A k \in mine : k <= Last
  BY <1>1, <1>2
<1>5. Child(s) \in mine /\ \A k \in mine : k <= Child(s)
  BY <1>3, <1>4
<1> QED BY <1>1, <1>2, <1>4, <1>5

\* The outcome of the last stage is recorded as it was.
LEMMA ReapKeeps ==
    ASSUME OneSupervisor, Inv, NEW s \in Supervisors, Reap(s)
    PROVE  Inv'
<1> DEFINE outcome == launched[Child(s)].outcome  id == mem[s].active
           updated == [mem[s] EXCEPT !.record[id] = outcome]
<1>1. /\ pc[s] = "run" /\ ~Running(Child(s)) /\ status' = updated
      /\ UNCHANGED <<queue, launched, plan, draft>>
      /\ \/ /\ pc' = [pc EXCEPT ![s] = "loop"] /\ mem' = [mem EXCEPT ![s] = updated]
            /\ seen' = [seen EXCEPT ![s] = NoQueue] /\ UNCHANGED lock
         \/ Exit(s)
  BY DEF Reap, Goto
<1>2. /\ Last \in Nat /\ Last > 0 /\ Last <= Len(All) /\ Len(All) \in Nat
      /\ id = All[Last] /\ Rec(Last) = "started"
      /\ launched[Last].version = status.command[id]
  BY <1>1, RunnableFacts DEF Inv, Placed, Typed, InOrder, Last
<1>3. Child(s) = Last /\ Last \in 1..Len(All) /\ id \in Ids
  BY <1>2, ChildIsLast, IdsFacts
<1>4. outcome \in {"succeeded", "failed"}
  <2>1. launched[Last] \in Launches
    BY <1>2 DEF Inv, Typed, Last
  <2>2. launched[Last].outcome \in {"running", "written", "succeeded", "failed"}
    BY <2>1 DEF Launches
  <2> QED BY <1>1, <1>3, <2>2 DEF Running
<1>5. /\ mem[s] \in Statuses /\ mem[s].record = status.record /\ mem[s].command = status.command
      /\ status.record \in [Ids -> States]
  BY <1>1 DEF Inv, Placed, Typed, Statuses
<1>6. launched[Last].outcome = outcome
  BY <1>3
<1> HIDE DEF outcome, id
<1>7. /\ updated \in Statuses /\ updated.record = [mem[s].record EXCEPT ![id] = outcome]
      /\ updated.command = mem[s].command /\ updated.complete = mem[s].complete
      /\ updated.active = id
  <2>1. updated = [mem[s] EXCEPT !.record = [mem[s].record EXCEPT ![id] = outcome]]
    OBVIOUS
  <2>2. id = mem[s].active
    BY DEF id
  <2>3. [mem[s].record EXCEPT ![id] = outcome] \in [Ids -> States]
    BY <1>4, <1>5 DEF States
  <2> QED BY <1>3, <1>5, <2>1, <2>2, <2>3 DEF Statuses
<1> HIDE DEF updated
<1>8. \A i \in 1..Len(All) :
         /\ i # Last => Rec(i)' = Rec(i)
         /\ i = Last => Rec(i)' = outcome
         /\ status'.command[All[i]] = status.command[All[i]]
  BY <1>1, <1>2, <1>3, <1>5, <1>7, IdsFacts DEF Rec
<1>9. launched' = launched /\ Last' = Last /\ InOrder'
  BY <1>1 DEF Last, Inv, InOrder
<1>10. ASSUME NEW i \in 1..Len(All)
       PROVE  Recorded(i)'
  <2>1. Recorded(i)
    BY DEF Inv
  <2>2. CASE i = Last
    BY <2>2, <1>2, <1>4, <1>6, <1>8, <1>9 DEF Recorded
  <2>3. CASE i # Last
    BY <2>1, <2>3, <1>2, <1>8, <1>9 DEF Recorded
  <2> QED BY <2>2, <2>3
<1>11. \A st \in Ids : Succeeded(st)' <=> Succeeded(st)
  BY <1>9, SoundStays
<1>12. Typed' /\ Placed(s)' /\ Sound(mem[s])'
  <2>1. CASE /\ pc' = [pc EXCEPT ![s] = "loop"] /\ mem' = [mem EXCEPT ![s] = updated]
             /\ seen' = [seen EXCEPT ![s] = NoQueue] /\ UNCHANGED lock
    <3>1. Typed' /\ pc'[s] = "loop" /\ mem'[s] = updated
      BY <2>1, <1>1, <1>7 DEF Inv, Typed
    <3> QED BY <3>1, <1>1, <1>7, <1>11 DEF Inv, Placed, Sound
  <2>2. CASE Exit(s)
    <3>1. Typed' /\ pc'[s] = "off" /\ ~mem'[s].complete
      BY <2>2, <1>1, <1>7, ExitFacts DEF Inv, Typed
    <3> QED BY <3>1 DEF Placed, Sound
  <2> QED BY <1>1, <2>1, <2>2
<1>13. Sound(status)'
  BY <1>1, <1>7, <1>11 DEF Inv, Sound
<1>14. \A t \in Supervisors : t = s
  BY DEF OneSupervisor
<1> QED BY <1>9, <1>10, <1>12, <1>13, <1>14 DEF Inv

-----------------------------------------------------------------------------
(* The stage processes and the builder *)

\* A process that has not succeeded may end as it likes, and the queue be
\* replaced.
LEMMA ProcessKeeps ==
    ASSUME Inv, NEW i \in 1..Len(launched), NEW l \in Launches,
           launched[i].outcome # "succeeded", launched' = [launched EXCEPT ![i] = l],
           l.id = launched[i].id, l.version = launched[i].version,
           l.read # NoQueue => l.read.runnable = All, queue' \in Queues,
           UNCHANGED <<status, sup, plan, draft>>
    PROVE  Inv'
<1>1. /\ launched' \in Seq(Launches) /\ Last' = Last /\ Last \in Nat /\ launched \in Seq(Launches)
      /\ launched'[i] = l /\ \A k \in 1..Last : k # i => launched'[k] = launched[k]
  BY DEF Inv, Typed, Last
<1>2. UNCHANGED <<status, lock, pc, mem, seen, plan, draft>>
  BY DEF sup
<1>3. Typed'
  BY <1>1, <1>2 DEF Inv, Typed, Launches, Queues
<1>4. InOrder'
  BY <1>1 DEF Inv, InOrder, Last
<1>5. \A k \in 1..Last : launched[k].outcome = "succeeded" => launched'[k] = launched[k]
  BY <1>1
<1>6. ASSUME NEW k \in 1..Len(All)
      PROVE  Recorded(k)'
  <2>1. Recorded(k) /\ \A j \in Nat : Rec(j)' = Rec(j)
    BY <1>2 DEF Inv, Rec
  <2> QED BY <2>1, <1>1, <1>2, <1>5, RunnableFacts DEF Recorded
<1>7. \A id \in Ids : Succeeded(id) => Succeeded(id)'
  BY <1>1, <1>5 DEF Succeeded, Last
<1>8. Sound(status)' /\ \A s \in Supervisors : Sound(mem[s])'
  BY <1>2, <1>7 DEF Inv, Sound
<1>9. ASSUME NEW s \in Supervisors
      PROVE  Placed(s)'
  <2>1. Rec(Last)' = Rec(Last) /\ Rec(Last + 1)' = Rec(Last + 1)
    BY <1>1, <1>2 DEF Rec
  <2>2. pc[s] = "run" => launched'[Last].version = launched[Last].version
    BY <1>1 DEF Inv, Placed
  <2> QED BY <2>1, <2>2, <1>1, <1>2 DEF Inv, Placed
<1> QED BY <1>3, <1>4, <1>6, <1>8, <1>9 DEF Inv

LEMMA EndKeeps ==
    ASSUME Inv, NEW i \in 1..Len(launched), Running(i),
           NEW outcome \in {"written", "succeeded", "failed"}, End(i, outcome),
           queue' \in Queues, UNCHANGED <<status, sup, plan, draft>>
    PROVE  Inv'
<1> DEFINE l == [launched[i] EXCEPT !.outcome = outcome]
<1>1. launched[i] \in Launches /\ launched[i].outcome # "succeeded"
  BY DEF Inv, Typed, Running
<1>2. /\ l \in Launches /\ l.id = launched[i].id /\ l.version = launched[i].version
      /\ l.read = launched[i].read
  BY <1>1 DEF Launches
<1>3. launched' = [launched EXCEPT ![i] = l]
  BY DEF End
<1>4. l.read # NoQueue => l.read.runnable = All
  BY <1>2 DEF Inv, InOrder, Last
<1> HIDE DEF l
<1> QED BY <1>1, <1>2, <1>3, <1>4, ProcessKeeps

LEMMA FinalizerReadsKeeps ==
    ASSUME Inv, NEW i \in 1..Len(launched), FinalizerReads(i)
    PROVE  Inv'
<1>1. launched[i] \in Launches /\ launched[i].outcome = "running" /\ queue \in Queues
      /\ launched[i].read = NoQueue
  BY DEF Inv, Typed, FinalizerReads
<1>2. UNCHANGED <<queue, status, sup, plan, draft>>
  BY DEF FinalizerReads
<1>3. CASE Acceptable
  <2> DEFINE l == [launched[i] EXCEPT !.read = queue]
  <2>1. queue.runnable \in Runnable /\ queue.runnable[Len(queue.runnable)] = Finalizer
    BY <1>1, <1>3 DEF Queues, Acceptable
  <2>2. queue.runnable = All
    BY <2>1, RunnableFacts
  <2>3. /\ l \in Launches /\ l.id = launched[i].id /\ l.version = launched[i].version
        /\ l.read = queue
    BY <1>1 DEF Launches
  <2>4. launched' = [launched EXCEPT ![i] = l]
    BY <1>3 DEF FinalizerReads
  <2> HIDE DEF l
  <2> QED BY <1>1, <1>2, <2>2, <2>3, <2>4, ProcessKeeps
<1>4. CASE ~Acceptable
  <2>1. launched' = [launched EXCEPT ![i] = [launched[i] EXCEPT !.outcome = "failed"]]
    BY <1>4 DEF FinalizerReads
  <2> QED BY <1>1, <1>2, <2>1, EndKeeps DEF End, Running
<1> QED BY <1>3, <1>4

\* The queue the finalizer accepts is one of all stages, whatever the file
\* holds now.
LEMMA FinalizerWritesKeeps ==
    ASSUME Inv, NEW i \in 1..Len(launched), FinalizerWrites(i)
    PROVE  Inv'
<1> DEFINE q == launched[i].read
<1>1. /\ launched[i] \in Launches /\ launched[i].outcome = "running" /\ q # NoQueue
      /\ queue' = [q EXCEPT !.accepted = TRUE] /\ End(i, "written")
      /\ UNCHANGED <<status, sup, plan, draft>>
  BY DEF FinalizerWrites, Inv, Typed
<1>2. q \in Queues /\ q.runnable = All
  BY <1>1 DEF Launches, Inv, InOrder, Last
<1>3. queue' \in Queues
  BY <1>1, <1>2 DEF Queues
<1> QED BY <1>1, <1>3, EndKeeps DEF Running

LEMMA BuilderKeeps ==
    ASSUME Inv, BuilderReads \/ BuilderWrites
    PROVE  Inv'
<1>1. UNCHANGED <<status, lock, pc, mem, seen, launched>>
  BY DEF BuilderReads, BuilderWrites, sup
<1>2. /\ queue' \in Queues /\ draft' \in Queues \cup {NoQueue} /\ plan' \in Seq(Builds)
      /\ draft' # NoQueue => plan' # <<>>
  <2>1. CASE BuilderReads
    <3>1. Head(plan) \in Builds /\ Tail(plan) \in Seq(Builds)
      BY <2>1 DEF BuilderReads, Inv, Typed
    <3>2. Built(Head(plan)) \in Queues
      BY <3>1, BuiltType DEF Inv, Typed
    <3> QED BY <2>1, <3>1, <3>2 DEF BuilderReads, Inv, Typed
  <2>2. CASE BuilderWrites
    <3>1. PICK q \in Queues : draft = q
      BY <2>2 DEF BuilderWrites, Inv, Typed
    <3>2. Tail(plan) \in Seq(Builds)
      BY <2>2 DEF BuilderWrites, Inv, Typed
    <3> QED BY <2>2, <3>1, <3>2 DEF BuilderWrites, Inv, Typed
  <2> QED BY <2>1, <2>2
<1>3. Typed'
  BY <1>1, <1>2 DEF Inv, Typed
<1>4. InOrder' /\ \A i \in 1..Len(All) : Recorded(i)'
  BY <1>1, RecordsStay DEF Inv
<1>5. Sound(status)' /\ \A s \in Supervisors : Sound(mem[s])'
  BY <1>1, SoundStays DEF Inv, Sound
<1>6. \A s \in Supervisors : Placed(s)'
  BY <1>1 DEF Inv, Placed, Last, Rec
<1> QED BY <1>3, <1>4, <1>5, <1>6 DEF Inv

-----------------------------------------------------------------------------
(* The theorems *)

LEMMA InitInv == Init => Inv
<1> SUFFICES ASSUME Init PROVE Inv
  OBVIOUS
<1>1. Collections \in Runnable /\ Len(All) \in Nat
  BY RunnableFacts DEF Runnable
<1>2. [id \in Ids |-> IF id \in IdsOf(Collections) THEN 1 ELSE 0] \in [Ids -> Nat]
  OBVIOUS
<1>3. queue \in Queues
  BY <1>1, <1>2 DEF Init, Queues
<1>4. NewStatus \in Statuses /\ ~NewStatus.complete
  BY DEF NewStatus, Statuses, States
<1>5. plan \in Seq(Builds)
  BY StagesAssumption DEF Init
<1>6. Typed
  BY <1>3, <1>4, <1>5 DEF Init, Typed
<1>7. Last = 0 /\ InOrder
  BY <1>1 DEF Init, Last, InOrder
<1>8. \A i \in 1..Len(All) : Rec(i) = "none"
  BY IdsFacts DEF Init, NewStatus, Rec
<1>9. \A i \in 1..Len(All) : Recorded(i)
  BY <1>7, <1>8 DEF Recorded
<1>10. Sound(status) /\ \A s \in Supervisors : Placed(s) /\ Sound(mem[s])
  BY <1>4 DEF Init, Sound, Placed
<1> QED BY <1>6, <1>7, <1>9, <1>10 DEF Inv

LEMMA NextInv ==
    ASSUME OneSupervisor
    PROVE  Inv /\ [Next]_vars => Inv'
<1> SUFFICES ASSUME Inv, [Next]_vars PROVE Inv'
  OBVIOUS
<1>1. ASSUME NEW s \in Supervisors, Supervise(s) \/ Crash(s)
      PROVE  Inv'
  BY <1>1, LoadKeeps, LockKeeps, ReadQueueKeeps, RefuseOrCrashKeeps, WaitKeeps, FinishQueueKeeps,
     RecordStartKeeps, LaunchKeeps, ReapKeeps DEF Supervise
<1>2. ASSUME NEW i \in 1..Len(launched), Execute(i) \/ StageFails(i)
      PROVE  Inv'
  <2>1. CASE StageSucceeds(i)
    BY <2>1, EndKeeps DEF StageSucceeds, Inv, Typed
  <2>2. CASE StageFails(i)
    BY <2>2, EndKeeps DEF StageFails, Inv, Typed
  <2> QED BY <1>2, <2>1, <2>2, FinalizerReadsKeeps, FinalizerWritesKeeps DEF Execute
<1>3. CASE UNCHANGED vars
  <2>1. UNCHANGED <<queue, status, lock, pc, mem, seen, launched, plan, draft>>
    BY <1>3 DEF vars, sup
  <2>2. InOrder' /\ \A i \in 1..Len(All) : Recorded(i)'
    BY <2>1, RecordsStay DEF Inv
  <2>3. Sound(status)' /\ \A s \in Supervisors : Sound(mem[s])'
    BY <2>1, SoundStays DEF Inv, Sound
  <2>4. Typed' /\ \A s \in Supervisors : Placed(s)'
    BY <2>1 DEF Inv, Typed, Placed, Last, Rec
  <2> QED BY <2>2, <2>3, <2>4 DEF Inv
<1> QED BY <1>1, <1>2, <1>3, BuilderKeeps DEF Next

\* One supervisor at a time, crashed and restarted as often as may be, keeps
\* the invariant, for any stages, builds and failures.
THEOREM PipelineKeepsInv ==
    ASSUME OneSupervisor
    PROVE  Spec => []Inv
<1> QED BY InitInv, NextInv, PTL DEF Spec

\* A stage is launched only when every process before it has succeeded.
THEOREM FailuresHaltTheStudy ==
    ASSUME OneSupervisor
    PROVE  Spec => []FailuresHalt
<1>1. Inv => FailuresHalt
  <2> SUFFICES ASSUME Inv, NEW i \in 1..(Len(launched) - 1)
               PROVE  launched[i].outcome = "succeeded"
    BY DEF FailuresHalt
  <2>1. Last \in Nat /\ Last <= Len(All) /\ Len(All) \in Nat
    BY RunnableFacts DEF Inv, Typed, InOrder, Last
  <2>2. i \in 1..Len(All) /\ i < Last
    BY <2>1 DEF Last
  <2> QED BY <2>2 DEF Inv, Recorded
<1> QED BY <1>1, PipelineKeepsInv, PTL

\* Whatever was launched has a record, and a recorded success is one of the
\* recorded command.
THEOREM RecordsStayTrue ==
    ASSUME OneSupervisor
    PROVE  Spec => []RecordsAreTrue
<1>1. Inv => TypeOK
  <2> SUFFICES ASSUME Inv PROVE TypeOK
    OBVIOUS
  <2>1. /\ queue.runnable \in Seq(Ids) /\ queue.command \in [Ids -> Nat]
        /\ queue.sealed \in BOOLEAN /\ queue.accepted \in BOOLEAN
    BY RunnableFacts DEF Inv, Typed, Queues
  <2>2. \A st \in {status} \cup {mem[s] : s \in Supervisors} : st \in Statuses
    BY DEF Inv, Typed
  <2>3. \A i \in 1..Len(launched) : launched[i] \in Launches
    BY DEF Inv, Typed
  <2>4. lock \in Supervisors \cup {NoOne}
        /\ pc \in [Supervisors -> {"off", "loaded", "loop", "decide", "start", "run"}]
    BY DEF Inv, Typed
  <2> QED BY <2>1, <2>2, <2>3, <2>4 DEF TypeOK, Statuses, Launches
<1>2. Inv => RecordsAreTrue
  <2> SUFFICES ASSUME Inv, NEW id \in Ids
               PROVE  /\ status.record[id] = "none" =>
                            \A i \in 1..Len(launched) : launched[i].id # id
                      /\ status.record[id] = "succeeded" =>
                            \E i \in 1..Len(launched) :
                               /\ launched[i].id = id /\ launched[i].outcome = "succeeded"
                               /\ launched[i].version = status.command[id]
    BY <1>1 DEF RecordsAreTrue
  <2>1. /\ Last \in Nat /\ Last <= Len(All) /\ Len(All) \in Nat /\ Last = Len(launched)
        /\ \A i \in 1..Last : launched[i].id = All[i]
        /\ \A i \in 1..Len(All) : Recorded(i)
    BY RunnableFacts DEF Inv, Typed, InOrder, Last
  <2>2. ASSUME NEW i \in 1..Len(launched), launched[i].id = id
        PROVE  status.record[id] # "none"
    <3>1. i \in 1..Len(All) /\ i <= Last /\ id = All[i]
      BY <2>1, <2>2
    <3> QED BY <2>1, <3>1 DEF Recorded, Rec
  <2>3. ASSUME status.record[id] = "succeeded"
        PROVE  \E i \in 1..Len(launched) :
                  /\ launched[i].id = id /\ launched[i].outcome = "succeeded"
                  /\ launched[i].version = status.command[id]
    <3>1. PICK i \in 1..Len(All) : id = All[i]
      BY IdsFacts
    <3>2. /\ i <= Last /\ launched[i].outcome = "succeeded"
          /\ launched[i].version = status.command[id]
      BY <2>1, <2>3, <3>1 DEF Recorded, Rec
    <3>3. i \in 1..Len(launched) /\ launched[i].id = id
      BY <2>1, <3>1, <3>2
    <3> QED BY <3>2, <3>3
  <2> QED BY <2>2, <2>3
<1> QED BY <1>2, PipelineKeepsInv, PTL

\* The status calls the study complete only when all declared stages have
\* succeeded.
THEOREM CompletionStaysSound ==
    ASSUME OneSupervisor
    PROVE  Spec => []CompletionIsSound
<1>1. Inv => CompletionIsSound
  BY DEF Inv, Sound, CompletionIsSound
<1> QED BY <1>1, PipelineKeepsInv, PTL

\* No stage is launched twice: what fails with two supervisors holds with one.
THEOREM OneSupervisorNeverReplays ==
    ASSUME OneSupervisor
    PROVE  Spec => []NeverReplayed
<1>1. Inv => NeverReplayed
  <2> SUFFICES ASSUME Inv, NEW i \in 1..Len(launched), NEW k \in 1..Len(launched),
                      launched[i].id = launched[k].id
               PROVE  i = k
    BY DEF NeverReplayed
  <2>1. Last \in Nat /\ Last <= Len(All) /\ Len(All) \in Nat /\ Last = Len(launched)
    BY RunnableFacts DEF Inv, Typed, InOrder, Last
  <2>2. All[i] = All[k] /\ i \in 1..Len(All) /\ k \in 1..Len(All)
    BY <2>1 DEF Inv, InOrder
  <2> QED BY <2>2, IdsFacts
<1> QED BY <1>1, PipelineKeepsInv, PTL

-----------------------------------------------------------------------------
(* The final evaluation *)

\* What each point of the try block knows about the attempt it executes.
RunInv ==
    /\ place \in {"claimed", "handling"} \cup InTry => job \in Jobs /\ state[job] = "running"
    /\ place = "claimed" => transcript[job] = "none" /\ result[job] = "none"
    /\ place = "rollout" => transcript[job] = "open" /\ result[job] = "none"
    /\ place = "closed" => transcript[job] = "closed" /\ result[job] = "none"
    /\ place = "resulted" => transcript[job] = "closed" /\ result[job] # "none"

\* What the row of a job says about its files and its environment process.
EvidenceInv ==
    \A j \in Jobs :
        /\ transcript[j] # "open" => j \notin busy
        /\ result[j] # "none" => transcript[j] = "closed"
        /\ state[j] \in {"pending", "failed"} => j \notin busy /\ result[j] # "valid"
        /\ state[j] = "succeeded" => result[j] # "none"

\* Trajectories are paid for by claims, claims by authorizations.
CallsInv ==
    \A j \in Jobs :
        /\ calls[j] <= number[j] /\ number[j] <= 1 + retries[j]
        /\ place = "claimed" /\ job = j => calls[j] < number[j]
        /\ state[j] = "pending" => number[j] <= retries[j]

\* The inductive invariant of the final evaluation.
EvaluationInv == StudyTypeOK /\ RunInv /\ EvidenceInv /\ CallsInv

-----------------------------------------------------------------------------
\* Every initial state satisfies the inductive invariant.
LEMMA EvaluationInitInv == StudyInit => EvaluationInv
<1> SUFFICES ASSUME StudyInit PROVE EvaluationInv
  OBVIOUS
<1>1. StudyTypeOK
  BY BatchesAssumption DEF StudyInit, EmptyRows, StudyTypeOK, RowsOK, RowStates, InTry
<1>2. RunInv /\ EvidenceInv /\ CallsInv
  BY DEF StudyInit, EmptyRows, RunInv, InTry, EvidenceInv, CallsInv
<1> QED BY <1>1, <1>2 DEF EvaluationInv

\* Creating a study (run, manifest.json) keeps the invariant: no row is touched.
LEMMA CreateKeeps ==
    ASSUME NEW batch \in SUBSET Jobs, EvaluationInv, Create(batch)
    PROVE  EvaluationInv'
<1> USE DEF EvaluationInv
<1>1. StudyTypeOK'
  BY BatchesAssumption DEF StudyTypeOK, RowsOK, RowStates, InTry, Create, rows, evidence, bounds
<1>2. RunInv'
  BY BatchesAssumption DEF RunInv, StudyTypeOK, RowsOK, InTry, Create, rows, evidence, bounds
<1>3. EvidenceInv'
  BY DEF EvidenceInv, RunInv, StudyTypeOK, RowsOK, InTry, Create, rows, evidence, bounds
<1>4. CallsInv'
  BY BatchesAssumption DEF CallsInv, RunInv, StudyTypeOK, RowsOK, InTry, Create, rows, evidence,
     bounds
<1> QED BY <1>1, <1>2, <1>3, <1>4

\* Completing a study (run, execution_inputs.json) keeps it.
LEMMA WriteInputsKeeps ==
    ASSUME EvaluationInv, WriteInputs
    PROVE  EvaluationInv'
<1> USE DEF EvaluationInv
<1>1. StudyTypeOK'
  BY BatchesAssumption DEF StudyTypeOK, RowsOK, RowStates, InTry, WriteInputs, rows, evidence,
     bounds
<1>2. RunInv'
  BY BatchesAssumption DEF RunInv, StudyTypeOK, RowsOK, InTry, WriteInputs, rows, evidence, bounds
<1>3. EvidenceInv'
  BY DEF EvidenceInv, RunInv, StudyTypeOK, RowsOK, InTry, WriteInputs, rows, evidence, bounds
<1>4. CallsInv'
  BY BatchesAssumption DEF CallsInv, RunInv, StudyTypeOK, RowsOK, InTry, WriteInputs, rows,
     evidence, bounds
<1> QED BY <1>1, <1>2, <1>3, <1>4

\* Resuming keeps it: mark_orphaned only takes running rows, which authorize nothing.
LEMMA ResumeKeeps ==
    ASSUME NEW batch \in SUBSET Jobs, EvaluationInv, Resume(batch)
    PROVE  EvaluationInv'
<1> USE DEF EvaluationInv
<1>1. StudyTypeOK'
  BY BatchesAssumption DEF StudyTypeOK, RowsOK, RowStates, InTry, Resume, MarkOrphaned, evidence
<1>2. RunInv'
  BY BatchesAssumption DEF RunInv, StudyTypeOK, RowsOK, InTry, Resume, MarkOrphaned, evidence
<1>3. EvidenceInv'
  BY DEF EvidenceInv, RunInv, StudyTypeOK, RowsOK, InTry, Resume, MarkOrphaned, evidence
<1>4. CallsInv'
  BY BatchesAssumption DEF CallsInv, RunInv, StudyTypeOK, RowsOK, InTry, Resume, MarkOrphaned,
     evidence
<1> QED BY <1>1, <1>2, <1>3, <1>4

\* Skipping a verified success keeps it: only the schedule advances.
LEMMA SkipSucceededKeeps ==
    ASSUME NEW j \in Jobs, EvaluationInv, SkipSucceeded(j)
    PROVE  EvaluationInv'
<1> USE DEF EvaluationInv
<1>1. StudyTypeOK'
  BY BatchesAssumption DEF StudyTypeOK, RowsOK, RowStates, InTry, SkipSucceeded,
     EnvelopeVerifies, Visit, rows, evidence, bounds
<1>2. RunInv'
  BY BatchesAssumption DEF RunInv, StudyTypeOK, RowsOK, InTry, SkipSucceeded, EnvelopeVerifies,
     Visit, rows, evidence, bounds
<1>3. EvidenceInv'
  BY DEF EvidenceInv, RunInv, StudyTypeOK, RowsOK, InTry, SkipSucceeded, EnvelopeVerifies,
     Visit, rows, evidence, bounds
<1>4. CallsInv'
  BY BatchesAssumption DEF CallsInv, RunInv, StudyTypeOK, RowsOK, InTry, SkipSucceeded,
     EnvelopeVerifies, Visit, rows, evidence, bounds
<1> QED BY <1>1, <1>2, <1>3, <1>4

\* Accepting the envelope of an orphan keeps it: a valid result has a closed
\* transcript, so the new success has its evidence.
LEMMA ReconcileOrphanKeeps ==
    ASSUME NEW j \in Jobs, EvaluationInv, ReconcileOrphan(j)
    PROVE  EvaluationInv'
<1> USE DEF EvaluationInv
<1>1. StudyTypeOK'
  BY BatchesAssumption DEF StudyTypeOK, RowsOK, RowStates, InTry, ReconcileOrphan,
     EnvelopeVerifies, Visit, Reconcile, SetState, evidence, bounds
<1>2. RunInv'
  BY BatchesAssumption DEF RunInv, StudyTypeOK, RowsOK, InTry, ReconcileOrphan,
     EnvelopeVerifies, Visit, Reconcile, SetState, evidence, bounds
<1>3. EvidenceInv'
  BY DEF EvidenceInv, RunInv, StudyTypeOK, RowsOK, InTry, ReconcileOrphan, EnvelopeVerifies,
     Visit, Reconcile, SetState, evidence, bounds
<1>4. CallsInv'
  BY BatchesAssumption DEF CallsInv, RunInv, StudyTypeOK, RowsOK, InTry, ReconcileOrphan,
     EnvelopeVerifies, Visit, Reconcile, SetState, evidence, bounds
<1> QED BY <1>1, <1>2, <1>3, <1>4

\* A run that raises at a job it may not touch keeps it.
LEMMA HaltKeeps ==
    ASSUME NEW j \in Jobs, EvaluationInv, Halt(j)
    PROVE  EvaluationInv'
<1> USE DEF EvaluationInv
<1>1. StudyTypeOK'
  BY BatchesAssumption DEF StudyTypeOK, RowsOK, RowStates, InTry, Halt, EnvelopeVerifies, Visit,
     Leave, rows, evidence, bounds
<1>2. RunInv'
  BY BatchesAssumption DEF RunInv, StudyTypeOK, RowsOK, InTry, Halt, EnvelopeVerifies, Visit,
     Leave, rows, evidence, bounds
<1>3. EvidenceInv'
  BY DEF EvidenceInv, RunInv, StudyTypeOK, RowsOK, InTry, Halt, EnvelopeVerifies, Visit, Leave,
     rows, evidence, bounds
<1>4. CallsInv'
  BY BatchesAssumption DEF CallsInv, RunInv, StudyTypeOK, RowsOK, InTry, Halt, EnvelopeVerifies,
     Visit, Leave, rows, evidence, bounds
<1> QED BY <1>1, <1>2, <1>3, <1>4

\* A claim keeps it: it spends the authorization that made the row pending, and
\* nothing of an earlier attempt is executing.
LEMMA ClaimJobKeeps ==
    ASSUME NEW j \in Jobs, EvaluationInv, ClaimJob(j)
    PROVE  EvaluationInv'
<1> USE DEF EvaluationInv
<1>1. StudyTypeOK'
  BY BatchesAssumption DEF StudyTypeOK, RowsOK, RowStates, InTry, ClaimJob, Visit, Claim,
     SetState, bounds
<1>2. RunInv'
  BY BatchesAssumption DEF RunInv, StudyTypeOK, RowsOK, InTry, ClaimJob, Visit, Claim, SetState,
     bounds
<1>3. EvidenceInv'
  BY DEF EvidenceInv, RunInv, StudyTypeOK, RowsOK, InTry, ClaimJob, Visit, Claim, SetState, bounds
<1>4. CallsInv'
  BY BatchesAssumption DEF CallsInv, RunInv, StudyTypeOK, RowsOK, InTry, ClaimJob, Visit, Claim,
     SetState, bounds
<1> QED BY <1>1, <1>2, <1>3, <1>4

\* Starting the rollout keeps it: it uses up the claim.
LEMMA StartRolloutKeeps ==
    ASSUME EvaluationInv, StartRollout
    PROVE  EvaluationInv'
<1> USE DEF EvaluationInv
<1>1. StudyTypeOK'
  BY BatchesAssumption DEF RunInv, StudyTypeOK, RowsOK, RowStates, InTry, StartRollout, rows, bounds
<1>2. RunInv'
  BY BatchesAssumption DEF RunInv, StudyTypeOK, RowsOK, InTry, StartRollout, rows, bounds
<1>3. EvidenceInv'
  BY DEF EvidenceInv, RunInv, StudyTypeOK, RowsOK, InTry, StartRollout, rows, bounds
<1>4. CallsInv'
  BY BatchesAssumption DEF CallsInv, RunInv, StudyTypeOK, RowsOK, InTry, StartRollout, rows, bounds
<1> QED BY <1>1, <1>2, <1>3, <1>4

\* A request to the environment keeps it: the transcript is open while it runs.
LEMMA RequestKeeps ==
    ASSUME EvaluationInv, Request
    PROVE  EvaluationInv'
<1> USE DEF EvaluationInv
<1>1. StudyTypeOK'
  BY BatchesAssumption DEF RunInv, StudyTypeOK, RowsOK, RowStates, InTry, Request, rows, run,
     evidence, bounds
<1>2. RunInv'
  BY BatchesAssumption DEF RunInv, StudyTypeOK, RowsOK, InTry, Request, rows, run, evidence, bounds
<1>3. EvidenceInv'
  BY DEF EvidenceInv, RunInv, StudyTypeOK, RowsOK, InTry, Request, rows, run, evidence, bounds
<1>4. CallsInv'
  BY BatchesAssumption DEF CallsInv, RunInv, StudyTypeOK, RowsOK, InTry, Request, rows, run,
     evidence, bounds
<1> QED BY <1>1, <1>2, <1>3, <1>4

\* Closing the environment keeps it: nothing is executing any more.
LEMMA CloseRolloutKeeps ==
    ASSUME EvaluationInv, CloseRollout
    PROVE  EvaluationInv'
<1> USE DEF EvaluationInv
<1>1. StudyTypeOK'
  BY BatchesAssumption DEF StudyTypeOK, RowsOK, RowStates, InTry, CloseRollout, rows, bounds
<1>2. RunInv'
  BY BatchesAssumption DEF RunInv, StudyTypeOK, RowsOK, InTry, CloseRollout, rows, bounds
<1>3. EvidenceInv'
  BY DEF EvidenceInv, RunInv, StudyTypeOK, RowsOK, InTry, CloseRollout, rows, bounds
<1>4. CallsInv'
  BY BatchesAssumption DEF CallsInv, RunInv, StudyTypeOK, RowsOK, InTry, CloseRollout, rows, bounds
<1> QED BY <1>1, <1>2, <1>3, <1>4

\* Renaming result.json into place keeps it: the transcript is closed.
LEMMA WriteResultKeeps ==
    ASSUME EvaluationInv, WriteResult
    PROVE  EvaluationInv'
<1> USE DEF EvaluationInv
<1>1. StudyTypeOK'
  BY BatchesAssumption DEF StudyTypeOK, RowsOK, RowStates, InTry, WriteResult, rows, bounds
<1>2. RunInv'
  BY BatchesAssumption DEF RunInv, StudyTypeOK, RowsOK, InTry, WriteResult, rows, bounds
<1>3. EvidenceInv'
  BY DEF EvidenceInv, RunInv, StudyTypeOK, RowsOK, InTry, WriteResult, rows, bounds
<1>4. CallsInv'
  BY BatchesAssumption DEF CallsInv, RunInv, StudyTypeOK, RowsOK, InTry, WriteResult, rows, bounds
<1> QED BY <1>1, <1>2, <1>3, <1>4

\* ledger.succeed keeps it.
LEMMA SucceedKeeps ==
    ASSUME EvaluationInv, Succeed
    PROVE  EvaluationInv'
<1> USE DEF EvaluationInv
<1>1. StudyTypeOK'
  BY BatchesAssumption DEF StudyTypeOK, RowsOK, RowStates, InTry, Succeed, EnvelopeVerifies,
     Finish, SetState, evidence, bounds
<1>2. RunInv'
  BY BatchesAssumption DEF RunInv, StudyTypeOK, RowsOK, InTry, Succeed, EnvelopeVerifies,
     Finish, SetState, evidence, bounds
<1>3. EvidenceInv'
  BY DEF EvidenceInv, RunInv, StudyTypeOK, RowsOK, InTry, Succeed, EnvelopeVerifies, Finish,
     SetState, evidence, bounds
<1>4. CallsInv'
  BY BatchesAssumption DEF CallsInv, RunInv, StudyTypeOK, RowsOK, InTry, Succeed,
     EnvelopeVerifies, Finish, SetState, evidence, bounds
<1> QED BY <1>1, <1>2, <1>3, <1>4

\* An exception in the try block keeps it: the attempt is still running.
LEMMA RaiseKeeps ==
    ASSUME EvaluationInv, Raise
    PROVE  EvaluationInv'
<1> USE DEF EvaluationInv
<1>1. StudyTypeOK'
  BY BatchesAssumption DEF StudyTypeOK, RowsOK, RowStates, InTry, Raise, EnvelopeVerifies, rows,
     evidence
<1>2. RunInv'
  BY BatchesAssumption DEF RunInv, StudyTypeOK, RowsOK, InTry, Raise, EnvelopeVerifies, rows,
     evidence
<1>3. EvidenceInv'
  BY DEF EvidenceInv, RunInv, StudyTypeOK, RowsOK, InTry, Raise, EnvelopeVerifies, rows, evidence
<1>4. CallsInv'
  BY BatchesAssumption DEF CallsInv, RunInv, StudyTypeOK, RowsOK, InTry, Raise,
     EnvelopeVerifies, rows, evidence
<1> QED BY <1>1, <1>2, <1>3, <1>4

\* The handler keeps it: an attempt becomes failed only with a closed transcript
\* and without an envelope.
LEMMA HandleKeeps ==
    ASSUME EvaluationInv, Handle
    PROVE  EvaluationInv'
<1> USE DEF EvaluationInv
<1>1. StudyTypeOK'
  BY BatchesAssumption DEF StudyTypeOK, RowsOK, RowStates, InTry, Handle, ProvedStopped, Finish,
     SetState, MarkOrphaned, Leave, evidence, bounds
<1>2. RunInv'
  BY BatchesAssumption DEF RunInv, StudyTypeOK, RowsOK, InTry, Handle, ProvedStopped, Finish,
     SetState, MarkOrphaned, Leave, evidence, bounds
<1>3. EvidenceInv'
  BY DEF EvidenceInv, RunInv, StudyTypeOK, RowsOK, InTry, Handle, ProvedStopped, Finish,
     SetState, MarkOrphaned, Leave, evidence, bounds
<1>4. CallsInv'
  BY BatchesAssumption DEF CallsInv, RunInv, StudyTypeOK, RowsOK, InTry, Handle, ProvedStopped,
     Finish, SetState, MarkOrphaned, Leave, evidence, bounds
<1> QED BY <1>1, <1>2, <1>3, <1>4

\* completion keeps it: resume_plan only takes successes.
LEMMA CompleteKeeps ==
    ASSUME EvaluationInv, Complete
    PROVE  EvaluationInv'
<1> USE DEF EvaluationInv
<1>1. StudyTypeOK'
  BY BatchesAssumption DEF StudyTypeOK, RowsOK, RowStates, InTry, Complete, ResultVerifies,
     Quarantine, Leave, evidence, bounds
<1>2. RunInv'
  BY BatchesAssumption DEF RunInv, StudyTypeOK, RowsOK, InTry, Complete, ResultVerifies,
     Quarantine, Leave, evidence, bounds
<1>3. EvidenceInv'
  BY DEF EvidenceInv, RunInv, StudyTypeOK, RowsOK, InTry, Complete, ResultVerifies, Quarantine,
     Leave, evidence, bounds
<1>4. CallsInv'
  BY BatchesAssumption DEF CallsInv, RunInv, StudyTypeOK, RowsOK, InTry, Complete,
     ResultVerifies, Quarantine, Leave, evidence, bounds
<1> QED BY <1>1, <1>2, <1>3, <1>4

\* A crash of the runner keeps it: rows, files and environment stay.
LEMMA RunnerDiesKeeps ==
    ASSUME EvaluationInv, RunnerDies
    PROVE  EvaluationInv'
<1> USE DEF EvaluationInv
<1>1. StudyTypeOK'
  BY BatchesAssumption DEF StudyTypeOK, RowsOK, RowStates, InTry, RunnerDies, Leave, rows, evidence
<1>2. RunInv'
  BY BatchesAssumption DEF RunInv, StudyTypeOK, RowsOK, InTry, RunnerDies, Leave, rows, evidence
<1>3. EvidenceInv'
  BY DEF EvidenceInv, RunInv, StudyTypeOK, RowsOK, InTry, RunnerDies, Leave, rows, evidence
<1>4. CallsInv'
  BY BatchesAssumption DEF CallsInv, RunInv, StudyTypeOK, RowsOK, InTry, RunnerDies, Leave,
     rows, evidence
<1> QED BY <1>1, <1>2, <1>3, <1>4

\* The end of an environment action keeps it.
LEMMA EnvironmentAnswersKeeps ==
    ASSUME NEW j \in Jobs, EvaluationInv, EnvironmentAnswers(j)
    PROVE  EvaluationInv'
<1> USE DEF EvaluationInv
<1>1. StudyTypeOK'
  BY BatchesAssumption DEF StudyTypeOK, RowsOK, RowStates, InTry, EnvironmentAnswers, rows, run,
     evidence, bounds
<1>2. RunInv'
  BY BatchesAssumption DEF RunInv, StudyTypeOK, RowsOK, InTry, EnvironmentAnswers, rows, run,
     evidence, bounds
<1>3. EvidenceInv'
  BY DEF EvidenceInv, RunInv, StudyTypeOK, RowsOK, InTry, EnvironmentAnswers, rows, run,
     evidence, bounds
<1>4. CallsInv'
  BY BatchesAssumption DEF CallsInv, RunInv, StudyTypeOK, RowsOK, InTry, EnvironmentAnswers,
     rows, run, evidence, bounds
<1> QED BY <1>1, <1>2, <1>3, <1>4

\* A call of resume_plan keeps it.
LEMMA OperatorInspectsKeeps ==
    ASSUME NEW j \in Jobs, EvaluationInv, OperatorInspects(j)
    PROVE  EvaluationInv'
<1> USE DEF EvaluationInv
<1>1. StudyTypeOK'
  BY BatchesAssumption DEF StudyTypeOK, RowsOK, RowStates, InTry, OperatorInspects,
     ResultVerifies, Quarantine, run, evidence, bounds
<1>2. RunInv'
  BY BatchesAssumption DEF RunInv, StudyTypeOK, RowsOK, InTry, OperatorInspects, ResultVerifies,
     Quarantine, run, evidence, bounds
<1>3. EvidenceInv'
  BY DEF EvidenceInv, RunInv, StudyTypeOK, RowsOK, InTry, OperatorInspects, ResultVerifies,
     Quarantine, run, evidence, bounds
<1>4. CallsInv'
  BY BatchesAssumption DEF CallsInv, RunInv, StudyTypeOK, RowsOK, InTry, OperatorInspects,
     ResultVerifies, Quarantine, run, evidence, bounds
<1> QED BY <1>1, <1>2, <1>3, <1>4

\* reconcile without a result keeps it: the environment has stopped.
LEMMA OperatorFailsKeeps ==
    ASSUME NEW j \in Jobs, EvaluationInv, OperatorFails(j)
    PROVE  EvaluationInv'
<1> USE DEF EvaluationInv
<1>1. StudyTypeOK'
  BY BatchesAssumption DEF StudyTypeOK, RowsOK, RowStates, InTry, OperatorFails, ResultVerifies,
     Reconcile, SetState, run, evidence, bounds
<1>2. RunInv'
  BY BatchesAssumption DEF RunInv, StudyTypeOK, RowsOK, InTry, OperatorFails, ResultVerifies,
     Reconcile, SetState, run, evidence, bounds
<1>3. EvidenceInv'
  BY DEF EvidenceInv, RunInv, StudyTypeOK, RowsOK, InTry, OperatorFails, ResultVerifies,
     Reconcile, SetState, run, evidence, bounds
<1>4. CallsInv'
  BY BatchesAssumption DEF CallsInv, RunInv, StudyTypeOK, RowsOK, InTry, OperatorFails,
     ResultVerifies, Reconcile, SetState, run, evidence, bounds
<1> QED BY <1>1, <1>2, <1>3, <1>4

\* retry_failed keeps it: the new claim is matched by its retry event.
LEMMA OperatorRetriesKeeps ==
    ASSUME NEW j \in Jobs, EvaluationInv, OperatorRetries(j)
    PROVE  EvaluationInv'
<1> USE DEF EvaluationInv
<1>1. StudyTypeOK'
  BY BatchesAssumption DEF StudyTypeOK, RowsOK, RowStates, InTry, OperatorRetries, RetryFailed,
     SetState, run, evidence, bounds
<1>2. RunInv'
  BY BatchesAssumption DEF RunInv, StudyTypeOK, RowsOK, InTry, OperatorRetries, RetryFailed,
     SetState, run, evidence, bounds
<1>3. EvidenceInv'
  BY DEF EvidenceInv, RunInv, StudyTypeOK, RowsOK, InTry, OperatorRetries, RetryFailed,
     SetState, run, evidence, bounds
<1>4. CallsInv'
  BY BatchesAssumption DEF CallsInv, RunInv, StudyTypeOK, RowsOK, InTry, OperatorRetries,
     RetryFailed, SetState, run, evidence, bounds
<1> QED BY <1>1, <1>2, <1>3, <1>4

\* Altering a result keeps it: a corrupt result still is a result.
LEMMA TamperKeeps ==
    ASSUME NEW j \in Jobs, EvaluationInv, Tamper(j)
    PROVE  EvaluationInv'
<1> USE DEF EvaluationInv
<1>1. StudyTypeOK'
  BY BatchesAssumption DEF StudyTypeOK, RowsOK, RowStates, InTry, Tamper, rows, run
<1>2. RunInv'
  BY BatchesAssumption DEF RunInv, StudyTypeOK, RowsOK, InTry, Tamper, rows, run
<1>3. EvidenceInv'
  BY DEF EvidenceInv, RunInv, StudyTypeOK, RowsOK, InTry, Tamper, rows, run
<1>4. CallsInv'
  BY BatchesAssumption DEF CallsInv, RunInv, StudyTypeOK, RowsOK, InTry, Tamper, rows, run
<1> QED BY <1>1, <1>2, <1>3, <1>4

-----------------------------------------------------------------------------
\* No step leaves the inductive invariant.
LEMMA EvaluationNextInv ==
    ASSUME EvaluationInv, [StudyNext]_studyVars
    PROVE  EvaluationInv'
<1>1. CASE UNCHANGED studyVars
  BY <1>1 DEF studyVars, rows, run, evidence, bounds, EvaluationInv, StudyTypeOK, RowsOK,
     RunInv, EvidenceInv, CallsInv
<1>2. ASSUME NEW batch \in Batches, Create(batch) \/ Resume(batch)
      PROVE  EvaluationInv'
  <2>1. batch \in SUBSET Jobs
    BY BatchesAssumption
  <2> QED BY <1>2, <2>1, CreateKeeps, ResumeKeeps
<1>3. CASE RefuseStudy
  BY <1>1, <1>3 DEF RefuseStudy
<1>4. CASE RunnerStep
  BY <1>4, WriteInputsKeeps, SkipSucceededKeeps, ReconcileOrphanKeeps, HaltKeeps,
     ClaimJobKeeps, StartRolloutKeeps, RequestKeeps, CloseRolloutKeeps, WriteResultKeeps,
     SucceedKeeps, RaiseKeeps, HandleKeeps, CompleteKeeps DEF RunnerStep
<1>5. CASE RunnerDies
  BY <1>5, RunnerDiesKeeps
<1>6. ASSUME NEW j \in Jobs,
             \/ EnvironmentAnswers(j) \/ OperatorInspects(j) \/ OperatorFails(j)
             \/ OperatorRetries(j) \/ Tamper(j)
      PROVE  EvaluationInv'
  BY <1>6, EnvironmentAnswersKeeps, OperatorInspectsKeeps, OperatorFailsKeeps,
     OperatorRetriesKeeps, TamperKeeps
<1> QED BY <1>1, <1>2, <1>3, <1>4, <1>5, <1>6 DEF StudyNext

\* Hence it holds in every reachable state.
LEMMA EvaluationKeepsInv == StudySpec => []EvaluationInv
<1>1. StudyInit => EvaluationInv
  BY EvaluationInitInv
<1>2. EvaluationInv /\ [StudyNext]_studyVars => EvaluationInv'
  BY EvaluationNextInv
<1> QED BY <1>1, <1>2, PTL DEF StudySpec

\* The state of the runner, of the rows and of the files stays well formed.
THEOREM EvaluationTypeCorrect == StudySpec => []StudyTypeOK
<1>1. EvaluationInv => StudyTypeOK
  BY DEF EvaluationInv
<1> QED BY <1>1, EvaluationKeepsInv, PTL

\* "Failed/orphaned work is never auto-retried" (accounting.py): a job runs at
\* most once more than it was authorized to.
THEOREM AuthorizedWork == StudySpec => []AuthorizedCalls
<1>1. ASSUME EvaluationInv PROVE AuthorizedCalls
  <2> SUFFICES ASSUME NEW j \in Jobs PROVE calls[j] <= 1 + retries[j]
    BY DEF AuthorizedCalls
  <2>1. calls[j] \in Nat /\ number[j] \in Nat /\ retries[j] \in Nat
    BY <1>1 DEF EvaluationInv, StudyTypeOK, RowsOK
  <2>2. calls[j] <= number[j] /\ number[j] <= 1 + retries[j]
    BY <1>1 DEF EvaluationInv, CallsInv
  <2> QED BY <2>1, <2>2
<1> QED BY <1>1, EvaluationKeepsInv, PTL

\* The failure handler of final_evaluation.py never calls an attempt failed,
\* hence retryable, whose environment process is still executing.
THEOREM RetryIsSafe == StudySpec => []StoppedBeforeRetry
<1>1. EvaluationInv => StoppedBeforeRetry
  BY DEF EvaluationInv, EvidenceInv, StoppedBeforeRetry, InState
<1> QED BY <1>1, EvaluationKeepsInv, PTL

\* Whatever the runner counts as a success has a closed transcript and an
\* envelope behind it.
THEOREM SuccessIsEvidenced == StudySpec => []SuccessHasEvidence
<1>1. EvaluationInv => SuccessHasEvidence
  BY DEF EvaluationInv, EvidenceInv, SuccessHasEvidence, InState
<1> QED BY <1>1, EvaluationKeepsInv, PTL

\* No step makes a claim over a complete, unaltered result.
THEOREM CompletedWork == StudySpec => CompletedWorkKept
<1>1. EvaluationInv /\ [StudyNext]_studyVars =>
        [\A j \in Jobs : state[j] = "pending" /\ state'[j] = "running" => result[j] # "valid"]_studyVars
  BY DEF EvaluationInv, EvidenceInv
<1> QED BY <1>1, EvaluationKeepsInv, PTL DEF StudySpec, CompletedWorkKept

=============================================================================
