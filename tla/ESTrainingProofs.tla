-------------------------- MODULE ESTrainingProofs --------------------------
(***************************************************************************)
(* Proofs about one ES training condition: whatever sessions die where,    *)
(* what is committed can be resumed, was measured, and is selected from    *)
(* by its receipts; and no request is evaluated twice.                     *)
(*                                                                         *)
(* A measurement that a complete record holds never changes.  So it is     *)
(* enough to know of each list of generations, in a marker or in the       *)
(* memory of a session, that its numbers are such measurements (Measured), *)
(* and of the best generation that it was chosen from that list (Chosen).  *)
(* These are predicates of a list, not of a state: they move with it from  *)
(* the memory to the files and back.                                       *)
(***************************************************************************)
EXTENDS ESTraining, WellFoundedInduction, TLAPS

-----------------------------------------------------------------------------
(* The invariant *)

Stamps == Seq(Seq(Updates) \cup Arithmetics)

Records == [status : {"none", "started", "unknown", "complete"}, stamp : Stamps]

\* In the records rec and the rollouts roll, request r has a complete
\* measurement v, made for the weights of the stamp.
Holds(rec, roll, r, v, stamp) ==
    rec[r] = [status |-> "complete", stamp |-> stamp] /\ roll[r] = v

\* The first n generations of weights w and outcomes d are measurements.
Measured(rec, roll, w, d, n) ==
    \A k \in 1..n :
        /\ d[k].fitness = w[k].fitness /\ Len(d[k].dev) = Slots(k) - Population
        /\ \A i \in 1..Population :
              Holds(rec, roll, <<k, i>>, w[k].fitness[i], <<SubSeq(w, 1, k - 1), w[k].by>>)
        /\ \A i \in 1..Len(d[k].dev) :
              Holds(rec, roll, <<k, Population + i>>, d[k].dev[i], <<SubSeq(w, 1, k)>>)

Scored(d) == {g \in 1..Len(d) : RunDev(g)}

\* Generation g is the first of the best.
First(d, g) ==
    \A h \in Scored(d) \ {g} :
        IF h < g THEN Score(d[h].dev) < Score(d[g].dev) ELSE Score(d[h].dev) <= Score(d[g].dev)

Chosen(d, b) ==
    IF Scored(d) = {} THEN b = NoBest
    ELSE \E g \in Scored(d) : First(d, g) /\ b = [generation |-> g, score |-> Score(d[g].dev)]

\* Weights w and state st are those of a training of n generations.
Trained(rec, roll, w, st, n) ==
    /\ w \in History(n) /\ StateOK(st, n)
    /\ Measured(rec, roll, w, st.done, n) /\ Chosen(st.done, st.best)

Serving == {"serving", "started", "rolling", "evaluated"}
InCommit == {"policy", "driver", "marker"}
Ended == {"finished", "retiring"}

Typed ==
    /\ manifest \in BOOLEAN
    /\ record \in [Requests -> Records]
    /\ rollout \in [Requests -> Fitness \cup {NoFile, Partial}]
    /\ calls \in [Requests -> Nat]
    /\ policy \in [0..Generations -> Seq(Updates) \cup {NoFile}]
    /\ driver \in [0..Generations -> States \cup {NoFile}]
    /\ marker \in [0..Generations -> Markers \cup {NoFile}]
    /\ summary \in Summaries \cup {NoFile} /\ receipt \in Receipts \cup {NoFile}
    /\ pc \in {"down"} \cup Serving \cup InCommit \cup Ended
    /\ weights \in Seq(Updates) /\ values \in Seq(Fitness)
    /\ State \in States /\ faults \in 0..MaxFaults

RequestOK(r) ==
    /\ record[r].status = "none" => rollout[r] = NoFile
    /\ record[r].status = "complete" => rollout[r] \in Fitness

\* A generation in the files, of which the first have markers.
FileOK(g) ==
    /\ policy[g] = NoFile \/ policy[g] \in History(g)
    /\ driver[g] = NoFile \/ StateOK(driver[g], g)
    /\ marker[g] # NoFile =>
          /\ FilesMatch(g)
          /\ Trained(record, rollout, marker[g].policy, marker[g].driver, g)
          /\ \A h \in 0..g : marker[h] # NoFile
    /\ ~manifest => marker[g] = NoFile

\* The end of a training, once there is a summary.
FinalOK ==
    /\ summary # NoFile =>
          /\ marker[Generations] # NoFile
          /\ summary.best = marker[Generations].driver.best.generation /\ summary.best # 0
          /\ summary.final = marker[Generations].policy
          /\ \A r \in Requests : record[r].status = "complete"
    /\ receipt # NoFile =>
          /\ summary # NoFile
          /\ receipt.best = summary.best /\ receipt.retired = (0..Generations) \ Retained(summary.best)

Before == SubSeq(weights, 1, Len(done))

\* What a session has in memory.
MemoryOK ==
    /\ Len(done) <= Generations /\ Len(values) <= Population + DevCases
    /\ Len(weights) \in {Len(done), Gen}
    /\ Trained(record, rollout, Before, State, Len(done))
    /\ values # <<>> => Gen <= Generations /\ Len(values) <= Slots(Gen)
    /\ \A j \in 1..Len(values) :
          Holds(record, rollout, <<Gen, j>>, values[j],
                IF j <= Population THEN <<Before, arithmetic>> ELSE <<weights>>)
    /\ Len(weights) = Len(done) => Len(values) <= Population
    /\ Len(weights) = Gen =>
          /\ Len(values) >= Population
          /\ weights[Gen] = [fitness |-> SubSeq(values, 1, Population), by |-> arithmetic]

\* Where it stands, of its request and of the files.
PlaceOK ==
    /\ manifest /\ arithmetic \in Arithmetics
    /\ pc \in {"started", "rolling", "evaluated"} =>
          /\ Gen <= Generations
          /\ Len(values) < (IF Len(weights) = Gen THEN Slots(Gen) ELSE Population)
          /\ record[Due] = [status |-> "started", stamp |-> Stamp]
    /\ pc = "rolling" => rollout[Due] = Partial
    /\ pc = "evaluated" => rollout[Due] \in Fitness
    /\ pc \notin Serving => Len(weights) = Len(done) /\ values = <<>>
    /\ pc \notin InCommit =>
          /\ marker[Len(done)] = [policy |-> Before, driver |-> State]
          /\ \A g \in 0..Generations : marker[g] # NoFile <=> g <= Len(done)
    /\ pc \in InCommit => \A g \in 0..Generations : marker[g] # NoFile <=> g < Len(done)
    /\ pc \in {"driver", "marker"} => policy[Len(done)] = weights
    /\ pc = "marker" => driver[Len(done)] = State
    /\ pc \in Ended => Len(done) = Generations /\ summary # NoFile
    /\ pc = "retiring" => receipt # NoFile

SessionOK ==
    /\ pc = "down" => weights = <<>> /\ values = <<>> /\ done = <<>> /\ best = NoBest
    /\ pc # "down" => MemoryOK /\ PlaceOK

Inv ==
    /\ Typed
    /\ \A r \in Requests : RequestOK(r)
    /\ \A g \in 0..Generations : FileOK(g)
    /\ FinalOK
    /\ SessionOK

-----------------------------------------------------------------------------
(* Natural numbers *)

LEMMA LeastNumber ==
    ASSUME NEW T \in SUBSET Nat, T # {}
    PROVE  \E m \in T : \A k \in T : m <= k
<1> DEFINE R == OpToRel(<, Nat)
<1>1. IsWellFoundedOn(R, Nat)
  BY NatLessThanWellFounded, Zenon
<1>2. \A x, y \in Nat : <<y, x>> \in R <=> y < x
  BY DEF OpToRel
<1> HIDE DEF R
<1>3. PICK m \in T : \A k \in T : ~(<<k, m>> \in R)
  BY <1>1, WFMin
<1>4. \A k \in T : m \in Nat /\ k \in Nat /\ ~(k < m)
  BY <1>2, <1>3
<1>5. \A k \in T : m <= k
  BY <1>4
<1> QED BY <1>3, <1>5

\* Induction, for a set instead of a predicate.
LEMMA SetInduction ==
    ASSUME NEW S, 0 \in S, \A n \in Nat : n \in S => n + 1 \in S
    PROVE  Nat \subseteq S
<1> SUFFICES ASSUME NEW T, T = {n \in Nat : n \notin S}, T # {}
             PROVE  FALSE
  OBVIOUS
<1>1. PICK m \in T : \A k \in T : m <= k
  BY LeastNumber
<1>2. m \in Nat /\ m # 0
  BY <1>1
<1>3. m - 1 \in Nat /\ m - 1 \notin T /\ (m - 1) + 1 = m
  BY <1>1, <1>2
<1> QED BY <1>1, <1>3

LEMMA GreatestNumber ==
    ASSUME NEW n \in Nat, NEW T \in SUBSET (0..n), T # {}
    PROVE  \E m \in T : \A k \in T : k <= m
<1> DEFINE Bounds == {m \in Nat : \A k \in T : k <= m}
<1>1. Bounds \in SUBSET Nat /\ n \in Bounds
  OBVIOUS
<1>2. PICK m \in Bounds : \A b \in Bounds : m <= b
  BY <1>1, LeastNumber
<1>3. m \in T
  <2> SUFFICES ASSUME m \notin T
               PROVE  FALSE
    OBVIOUS
  <2>1. \A k \in T : k \in Nat /\ k < m
    BY <1>2
  <2>2. m # 0 /\ m - 1 \in Nat
    <3>1. PICK k \in T : k \in Nat /\ k < m
      BY <2>1
    <3>2. m \in Nat
      BY <1>2
    <3> QED BY <3>1, <3>2
  <2>3. m - 1 \in Bounds
    BY <1>2, <2>1, <2>2
  <2> QED BY <1>2, <2>2, <2>3
<1> QED BY <1>2, <1>3

\* A sum of integers is one, and its recursive definition is met.
LEMMA ScoreType ==
    ASSUME NEW dev \in Seq(Int)
    PROVE  Score(dev) \in Int
<1> DEFINE L == Len(dev)
           Next1(f) == [n \in 0 .. L |-> IF n = 0 THEN 0 ELSE f[n - 1] + dev[n]]
           sum == CHOOSE f : f = Next1(f)
<1>0. L \in Nat /\ \A n \in 1..L : dev[n] \in Int
  OBVIOUS
<1>1. Score(dev) = sum[L]
  BY DEF Score
<1> HIDE DEF L
<1>2. \E f : f = Next1(f)
  <2> DEFINE Part(m) == {f \in [0..m -> Int] :
                           f[0] = 0 /\ \A n \in 1..m : f[n] = f[n - 1] + dev[n]}
             S == {m \in Nat : m <= L => Part(m) # {}}
  <2>1. 0 \in S
    <3>1. [n \in 0..0 |-> 0] \in Part(0)
      OBVIOUS
    <3> QED BY <3>1
  <2>2. ASSUME NEW m \in Nat, m \in S
        PROVE  m + 1 \in S
    <3> SUFFICES ASSUME m + 1 <= L
                 PROVE  Part(m + 1) # {}
      OBVIOUS
    <3>1. m <= L
      BY <1>0
    <3>2. PICK f \in Part(m) : TRUE
      BY <2>2, <3>1
    <3> DEFINE g == [n \in 0..(m + 1) |-> IF n = m + 1 THEN f[m] + dev[m + 1] ELSE f[n]]
    <3>3. g \in [0..(m + 1) -> Int]
      BY <1>0, <3>2
    <3>4. g[0] = 0
      BY <3>2
    <3>5. ASSUME NEW n \in 1..(m + 1)
          PROVE  g[n] = g[n - 1] + dev[n]
      <4>1. CASE n = m + 1
        BY <4>1, <3>2
      <4>2. CASE n # m + 1
        <5>1. n \in 1..m /\ n - 1 \in 0..m /\ n \in 0..(m + 1) /\ n - 1 # m + 1
          BY <4>2
        <5> QED BY <5>1, <4>2, <3>2
      <4> QED BY <4>1, <4>2
    <3>6. g \in Part(m + 1)
      BY <3>3, <3>4, <3>5
    <3> QED BY <3>6
  <2> HIDE DEF S
  <2>3. Nat \subseteq S
    BY <2>1, <2>2, SetInduction
  <2>4. L \in S
    BY <2>3, <1>0
  <2>5. PICK f \in Part(L) : TRUE
    <3>1. L <= L
      BY <1>0
    <3>2. Part(L) # {}
      BY <2>4, <3>1, Zenon DEF S
    <3> HIDE DEF Part
    <3> QED BY <3>2
  <2>6. f \in [0..L -> Int] /\ \A n \in 0..L : f[n] = IF n = 0 THEN 0 ELSE f[n - 1] + dev[n]
    BY <2>5, <1>0
  <2>7. f = Next1(f)
    BY <2>6
  <2> QED BY <2>7
<1>3. sum = Next1(sum)
  BY <1>2
<1>4. \A n \in 0..L : sum[n] = IF n = 0 THEN 0 ELSE sum[n - 1] + dev[n]
  BY <1>3
<1> HIDE DEF sum
<1> DEFINE S == {n \in Nat : n <= L => sum[n] \in Int}
<1>5. 0 \in S
  BY <1>0, <1>4
<1>6. ASSUME NEW n \in Nat, n \in S
      PROVE  n + 1 \in S
  <2> SUFFICES ASSUME n + 1 <= L
               PROVE  sum[n + 1] \in Int
    OBVIOUS
  <2>1. n <= L /\ n + 1 \in 0..L /\ n + 1 # 0 /\ (n + 1) - 1 = n /\ n + 1 \in 1..L
    BY <1>0
  <2>2. sum[n] \in Int /\ dev[n + 1] \in Int
    BY <2>1, <1>6, <1>0
  <2>3. sum[n + 1] = sum[n] + dev[n + 1]
    BY <2>1, <1>4
  <2> QED BY <2>2, <2>3
<1> HIDE DEF S
<1>7. Nat \subseteq S
  BY <1>5, <1>6, SetInduction
<1>8. L \in S
  BY <1>7, <1>0
<1> QED BY <1>1, <1>8, <1>0 DEF S

-----------------------------------------------------------------------------
(* Requests, and what a list of measurements says *)

\* A generation has a slot for each candidate, and for each development case
\* when it runs them.
LEMMA SlotsType ==
    ASSUME NEW g \in Int
    PROVE  /\ Slots(g) \in Nat /\ Population <= Slots(g) /\ Slots(g) <= Population + DevCases
           /\ Slots(g) - Population = IF RunDev(g) THEN DevCases ELSE 0
           /\ Slots(g) # Population <=> RunDev(g)
  BY TrainingAssumption DEF Slots

LEMMA RequestPairs ==
    ASSUME NEW g \in 1..Generations, NEW i \in 1..Slots(g)
    PROVE  <<g, i>> \in Requests
<1>1. g \in Int /\ i \in 1..(Population + DevCases)
  BY SlotsType, TrainingAssumption
<1> QED BY <1>1, SlotsType DEF Requests

\* The measurements of a list lie in requests.
LEMMA MeasuredSlots ==
    ASSUME NEW n \in 0..Generations, NEW k \in 1..n
    PROVE  /\ \A i \in 1..Population : <<k, i>> \in Requests
           /\ \A i \in 1..(Slots(k) - Population) : <<k, Population + i>> \in Requests
<1>1. k \in 1..Generations /\ k \in Int /\ Population \in Nat
  BY TrainingAssumption
<1>2. Slots(k) \in Nat /\ Population <= Slots(k)
  BY <1>1, SlotsType
<1>3. \A i \in 1..Population : i \in 1..Slots(k)
  BY <1>1, <1>2
<1>4. \A i \in 1..(Slots(k) - Population) : Population + i \in 1..Slots(k)
  BY <1>1, <1>2
<1> QED BY <1>1, <1>3, <1>4, RequestPairs

\* Complete measurements stay what they are: so do lists of them.
LEMMA MeasuredStays ==
    ASSUME NEW rec, NEW roll, NEW rec2, NEW roll2, NEW w, NEW d, NEW n \in 0..Generations,
           \A r \in Requests : rec[r].status = "complete" => rec2[r] = rec[r] /\ roll2[r] = roll[r],
           Measured(rec, roll, w, d, n)
    PROVE  Measured(rec2, roll2, w, d, n)
<1>1. ASSUME NEW r \in Requests, NEW v, NEW stamp, Holds(rec, roll, r, v, stamp)
      PROVE  Holds(rec2, roll2, r, v, stamp)
  BY <1>1 DEF Holds
<1> SUFFICES ASSUME NEW k \in 1..n
             PROVE  /\ d[k].fitness = w[k].fitness /\ Len(d[k].dev) = Slots(k) - Population
                    /\ \A i \in 1..Population :
                          Holds(rec2, roll2, <<k, i>>, w[k].fitness[i], <<SubSeq(w, 1, k - 1), w[k].by>>)
                    /\ \A i \in 1..Len(d[k].dev) :
                          Holds(rec2, roll2, <<k, Population + i>>, d[k].dev[i], <<SubSeq(w, 1, k)>>)
  BY Zenon DEF Measured
<1>2. /\ d[k].fitness = w[k].fitness /\ Len(d[k].dev) = Slots(k) - Population
      /\ \A i \in 1..Population :
            Holds(rec, roll, <<k, i>>, w[k].fitness[i], <<SubSeq(w, 1, k - 1), w[k].by>>)
      /\ \A i \in 1..Len(d[k].dev) :
            Holds(rec, roll, <<k, Population + i>>, d[k].dev[i], <<SubSeq(w, 1, k)>>)
  BY Zenon DEF Measured
<1>3. /\ \A i \in 1..Population : <<k, i>> \in Requests
      /\ \A i \in 1..Len(d[k].dev) : <<k, Population + i>> \in Requests
  BY <1>2, MeasuredSlots, Zenon
<1> QED BY <1>1, <1>2, <1>3, Zenon

LEMMA TrainedStays ==
    ASSUME NEW rec, NEW roll, NEW rec2, NEW roll2, NEW w, NEW st, NEW n \in 0..Generations,
           \A r \in Requests : rec[r].status = "complete" => rec2[r] = rec[r] /\ roll2[r] = roll[r],
           Trained(rec, roll, w, st, n)
    PROVE  Trained(rec2, roll2, w, st, n)
<1>1. Measured(rec, roll, w, st.done, n)
  BY DEF Trained
<1>2. Measured(rec2, roll2, w, st.done, n)
  BY <1>1, MeasuredStays
<1> QED BY <1>2, Zenon DEF Trained

LEMMA OutcomeTypes ==
    ASSUME NEW d \in Seq(Outcomes), NEW g \in 1..Len(d)
    PROVE  d[g].dev \in Seq(Fitness) /\ Score(d[g].dev) \in Int
<1>1. d[g] \in Outcomes
  OBVIOUS
<1>2. d[g].dev \in Measurements(DevCases)
  BY <1>1, Zenon DEF Outcomes
<1>3. d[g].dev \in Seq(Fitness)
  BY <1>2 DEF Measurements
<1>4. \A s \in Seq(Fitness) : s \in Seq(Int)
  <2> TAKE s \in Seq(Fitness)
  <2>1. s \in [1..Len(s) -> Fitness] /\ Len(s) \in Nat
    OBVIOUS
  <2>2. s \in [1..Len(s) -> Int]
    BY <2>1, TrainingAssumption
  <2> QED BY <2>1, <2>2
<1> QED BY <1>3, <1>4, ScoreType

\* No two generations are both the first of the best.
LEMMA ChosenIsSelected ==
    ASSUME NEW d \in Seq(Outcomes), NEW b, Chosen(d, b)
    PROVE  b = Selected(d)
<1>1. \A g \in Scored(d) : g \in Int /\ Score(d[g].dev) \in Int
  <2> TAKE g \in Scored(d)
  <2>1. g \in 1..Len(d) /\ g \in Int
    BY DEF Scored
  <2> QED BY <2>1, OutcomeTypes
<1>2. ASSUME NEW g \in Scored(d), NEW h \in Scored(d), First(d, g), First(d, h)
      PROVE  g = h
  BY <1>1, <1>2 DEF First
<1>3. CASE Scored(d) = {}
  BY <1>3 DEF Chosen, Selected, Scored
<1>4. CASE Scored(d) # {}
  <2>1. PICK g \in Scored(d) : First(d, g) /\ b = [generation |-> g, score |-> Score(d[g].dev)]
    BY <1>4 DEF Chosen
  <2>2. g = CHOOSE h \in Scored(d) : First(d, h)
    BY <1>2, <2>1
  <2>3. Selected(d) = LET h == CHOOSE h \in Scored(d) : First(d, h)
                      IN  [generation |-> h, score |-> Score(d[h].dev)]
    BY <1>4, Zenon DEF Selected, Scored, First
  <2> QED BY <2>1, <2>2, <2>3
<1> QED BY <1>3, <1>4

-----------------------------------------------------------------------------
(* The files *)

\* The markers are those of the first generations.
LEMMA LatestCommitted ==
    ASSUME \A g \in 0..Generations : FileOK(g), Committed # {}
    PROVE  Latest \in Committed /\ Committed = 0..Latest
<1>1. Generations \in Nat /\ Committed \in SUBSET (0..Generations)
  BY TrainingAssumption DEF Committed
<1>2. PICK m \in Committed : \A h \in Committed : h <= m
  BY <1>1, GreatestNumber
<1>3. Latest \in Committed /\ \A h \in Committed : h <= Latest
  BY <1>2, Zenon DEF Latest
<1>4. \A h \in 0..Latest : marker[h] # NoFile /\ h \in 0..Generations
  BY <1>1, <1>3 DEF FileOK, Committed
<1> QED BY <1>1, <1>3, <1>4 DEF Committed

LEMMA FinalCommitted ==
    ASSUME \A g \in 0..Generations : FileOK(g), FinalOK, summary # NoFile
    PROVE  Committed = 0..Generations /\ Latest = Generations
<1>1. Generations \in Nat /\ Generations \in Committed /\ Generations \in 0..Generations
  BY TrainingAssumption DEF Committed, FinalOK
<1>2. Latest \in Committed /\ Committed = 0..Latest
  BY <1>1, LatestCommitted
<1> QED BY <1>1, <1>2 DEF Committed

\* Only generations before the last are retired.
LEMMA RetiredIsPast ==
    ASSUME FinalOK, NEW g \in 0..Generations, IsRetired(g)
    PROVE  /\ g # Generations /\ summary # NoFile /\ receipt # NoFile
           /\ g # summary.best /\ marker[Generations] # NoFile
  BY DEF IsRetired, Retained, FinalOK

LEMMA WeightsAreAFile ==
    ASSUME NEW w \in Seq(Updates)
    PROVE  w # NoFile
  BY TrainingAssumption

\* The latest marker is one that _load_committed loads.
LEMMA LatestLoads ==
    ASSUME \A g \in 0..Generations : FileOK(g), FinalOK, Committed # {}
    PROVE  /\ policy[Latest] = marker[Latest].policy /\ driver[Latest] = marker[Latest].driver
           /\ Latest \in 0..Generations /\ marker[Latest] # NoFile
           /\ Trained(record, rollout, policy[Latest], driver[Latest], Latest)
<1>1. Latest \in 0..Generations /\ marker[Latest] # NoFile /\ Committed = 0..Latest
  BY LatestCommitted DEF Committed
<1>2. FilesMatch(Latest) /\ Trained(record, rollout, marker[Latest].policy, marker[Latest].driver, Latest)
  BY <1>1 DEF FileOK
<1>3. ~IsRetired(Latest)
  <2> SUFFICES ASSUME IsRetired(Latest)
               PROVE  FALSE
    OBVIOUS
  <2>1. Latest # Generations /\ summary # NoFile
    BY <1>1, RetiredIsPast
  <2> QED BY <2>1, FinalCommitted
<1> QED BY <1>1, <1>2, <1>3, Zenon DEF FilesMatch

\* What is committed can be resumed.
LEMMA CommittedLoads ==
    ASSUME \A g \in 0..Generations : FileOK(g), FinalOK, Committed # {}
    PROVE  Loadable
<1> DEFINE w == policy[Latest]
           st == driver[Latest]
           n == Latest
<1>1. Committed = 0..n /\ n \in 0..Generations
  BY LatestCommitted, LatestLoads
<1>2. \A g \in Committed : FilesMatch(g)
  BY DEF FileOK, Committed
<1>3. Trained(record, rollout, w, st, n)
  BY LatestLoads
<1> HIDE DEF w, st, n
<1>4. w \in Seq(Updates) /\ Len(w) = n
  BY <1>3 DEF Trained, History
<1>5. st.done \in Seq(Outcomes) /\ Len(st.done) = n
  BY <1>3 DEF Trained, StateOK, States
<1>6. st.best = Selected(st.done)
  <2>1. Chosen(st.done, st.best)
    BY <1>3 DEF Trained
  <2> QED BY <2>1, <1>5, ChosenIsSelected
<1>7. \A k \in 1..n : st.done[k].fitness = w[k].fitness /\ Len(st.done[k].dev) = Slots(k) - Population
  BY <1>3, Zenon DEF Trained, Measured
<1>8. w # NoFile
  BY <1>4, WeightsAreAFile
<1> QED BY <1>1, <1>2, <1>4, <1>5, <1>6, <1>7, <1>8, Zenon DEF Loadable, w, st, n

\* A complete record and its rollout stay.
Kept ==
    \A r \in Requests :
        record[r].status = "complete" => record'[r] = record[r] /\ rollout'[r] = rollout[r]

\* So do the files of a generation that speak of them.
LEMMA FileStays ==
    ASSUME NEW g \in 0..Generations, FileOK(g), Kept, manifest => manifest',
           policy'[g] = policy[g], driver'[g] = driver[g], marker'[g] = marker[g],
           \A h \in 0..g : marker[h] # NoFile => marker'[h] # NoFile,
           IsRetired(g) => IsRetired(g)'
    PROVE  FileOK(g)'
<1>1. FilesMatch(g) => FilesMatch(g)'
  BY DEF FilesMatch
<1>2. Trained(record, rollout, marker[g].policy, marker[g].driver, g)
         => Trained(record', rollout', marker[g].policy, marker[g].driver, g)
  BY TrainedStays DEF Kept
<1>3. marker[g] # NoFile =>
        /\ FilesMatch(g)'
        /\ Trained(record', rollout', marker[g].policy, marker[g].driver, g)
        /\ \A h \in 0..g : marker'[h] # NoFile
  BY <1>1, <1>2, Zenon DEF FileOK
<1> QED BY <1>3 DEF FileOK

LEMMA FilesStay ==
    ASSUME \A g \in 0..Generations : FileOK(g), FinalOK, Kept, manifest => manifest',
           UNCHANGED <<checkpointVars, summary, receipt>>
    PROVE  (\A g \in 0..Generations : FileOK(g))' /\ FinalOK'
<1>0. /\ policy' = policy /\ driver' = driver /\ marker' = marker
      /\ summary' = summary /\ receipt' = receipt
  BY DEF checkpointVars
<1>1. ASSUME NEW g \in 0..Generations
      PROVE  FileOK(g)'
  <2>1. IsRetired(g)' <=> IsRetired(g)
    BY <1>0 DEF IsRetired
  <2>2. FileOK(g)
    OBVIOUS
  <2> QED BY <1>0, <2>1, <2>2, FileStays
<1>2. FinalOK'
  BY <1>0 DEF FinalOK, Kept
<1> QED BY <1>1, <1>2

-----------------------------------------------------------------------------
(* The memory of a session *)

LEMMA BeforeType ==
    ASSUME NEW w \in Seq(Updates), NEW n \in Nat, n <= Len(w)
    PROVE  /\ SubSeq(w, 1, n) \in Seq(Updates) /\ Len(SubSeq(w, 1, n)) = n
           /\ \A k \in 1..n : SubSeq(w, 1, n)[k] = w[k]
           /\ n = Len(w) => SubSeq(w, 1, n) = w
  OBVIOUS

\* A session that has a request to serve, or is serving one.
Pending ==
    /\ pc # "down" /\ Gen <= Generations
    /\ Len(values) < (IF Len(weights) = Gen THEN Slots(Gen) ELSE Population)

LEMMA PendingSession ==
    ASSUME SessionOK, IsDue \/ pc \in {"started", "rolling", "evaluated"}
    PROVE  Pending
  BY DEF SessionOK, PlaceOK, IsDue, Pending

LEMMA MemoryTypes ==
    ASSUME Typed
    PROVE  /\ weights \in Seq(Updates) /\ Len(weights) \in Nat
           /\ values \in Seq(Fitness) /\ Len(values) \in Nat
           /\ done \in Seq(Outcomes) /\ Len(done) \in Nat
           /\ Gen = Len(done) + 1 /\ Gen \in Nat
           /\ best \in [generation : 0..Generations, score : Int]
<1>1. State \in States
  BY DEF Typed
<1>2. done \in Seq(Outcomes) /\ best \in [generation : 0..Generations, score : Int]
  BY <1>1 DEF State, States
<1> QED BY <1>2 DEF Typed, Gen

\* The stamp of the next request: the weights before the generation and the
\* arithmetic that perturbs them, or the weights after its update.
LEMMA DueStamp ==
    ASSUME Typed, SessionOK, Pending
    PROVE  /\ Due \in Requests /\ Due = <<Gen, Len(values) + 1>> /\ Gen \in 1..Generations
           /\ Stamp \in Stamps
           /\ Stamp = IF Len(values) + 1 <= Population THEN <<Before, arithmetic>> ELSE <<weights>>
           /\ Len(values) + 1 > Population => Len(weights) = Gen
           /\ Len(values) + 1 <= Population => Len(weights) = Len(done)
           /\ Len(values) + 1 <= Slots(Gen)
<1>1. MemoryOK /\ PlaceOK /\ arithmetic \in Arithmetics
  BY DEF SessionOK, Pending, PlaceOK
<1>2. Gen \in 1..Generations /\ Gen \in Int /\ Population \in Nat
  BY MemoryTypes, TrainingAssumption DEF Pending
<1>3. Slots(Gen) \in Nat /\ Population <= Slots(Gen)
  BY <1>2, SlotsType
<1>4. Len(values) + 1 \in 1..Slots(Gen)
  BY <1>2, <1>3, MemoryTypes DEF Pending
<1>5. Due = <<Gen, Len(values) + 1>> /\ Due \in Requests
  BY <1>2, <1>4, RequestPairs DEF Due
<1>6. Len(weights) = Gen => Len(values) >= Population
  BY <1>1 DEF MemoryOK
<1>7. Len(weights) = Len(done) \/ Len(weights) = Gen
  BY <1>1 DEF MemoryOK
<1>8. Len(values) + 1 > Population => Len(weights) = Gen
  BY <1>2, MemoryTypes DEF Pending
<1>9. Len(values) + 1 <= Population => Len(weights) = Len(done)
  BY <1>2, <1>6, <1>7, MemoryTypes
<1>10. Len(weights) = Len(done) => Before = weights
  BY MemoryTypes, BeforeType DEF Before
<1>11. Stamp = IF Len(values) + 1 <= Population THEN <<Before, arithmetic>> ELSE <<weights>>
  BY <1>2, <1>9, <1>10, MemoryTypes DEF Stamp
<1>12. <<weights, arithmetic>> \in Stamps /\ <<weights>> \in Stamps
  BY <1>1, MemoryTypes DEF Stamps
<1>13. Stamp \in Stamps
  BY <1>12 DEF Stamp
<1> QED BY <1>2, <1>4, <1>5, <1>8, <1>9, <1>11, <1>13, MemoryTypes

\* What the memory holds is still measured.
LEMMA MemoryStays ==
    ASSUME Typed, MemoryOK, Kept, UNCHANGED memory
    PROVE  MemoryOK'
<1>1. weights' = weights /\ values' = values /\ done' = done /\ best' = best /\ arithmetic' = arithmetic
  BY DEF memory
<1>2. Gen' = Gen /\ State' = State /\ Before' = Before
  BY <1>1 DEF Gen, State, Before
<1>3. Len(done) \in 0..Generations
  BY MemoryTypes, TrainingAssumption DEF MemoryOK
<1>4. Trained(record', rollout', Before, State, Len(done))
  BY <1>3, TrainedStays DEF Kept, MemoryOK
<1>5. ASSUME NEW j \in 1..Len(values), NEW stamp,
             Holds(record, rollout, <<Gen, j>>, values[j], stamp)
      PROVE  Holds(record', rollout', <<Gen, j>>, values[j], stamp)
  <2>1. Gen <= Generations /\ Len(values) <= Slots(Gen)
    <3>1. values # <<>>
      BY MemoryTypes
    <3> QED BY <3>1 DEF MemoryOK
  <2>2. Gen \in 1..Generations /\ j \in 1..Slots(Gen)
    <3>1. Gen \in Int /\ Gen \in 1..Generations
      BY <2>1, MemoryTypes, TrainingAssumption
    <3>2. Slots(Gen) \in Nat
      BY <3>1, SlotsType
    <3> QED BY <2>1, <3>1, <3>2, MemoryTypes
  <2>3. <<Gen, j>> \in Requests
    BY <2>2, RequestPairs
  <2> QED BY <2>3, <1>5 DEF Kept, Holds
<1>6. \A j \in 1..Len(values) :
          Holds(record', rollout', <<Gen, j>>, values[j],
                IF j <= Population THEN <<Before, arithmetic>> ELSE <<weights>>)
  BY <1>5, Zenon DEF MemoryOK
<1> QED BY <1>1, <1>2, <1>4, <1>6, Zenon DEF MemoryOK

\* The value of the next request joins the memory.
LEMMA MemoryTakes ==
    ASSUME Typed, SessionOK, Pending, Kept,
           UNCHANGED <<arithmetic, weights, done, best>>,
           values' = Append(values, rollout[Due]), rollout[Due] \in Fitness,
           Holds(record', rollout', Due, rollout[Due], Stamp)
    PROVE  MemoryOK'
<1>1. MemoryOK
  BY DEF SessionOK, Pending
<1>2. Gen' = Gen /\ State' = State /\ Before' = Before
  BY DEF Gen, State, Before
<1>3. Len(done) \in 0..Generations
  BY <1>1, MemoryTypes, TrainingAssumption DEF MemoryOK
<1>4. Trained(record', rollout', Before, State, Len(done))
  BY <1>1, <1>3, TrainedStays DEF Kept, MemoryOK
<1>5. Len(values') = Len(values) + 1 /\ values'[Len(values) + 1] = rollout[Due]
      /\ \A j \in 1..Len(values) : values'[j] = values[j]
  BY MemoryTypes
<1>6. Population \in Nat /\ Slots(Gen) <= Population + DevCases /\ Gen \in Nat
      /\ Slots(Gen) \in Nat /\ DevCases \in Nat
  BY MemoryTypes, SlotsType, TrainingAssumption
<1>7. Len(values') <= Population + DevCases
  BY <1>5, <1>6, DueStamp, MemoryTypes
<1>8. Gen <= Generations /\ Len(values') <= Slots(Gen)
  BY <1>5, DueStamp DEF Pending
<1>9. ASSUME NEW j \in 1..Len(values')
      PROVE  Holds(record', rollout', <<Gen, j>>, values'[j],
                   IF j <= Population THEN <<Before, arithmetic>> ELSE <<weights>>)
  <2> DEFINE stamp == IF j <= Population THEN <<Before, arithmetic>> ELSE <<weights>>
  <2>1. CASE j = Len(values) + 1
    <3>1. Stamp = stamp /\ Due = <<Gen, j>>
      BY <2>1, DueStamp
    <3> HIDE DEF stamp
    <3>2. Holds(record', rollout', <<Gen, j>>, values'[j], stamp)
      BY <2>1, <3>1, <1>5, Zenon
    <3> QED BY <3>2 DEF stamp
  <2>2. CASE j # Len(values) + 1
    <3>1. j \in 1..Len(values)
      BY <2>2, <1>5, MemoryTypes
    <3>2. Holds(record, rollout, <<Gen, j>>, values[j], stamp)
      BY <3>1, <1>1, Zenon DEF MemoryOK
    <3>3. Gen \in 1..Generations /\ j \in 1..Slots(Gen)
      BY <3>1, <1>6, <1>5, <1>8, MemoryTypes
    <3>4. <<Gen, j>> \in Requests
      BY <3>3, RequestPairs
    <3> HIDE DEF stamp
    <3>5. Holds(record', rollout', <<Gen, j>>, values[j], stamp)
      BY <3>2, <3>4 DEF Kept, Holds
    <3> QED BY <3>1, <3>5, <1>5 DEF stamp
  <2> QED BY <2>1, <2>2
<1>10. Len(weights) = Len(done) => Len(values') <= Population
  BY <1>5, <1>6, DueStamp, MemoryTypes
<1>11. ASSUME Len(weights) = Gen
       PROVE  /\ Len(values') >= Population
              /\ weights[Gen] = [fitness |-> SubSeq(values', 1, Population), by |-> arithmetic]
  <2>1. Len(values) >= Population
        /\ weights[Gen] = [fitness |-> SubSeq(values, 1, Population), by |-> arithmetic]
    BY <1>1, <1>11 DEF MemoryOK
  <2>2. SubSeq(values', 1, Population) = SubSeq(values, 1, Population)
    BY <2>1, <1>5, <1>6, MemoryTypes
  <2> QED BY <2>1, <2>2, <1>5, <1>6, MemoryTypes
<1>12. Len(weights) \in {Len(done), Gen} /\ Len(done) <= Generations
  BY <1>1 DEF MemoryOK
<1> QED BY <1>2, <1>4, <1>7, <1>8, <1>9, <1>10, <1>11, <1>12, Zenon DEF MemoryOK

-----------------------------------------------------------------------------
(* Evaluating *)

Statuses == {"none", "started", "unknown", "complete"}

LEMMA StatusSet ==
    ASSUME Typed, NEW r \in Requests, NEW status \in Statuses, SetStatus(r, status)
    PROVE  /\ record' \in [Requests -> Records]
           /\ record'[r] = [status |-> status, stamp |-> record[r].stamp]
           /\ \A q \in Requests \ {r} : record'[q] = record[q]
<1>1. record \in [Requests -> Records] /\ record[r] \in Records
  BY DEF Typed
<1>2. record' = [record EXCEPT ![r] = [record[r] EXCEPT !.status = status]]
  BY DEF SetStatus
<1>3. [record[r] EXCEPT !.status = status] = [status |-> status, stamp |-> record[r].stamp]
  BY <1>1 DEF Records
<1>4. [status |-> status, stamp |-> record[r].stamp] \in Records
  BY <1>1 DEF Records, Statuses
<1> QED BY <1>1, <1>2, <1>3, <1>4

LEMMA RecordSet ==
    ASSUME Typed, NEW r \in Requests, NEW rec \in Records, record' = [record EXCEPT ![r] = rec]
    PROVE  /\ record' \in [Requests -> Records] /\ record'[r] = rec
           /\ \A q \in Requests \ {r} : record'[q] = record[q]
  BY DEF Typed

LEMMA StateTypes ==
    ASSUME Typed
    PROVE  [done |-> <<>>, best |-> NoBest] \in States
<1>1. <<>> \in Seq(Outcomes) /\ NoBest \in [generation : 0..Generations, score : Int]
  BY TrainingAssumption DEF NoBest
<1> QED BY <1>1 DEF States

\* A step within the serving of requests, whatever it does to one of them.
LEMMA ServingKeeps ==
    ASSUME Inv, Kept, UNCHANGED <<manifest, checkpointVars, summary, receipt>>,
           record' \in [Requests -> Records],
           rollout' \in [Requests -> Fitness \cup {NoFile, Partial}],
           calls' \in [Requests -> Nat],
           pc' \in {"down"} \cup Serving \cup InCommit \cup Ended,
           weights' \in Seq(Updates), values' \in Seq(Fitness),
           State' \in States, faults' \in 0..MaxFaults,
           \A r \in Requests : RequestOK(r)', SessionOK'
    PROVE  Inv'
<1>1. Typed'
  BY DEF Inv, Typed, checkpointVars
<1>2. (\A g \in 0..Generations : FileOK(g))' /\ FinalOK'
  BY FilesStay DEF Inv
<1> QED BY <1>1, <1>2 DEF Inv

\* A session that leaves has nothing in memory that could be wrong.
LEMMA LeaveOK ==
    ASSUME Typed, Leave
    PROVE  /\ SessionOK' /\ State' \in States /\ weights' \in Seq(Updates) /\ values' \in Seq(Fitness)
           /\ pc' \in {"down"} \cup Serving \cup InCommit \cup Ended
<1>1. State' = [done |-> <<>>, best |-> NoBest]
  BY DEF Leave, State
<1>2. State' \in States
  BY <1>1, StateTypes
<1>3. SessionOK'
  BY DEF Leave, SessionOK
<1>4. weights' = <<>> /\ values' = <<>> /\ pc' = "down"
  BY DEF Leave
<1> QED BY <1>2, <1>3, <1>4

\* Between requests, the files stay where the session knows them to be.
LEMMA ServingPlace ==
    ASSUME Typed, SessionOK, pc \in Serving, pc' = "serving",
           UNCHANGED <<manifest, arithmetic, marker, done, best, weights>>
    PROVE  PlaceOK'
<1>1. PlaceOK
  BY DEF SessionOK, Serving
<1>2. State' = State /\ Before' = Before
  BY DEF State, Before
<1> QED BY <1>1, <1>2 DEF PlaceOK, Serving, InCommit, Ended

\* A verified result joins the memory: one on record, one that is recovered
\* or one that was just measured.
LEMMA TakingKeeps ==
    ASSUME Inv, Pending, pc \in Serving, Kept, Take(Due), rollout[Due] \in Fitness,
           record' \in [Requests -> Records], rollout' = rollout,
           record'[Due] = [status |-> "complete", stamp |-> Stamp],
           \A r \in Requests \ {Due} : record'[r] = record[r],
           UNCHANGED <<manifest, calls, checkpointVars, summary, receipt,
                       arithmetic, weights, done, best, faults>>
    PROVE  Inv'
<1>1. Typed /\ SessionOK
  BY DEF Inv
<1>2. values' = Append(values, rollout[Due]) /\ pc' = "serving"
  BY DEF Take
<1>3. Holds(record', rollout', Due, rollout[Due], Stamp)
  BY DEF Holds
<1>4. MemoryOK'
  BY <1>1, <1>2, <1>3, MemoryTakes
<1>5. PlaceOK'
  <2>1. marker' = marker
    BY DEF checkpointVars
  <2> QED BY <1>1, <1>2, <2>1, ServingPlace
<1>6. SessionOK'
  BY <1>2, <1>4, <1>5 DEF SessionOK
<1>7. \A r \in Requests : RequestOK(r)'
  BY DEF Inv, RequestOK
<1>8. values' \in Seq(Fitness)
  BY <1>1, <1>2, MemoryTypes
<1>9. State' = State
  BY DEF State
<1> QED BY <1>1, <1>2, <1>6, <1>7, <1>8, <1>9, ServingKeeps DEF Typed, Serving

LEMMA ReuseKeepsInv ==
    ASSUME Inv, Reuse
    PROVE  Inv'
<1>1. Typed /\ SessionOK /\ IsDue /\ Pending
  BY PendingSession DEF Inv, Reuse
<1>2. Due \in Requests /\ record[Due].status = "complete" /\ record[Due].stamp = Stamp
  BY <1>1, DueStamp DEF Reuse, SameWeights
<1>3. record' = record /\ rollout' = rollout
  BY DEF Reuse, requestVars
<1>4. record[Due] \in Records
  BY <1>1, <1>2 DEF Typed
<1>5. record'[Due] = [status |-> "complete", stamp |-> Stamp]
  BY <1>2, <1>3, <1>4 DEF Records
<1>6. rollout[Due] \in Fitness
  BY <1>2 DEF Inv, RequestOK
<1>7. Kept
  BY <1>3 DEF Kept
<1> QED
  BY <1>1, <1>3, <1>5, <1>6, <1>7, TakingKeeps DEF Reuse, requestVars, IsDue, Serving, Typed

LEMMA RecoverKeepsInv ==
    ASSUME Inv, Recover
    PROVE  Inv'
<1>1. Typed /\ SessionOK /\ IsDue /\ Pending
  BY PendingSession DEF Inv, Recover
<1>2. /\ Due \in Requests /\ record[Due].stamp = Stamp /\ SetStatus(Due, "complete")
      /\ record[Due].status \in {"started", "unknown"} /\ rollout[Due] \in Fitness
  BY <1>1, DueStamp DEF Recover, SameWeights, Recoverable
<1>3. /\ record' \in [Requests -> Records]
      /\ record'[Due] = [status |-> "complete", stamp |-> Stamp]
      /\ \A q \in Requests \ {Due} : record'[q] = record[q]
  BY <1>1, <1>2, StatusSet DEF Statuses
<1>4. rollout' = rollout
  BY DEF Recover
<1>5. Kept
  BY <1>2, <1>3, <1>4 DEF Kept
<1> QED
  BY <1>1, <1>2, <1>3, <1>4, <1>5, TakingKeeps DEF Recover, IsDue, Serving

LEMMA CompleteKeepsInv ==
    ASSUME Inv, Complete
    PROVE  Inv'
<1>1. Typed /\ SessionOK /\ pc = "evaluated" /\ Pending
  BY PendingSession DEF Inv, Complete
<1>2. record[Due] = [status |-> "started", stamp |-> Stamp] /\ rollout[Due] \in Fitness
  BY <1>1 DEF SessionOK, PlaceOK
<1>3. Due \in Requests /\ SetStatus(Due, "complete")
  BY <1>1, DueStamp DEF Complete
<1>4. /\ record' \in [Requests -> Records]
      /\ record'[Due] = [status |-> "complete", stamp |-> Stamp]
      /\ \A q \in Requests \ {Due} : record'[q] = record[q]
  <2>1. record[Due].stamp = Stamp /\ "complete" \in Statuses
    BY <1>2 DEF Statuses
  <2> QED BY <1>1, <1>3, <2>1, StatusSet
<1>5. rollout' = rollout
  BY DEF Complete
<1>6. Kept
  BY <1>2, <1>4, <1>5 DEF Kept
<1> QED
  BY <1>1, <1>2, <1>4, <1>5, <1>6, TakingKeeps DEF Complete, Serving

LEMMA StartRequestKeepsInv ==
    ASSUME Inv, StartRequest
    PROVE  Inv'
<1>1. Typed /\ SessionOK /\ IsDue /\ Pending /\ pc = "serving" /\ pc' = "started"
  BY PendingSession DEF Inv, StartRequest, IsDue
<1>2. Due \in Requests /\ Stamp \in Stamps /\ record[Due].status = "none"
  BY <1>1, DueStamp DEF StartRequest
<1> DEFINE new == [status |-> "started", stamp |-> Stamp]
<1>3. new \in Records /\ record' = [record EXCEPT ![Due] = new]
  BY <1>2 DEF StartRequest, Records
<1> HIDE DEF new
<1>4. /\ record' \in [Requests -> Records] /\ record'[Due] = new
      /\ \A q \in Requests \ {Due} : record'[q] = record[q]
  BY <1>1, <1>2, <1>3, RecordSet
<1>5. /\ rollout' = rollout /\ calls' = calls /\ faults' = faults /\ UNCHANGED memory
      /\ UNCHANGED <<manifest, checkpointVars, summary, receipt>>
  BY DEF StartRequest
<1>6. /\ weights' = weights /\ values' = values /\ done' = done /\ best' = best
      /\ arithmetic' = arithmetic /\ marker' = marker /\ manifest' = manifest
  BY <1>5 DEF memory, checkpointVars
<1>7. Kept
  BY <1>2, <1>4, <1>5 DEF Kept
<1>8. MemoryOK'
  BY <1>1, <1>5, <1>7, MemoryStays DEF SessionOK
<1>9. Gen' = Gen /\ Due' = Due /\ Stamp' = Stamp /\ State' = State /\ Before' = Before
  BY <1>6 DEF Gen, Due, Stamp, State, Before
<1>10. PlaceOK'
  <2>1. PlaceOK
    BY <1>1 DEF SessionOK
  <2>2. record'[Due] = [status |-> "started", stamp |-> Stamp]
    BY <1>4 DEF new
  <2> QED BY <1>1, <1>6, <1>9, <2>1, <2>2 DEF PlaceOK, Serving, InCommit, Ended, Pending
<1>11. \A r \in Requests : RequestOK(r)'
  BY <1>4, <1>5 DEF Inv, RequestOK, new
<1>12. SessionOK'
  BY <1>1, <1>8, <1>10 DEF SessionOK
<1> QED
  BY <1>1, <1>4, <1>5, <1>6, <1>7, <1>9, <1>11, <1>12, ServingKeeps DEF Typed, Serving

\* A step of the request's rollout.
LEMMA RolloutKeeps ==
    ASSUME Inv, pc \in {"started", "rolling"}, NEW v \in Fitness \cup {Partial},
           rollout' = [rollout EXCEPT ![Due] = v], calls' \in [Requests -> Nat],
           pc' = IF v = Partial THEN "rolling" ELSE "evaluated",
           UNCHANGED <<manifest, record, checkpointVars, summary, receipt, memory, faults>>
    PROVE  Inv'
<1>1. Typed /\ SessionOK /\ Pending /\ MemoryOK /\ PlaceOK
  BY PendingSession DEF Inv, SessionOK, Pending
<1>2. Due \in Requests /\ record[Due].status = "started"
  BY <1>1, DueStamp DEF PlaceOK
<1>3. /\ rollout' \in [Requests -> Fitness \cup {NoFile, Partial}] /\ rollout'[Due] = v
      /\ \A q \in Requests \ {Due} : rollout'[q] = rollout[q]
  BY <1>1, <1>2 DEF Typed
<1>4. /\ record' = record /\ faults' = faults
      /\ weights' = weights /\ values' = values /\ done' = done /\ best' = best
      /\ arithmetic' = arithmetic /\ marker' = marker /\ manifest' = manifest
  BY DEF memory, checkpointVars
<1>5. Kept
  BY <1>2, <1>3, <1>4 DEF Kept
<1>6. MemoryOK'
  BY <1>1, <1>5, MemoryStays
<1>7. Gen' = Gen /\ Due' = Due /\ Stamp' = Stamp /\ State' = State /\ Before' = Before
  BY <1>4 DEF Gen, Due, Stamp, State, Before
<1>8. PlaceOK'
  <2>1. pc' = "rolling" => v = Partial
    OBVIOUS
  <2>2. pc' = "evaluated" => v \in Fitness
    OBVIOUS
  <2>3. pc' \in {"rolling", "evaluated"}
    OBVIOUS
  <2> QED BY <1>1, <1>3, <1>4, <1>7, <2>1, <2>2, <2>3 DEF PlaceOK, Serving, InCommit, Ended
<1>9. \A r \in Requests : RequestOK(r)'
  <2> TAKE r \in Requests
  <2>1. RequestOK(r)
    BY DEF Inv
  <2> QED BY <1>2, <1>3, <1>4, <2>1 DEF RequestOK
<1>10. SessionOK'
  BY <1>6, <1>8 DEF SessionOK
<1> QED
  BY <1>1, <1>3, <1>4, <1>5, <1>7, <1>9, <1>10, ServingKeeps DEF Typed, Serving

LEMMA ExecuteKeepsInv ==
    ASSUME Inv, Execute
    PROVE  Inv'
<1>1. Typed /\ SessionOK /\ Pending /\ pc = "started" /\ pc' = "rolling"
  BY PendingSession DEF Inv, Execute
<1>2. Due \in Requests
  BY <1>1, DueStamp
<1>3. calls' \in [Requests -> Nat]
  <2>1. calls \in [Requests -> Nat] /\ calls[Due] + 1 \in Nat
    BY <1>1, <1>2 DEF Typed
  <2> QED BY <2>1, <1>2 DEF Execute
<1> QED BY <1>1, <1>3, RolloutKeeps DEF Execute

LEMMA FinishRolloutKeepsInv ==
    ASSUME Inv, FinishRollout
    PROVE  Inv'
<1>1. PICK v \in Fitness : rollout' = [rollout EXCEPT ![Due] = v]
  BY DEF FinishRollout
<1>2. v # Partial
  BY TrainingAssumption
<1>3. calls' \in [Requests -> Nat]
  BY DEF FinishRollout, Inv, Typed
<1> QED BY <1>1, <1>2, <1>3, RolloutKeeps DEF FinishRollout

LEMMA RaiseKeepsInv ==
    ASSUME Inv, Raise
    PROVE  Inv'
<1>1. Typed /\ SessionOK /\ Pending /\ PlaceOK /\ pc \in {"started", "rolling", "evaluated"}
  BY PendingSession DEF Inv, Raise, SessionOK, Pending
<1>2. Due \in Requests /\ record[Due].status = "started"
  BY <1>1, DueStamp DEF PlaceOK
<1>3. /\ record' \in [Requests -> Records]
      /\ record'[Due].status = "unknown"
      /\ \A q \in Requests \ {Due} : record'[q] = record[q]
  <2>1. SetStatus(Due, "unknown") /\ "unknown" \in Statuses
    BY DEF Raise, Statuses
  <2>2. record'[Due] = [status |-> "unknown", stamp |-> record[Due].stamp]
    BY <1>1, <1>2, <2>1, StatusSet
  <2> QED BY <1>1, <1>2, <2>1, <2>2, StatusSet
<1>4. rollout' = rollout /\ calls' = calls /\ Leave
  BY DEF Raise
<1>5. Kept
  BY <1>2, <1>3, <1>4 DEF Kept
<1>6. \A r \in Requests : RequestOK(r)'
  BY <1>3, <1>4 DEF Inv, RequestOK
<1>7. faults' \in 0..MaxFaults
  BY <1>1, TrainingAssumption DEF Raise, Typed
<1>8. UNCHANGED <<manifest, checkpointVars, summary, receipt>>
  BY DEF Raise
<1> QED BY <1>1, <1>3, <1>4, <1>5, <1>6, <1>7, <1>8, LeaveOK, ServingKeeps DEF Typed

\* Reconciliation completes the record of a receipt when no session is there.
LEMMA ReconcileKeepsInv ==
    ASSUME Inv, NEW r \in Requests, Reconcile(r)
    PROVE  Inv'
<1>1. Typed /\ SessionOK /\ pc = "down"
  BY DEF Inv, Reconcile
<1>2. record[r].status \in {"started", "unknown"} /\ rollout[r] \in Fitness
  BY DEF Reconcile
<1>3. /\ record' \in [Requests -> Records]
      /\ record'[r].status = "complete"
      /\ \A q \in Requests \ {r} : record'[q] = record[q]
  <2>1. SetStatus(r, "complete") /\ "complete" \in Statuses
    BY DEF Reconcile, Statuses
  <2>2. record'[r] = [status |-> "complete", stamp |-> record[r].stamp]
    BY <1>1, <2>1, StatusSet
  <2> QED BY <1>1, <2>1, <2>2, StatusSet
<1>4. /\ rollout' = rollout /\ calls' = calls /\ pc' = pc /\ UNCHANGED memory /\ faults' = faults
      /\ UNCHANGED <<manifest, checkpointVars, summary, receipt>>
  BY DEF Reconcile
<1>5. weights' = weights /\ values' = values /\ done' = done /\ best' = best /\ State' = State
  BY <1>4 DEF memory, State
<1>6. Kept
  BY <1>2, <1>3, <1>4 DEF Kept
<1>7. \A q \in Requests : RequestOK(q)'
  BY <1>2, <1>3, <1>4 DEF Inv, RequestOK
<1>8. SessionOK'
  BY <1>1, <1>4, <1>5 DEF SessionOK
<1> QED BY <1>1, <1>3, <1>4, <1>5, <1>6, <1>7, <1>8, ServingKeeps DEF Typed

\* A session that leaves its request, dies or is done touches no file.
LEMMA LeavingKeeps ==
    ASSUME Inv, Leave, UNCHANGED <<manifest, requestVars, checkpointVars, summary, receipt>>,
           faults' \in 0..MaxFaults
    PROVE  Inv'
<1>1. record' = record /\ rollout' = rollout /\ calls' = calls
  BY DEF requestVars
<1>2. Kept
  BY <1>1 DEF Kept
<1>3. \A r \in Requests : RequestOK(r)'
  BY <1>1 DEF Inv, RequestOK
<1>4. Typed
  BY DEF Inv
<1> QED BY <1>1, <1>2, <1>3, <1>4, LeaveOK, ServingKeeps DEF Typed

LEMMA LeavingActionsKeepInv ==
    ASSUME Inv, HaltRequest \/ Crash \/ FinishRetirement
    PROVE  Inv'
<1>1. faults' \in 0..MaxFaults
  BY TrainingAssumption DEF Inv, Typed, HaltRequest, Crash, FinishRetirement
<1> QED BY <1>1, LeavingKeeps DEF HaltRequest, Crash, FinishRetirement

-----------------------------------------------------------------------------
(* Starting a session *)

LEMMA NothingTrained ==
    ASSUME NEW rec, NEW roll
    PROVE  Trained(rec, roll, <<>>, [done |-> <<>>, best |-> NoBest], 0)
<1>1. Measured(rec, roll, <<>>, <<>>, 0)
  BY DEF Measured
<1>2. Chosen(<<>>, NoBest)
  BY DEF Chosen, Scored
<1>3. StateOK([done |-> <<>>, best |-> NoBest], 0)
  <2>1. <<>> \in Seq(Outcomes) /\ NoBest \in [generation : 0..Generations, score : Int]
    BY TrainingAssumption DEF NoBest
  <2>2. [done |-> <<>>, best |-> NoBest] \in States
    BY <2>1 DEF States
  <2> QED BY <2>2 DEF StateOK, NoBest
<1>4. <<>> \in History(0)
  BY DEF History
<1> QED BY <1>1, <1>2, <1>3, <1>4 DEF Trained

\* The memory at the start of a session is what its last checkpoint says.
LEMMA MemoryStarts ==
    ASSUME NEW w, NEW st, NEW n \in 0..Generations, Trained(record', rollout', w, st, n),
           weights' = w, values' = <<>>, done' = st.done, best' = st.best
    PROVE  /\ MemoryOK' /\ State' = st /\ Before' = w /\ State' \in States /\ weights' \in Seq(Updates)
           /\ Len(done') = n /\ Len(weights') = n
<1>1. w \in Seq(Updates) /\ Len(w) = n /\ st \in States /\ Len(st.done) = n
  BY DEF Trained, History, StateOK
<1>2. State' = st
  BY <1>1 DEF State, States
<1>3. Before' = w
  BY <1>1 DEF Before
<1>4. n \in Nat /\ n <= Generations /\ Population + DevCases \in Nat /\ Population \in Nat
  BY TrainingAssumption
<1>5. Len(values') = 0 /\ Len(done') = n /\ Len(weights') = n /\ Gen' = n + 1
  BY <1>1 DEF Gen
<1>6. Trained(record, rollout, Before, State, Len(done))'
  BY <1>2, <1>3, <1>5
<1>7. MemoryOK'
  BY <1>4, <1>5, <1>6 DEF MemoryOK
<1> QED BY <1>1, <1>2, <1>3, <1>5, <1>7

LEMMA BeginKeepsInv ==
    ASSUME Inv, Begin
    PROVE  Inv'
<1>1. /\ ~manifest /\ manifest' = TRUE /\ pc' = "policy" /\ arithmetic' \in Arithmetics
      /\ weights' = <<>> /\ values' = <<>> /\ done' = <<>> /\ best' = NoBest
      /\ record' = record /\ rollout' = rollout /\ calls' = calls /\ faults' = faults
      /\ policy' = policy /\ driver' = driver /\ marker' = marker
      /\ summary' = summary /\ receipt' = receipt
  BY DEF Begin, requestVars, checkpointVars
<1>2. Kept
  BY <1>1 DEF Kept
<1>3. (\A g \in 0..Generations : FileOK(g))' /\ FinalOK'
  BY <1>1, <1>2, FilesStay DEF Inv, checkpointVars
<1> DEFINE st == [done |-> <<>>, best |-> NoBest]
<1>4. Trained(record', rollout', <<>>, st, 0) /\ st.done = <<>> /\ st.best = NoBest
  BY NothingTrained
<1> HIDE DEF st
<1>5. /\ MemoryOK' /\ State' \in States /\ weights' \in Seq(Updates)
      /\ Len(done') = 0 /\ Len(weights') = 0
  <2>1. 0 \in 0..Generations
    BY TrainingAssumption
  <2> QED BY <1>1, <1>4, <2>1, MemoryStarts
<1>6. \A g \in 0..Generations : marker'[g] = NoFile
  BY <1>1 DEF Inv, FileOK
<1>7. PlaceOK'
  BY <1>1, <1>5, <1>6 DEF PlaceOK, Serving, InCommit, Ended
<1>8. SessionOK'
  BY <1>1, <1>5, <1>7 DEF SessionOK
<1>9. \A r \in Requests : RequestOK(r)'
  BY <1>1 DEF Inv, RequestOK
<1>10. Typed'
  BY <1>1, <1>5 DEF Inv, Typed, InCommit
<1> QED BY <1>3, <1>8, <1>9, <1>10 DEF Inv

LEMMA ResumeKeepsInv ==
    ASSUME Inv, Resume
    PROVE  Inv'
<1> DEFINE w == policy[Latest]
           st == driver[Latest]
           n == Latest
<1>1. /\ manifest /\ manifest' = manifest /\ pc' = "serving" /\ arithmetic' \in Arithmetics
      /\ weights' = w /\ values' = <<>> /\ done' = st.done /\ best' = st.best
      /\ record' = record /\ rollout' = rollout /\ calls' = calls /\ faults' = faults
      /\ policy' = policy /\ driver' = driver /\ marker' = marker
      /\ summary' = summary /\ receipt' = receipt /\ Committed # {}
  BY DEF Resume, requestVars, checkpointVars
<1>2. Kept
  BY <1>1 DEF Kept
<1>3. (\A g \in 0..Generations : FileOK(g))' /\ FinalOK'
  BY <1>1, <1>2, FilesStay DEF Inv, checkpointVars
<1>4. /\ n \in 0..Generations /\ marker[n] # NoFile
      /\ w = marker[n].policy /\ st = marker[n].driver
      /\ Trained(record, rollout, w, st, n)
  BY <1>1, LatestLoads DEF Inv
<1>5. \A g \in 0..Generations : marker[g] # NoFile <=> g <= n
  BY <1>1, <1>4, LatestCommitted DEF Inv, Committed
<1>6. marker[n] = [policy |-> w, driver |-> st]
  <2>1. marker[n] \in Markers
    BY <1>4 DEF Inv, Typed
  <2> QED BY <2>1, <1>4 DEF Markers
<1> HIDE DEF w, st, n
<1>7. /\ MemoryOK' /\ State' = st /\ Before' = w /\ State' \in States /\ weights' \in Seq(Updates)
      /\ Len(done') = n /\ Len(weights') = n
  BY <1>1, <1>4, MemoryStarts
<1>8. PlaceOK'
  BY <1>1, <1>5, <1>6, <1>7 DEF PlaceOK, Serving, InCommit, Ended
<1>9. SessionOK'
  BY <1>1, <1>7, <1>8 DEF SessionOK
<1>10. \A r \in Requests : RequestOK(r)'
  BY <1>1 DEF Inv, RequestOK
<1>11. Typed'
  BY <1>1, <1>7 DEF Inv, Typed, Serving
<1> QED BY <1>3, <1>9, <1>10, <1>11 DEF Inv

-----------------------------------------------------------------------------
(* Training a generation *)

\* An evaluated population: its fitness, and the development values after it.
LEMMA ValuesSplit ==
    ASSUME NEW s \in Seq(Fitness), Len(s) >= Population
    PROVE  /\ SubSeq(s, 1, Population) \in [1..Population -> Fitness]
           /\ \A i \in 1..Population : SubSeq(s, 1, Population)[i] = s[i]
           /\ SubSeq(s, Population + 1, Len(s)) \in Seq(Fitness)
           /\ Len(SubSeq(s, Population + 1, Len(s))) = Len(s) - Population
           /\ \A i \in 1..(Len(s) - Population) :
                 SubSeq(s, Population + 1, Len(s))[i] = s[Population + i]
<1> DEFINE p == Population
           n == Len(s)
           head == SubSeq(s, 1, p)
           tail == SubSeq(s, p + 1, n)
<1>1. p \in Nat /\ n \in Nat /\ p <= n
  BY TrainingAssumption
<1>2. s \in [1..n -> Fitness]
  OBVIOUS
<1> HIDE DEF n, p
<1>3. head \in Seq(Fitness) /\ Len(head) = p /\ \A i \in 1..p : head[i] = s[i]
  BY <1>1, <1>2 DEF n
<1> HIDE DEF head
<1>4. head \in [1..p -> Fitness]
  BY <1>3
<1>5. \A i \in (p + 1)..n : s[i] \in Fitness
  BY <1>1, <1>2
<1>6. Len(tail) = n - p /\ tail = [i \in 1..(n - p) |-> s[p + i]]
  BY <1>1, <1>2
<1>7. \A i \in 1..(n - p) : tail[i] = s[p + i] /\ p + i \in (p + 1)..n
  BY <1>1, <1>6
<1>8. tail \in [1..(n - p) -> Fitness]
  BY <1>5, <1>6, <1>7
<1> HIDE DEF tail
<1>9. tail \in Seq(Fitness)
  <2>1. n - p \in Nat
    BY <1>1
  <2> QED BY <1>8, <2>1
<1> QED BY <1>3, <1>4, <1>6, <1>7, <1>9, Zenon DEF n, p, head, tail

\* The update: the weights are those of the next generation, made from the
\* fitness that was measured around the old ones.
LEMMA UpdateKeepsInv ==
    ASSUME Inv, Update
    PROVE  Inv'
<1>1. Typed /\ SessionOK /\ MemoryOK /\ PlaceOK
  BY DEF Inv, SessionOK, Update
<1> DEFINE u == [fitness |-> SubSeq(values, 1, Population), by |-> arithmetic]
<1>2. /\ pc = "serving" /\ pc' = pc /\ Len(values) = Population /\ weights' = Append(weights, u)
      /\ manifest' = manifest /\ arithmetic' = arithmetic
      /\ values' = values /\ done' = done /\ best' = best /\ faults' = faults
      /\ record' = record /\ rollout' = rollout /\ calls' = calls
      /\ policy' = policy /\ driver' = driver /\ marker' = marker
      /\ summary' = summary /\ receipt' = receipt
  BY DEF Update, NewWeights, requestVars, checkpointVars
<1>3. u \in Updates
  <2>1. SubSeq(values, 1, Population) \in [1..Population -> Fitness]
    BY <1>1, <1>2, ValuesSplit, MemoryTypes, TrainingAssumption
  <2> QED BY <1>1, <2>1 DEF PlaceOK, Updates
<1>4. Len(weights) = Len(done) /\ Len(done) \in Nat /\ weights \in Seq(Updates) /\ Gen = Len(done) + 1
  BY <1>1, MemoryTypes DEF Update, MemoryOK
<1>5. /\ weights' \in Seq(Updates) /\ Len(weights') = Gen /\ weights'[Gen] = u
      /\ Before = weights /\ Before' = weights
  <2>1. Before = weights
    BY <1>4, BeforeType DEF Before
  <2>2. weights' \in Seq(Updates) /\ Len(weights') = Gen /\ weights'[Gen] = u
    BY <1>2, <1>3, <1>4
  <2>3. SubSeq(weights', 1, Len(done)) = weights
    BY <1>2, <1>3, <1>4
  <2> QED BY <1>2, <2>1, <2>2, <2>3 DEF Before
<1> HIDE DEF u
<1>6. Gen' = Gen /\ State' = State
  BY <1>2 DEF Gen, State
<1>7. Kept
  BY <1>2 DEF Kept
<1>8. (\A g \in 0..Generations : FileOK(g))' /\ FinalOK'
  BY <1>2, <1>7, FilesStay DEF Inv, checkpointVars
<1>9. MemoryOK'
  <2>1. \A j \in 1..Len(values) :
            Holds(record, rollout, <<Gen, j>>, values[j], <<Before, arithmetic>>) /\ j <= Population
    <3>1. \A j \in 1..Len(values) : j <= Population
      BY <1>2, TrainingAssumption
    <3> QED BY <1>1, <3>1 DEF MemoryOK
  <2>2. \A j \in 1..Len(values') :
            Holds(record', rollout', <<Gen', j>>, values'[j],
                  IF j <= Population THEN <<Before', arithmetic'>> ELSE <<weights'>>)
    BY <1>2, <1>5, <1>6, <2>1
  <2>3. Trained(record', rollout', Before', State', Len(done'))
    BY <1>1, <1>2, <1>5, <1>6 DEF MemoryOK
  <2>4. /\ Len(done') <= Generations /\ Len(values') <= Population + DevCases
        /\ values' # <<>> => Gen' <= Generations /\ Len(values') <= Slots(Gen')
    BY <1>1, <1>2, <1>6 DEF MemoryOK
  <2>5. weights'[Gen'] = [fitness |-> SubSeq(values', 1, Population), by |-> arithmetic']
    BY <1>2, <1>5, <1>6 DEF u
  <2>6. Len(weights') = Gen' /\ Len(weights') # Len(done') /\ Len(values') >= Population
    BY <1>2, <1>4, <1>5, <1>6, TrainingAssumption
  <2> QED BY <2>2, <2>3, <2>4, <2>5, <2>6, Zenon DEF MemoryOK
<1>10. PlaceOK'
  BY <1>1, <1>2, <1>5, <1>6 DEF PlaceOK, Serving, InCommit, Ended
<1>11. SessionOK'
  BY <1>2, <1>9, <1>10 DEF SessionOK
<1>12. \A r \in Requests : RequestOK(r)'
  BY <1>2 DEF Inv, RequestOK
<1>13. Typed'
  BY <1>1, <1>2, <1>5, <1>6 DEF Typed
<1> QED BY <1>8, <1>11, <1>12, <1>13 DEF Inv

\* One more generation: the best stays the first of the best.
LEMMA ChosenNext ==
    ASSUME NEW d \in Seq(Outcomes), NEW o \in Outcomes, NEW b, Chosen(d, b),
           NEW n, n = Len(d) + 1
    PROVE  Chosen(Append(d, o),
                  IF RunDev(n) /\ (b = NoBest \/ Score(o.dev) > b.score)
                  THEN [generation |-> n, score |-> Score(o.dev)] ELSE b)
<1> DEFINE e == Append(d, o)
<1>1. /\ e \in Seq(Outcomes) /\ Len(e) = n /\ n \in Nat /\ e[n] = o
      /\ \A g \in 1..Len(d) : e[g] = d[g] /\ g < n /\ g \in 1..n
  OBVIOUS
<1> HIDE DEF e
<1>2. /\ \A g \in Scored(d) : g \in Nat /\ g >= 1 /\ g < n /\ e[g] = d[g] /\ Score(d[g].dev) \in Int
      /\ Score(o.dev) \in Int
  <2>1. \A g \in 1..Len(e) : Score(e[g].dev) \in Int
    BY <1>1, OutcomeTypes
  <2>2. \A g \in Scored(d) : g \in 1..Len(d) /\ g \in 1..Len(e)
    BY <1>1 DEF Scored
  <2>3. n \in 1..Len(e)
    BY <1>1
  <2> QED BY <1>1, <2>1, <2>2, <2>3
<1>3. Scored(e) = IF RunDev(n) THEN Scored(d) \cup {n} ELSE Scored(d)
  BY <1>1 DEF Scored
<1>4. b = NoBest <=> Scored(d) = {}
  BY <1>2 DEF Chosen, NoBest
<1>5. CASE ~RunDev(n)
  <2>1. \A g \in Scored(d) : First(d, g) => First(e, g)
    BY <1>2, <1>3, <1>5 DEF First
  <2>2. Chosen(e, b)
    BY <1>2, <1>3, <1>5, <2>1 DEF Chosen
  <2> QED BY <1>5, <2>2 DEF e
<1>6. CASE RunDev(n) /\ Scored(d) = {}
  <2>1. First(e, n) /\ n \in Scored(e)
    BY <1>3, <1>6 DEF First
  <2>2. Chosen(e, [generation |-> n, score |-> Score(o.dev)])
    BY <1>1, <2>1 DEF Chosen
  <2> QED BY <1>4, <1>6, <2>2 DEF e
<1>7. CASE RunDev(n) /\ Scored(d) # {}
  <2>1. PICK g \in Scored(d) : First(d, g) /\ b = [generation |-> g, score |-> Score(d[g].dev)]
    BY <1>7 DEF Chosen
  <2>2. Scored(e) = Scored(d) \cup {n} /\ b # NoBest /\ b.score = Score(d[g].dev)
    BY <1>3, <1>4, <1>7, <2>1
  <2>3. \A h \in Scored(d) : Score(d[h].dev) <= Score(d[g].dev)
    BY <1>2, <2>1 DEF First
  <2>4. CASE Score(o.dev) > b.score
    <3>1. First(e, n)
      BY <1>1, <1>2, <2>2, <2>3, <2>4 DEF First
    <3>2. Chosen(e, [generation |-> n, score |-> Score(o.dev)])
      BY <1>1, <2>2, <3>1 DEF Chosen
    <3> QED BY <1>7, <2>4, <3>2 DEF e
  <2>5. CASE ~(Score(o.dev) > b.score)
    <3>1. First(e, g)
      <4> SUFFICES ASSUME NEW h \in Scored(e) \ {g}
                   PROVE  IF h < g THEN Score(e[h].dev) < Score(e[g].dev)
                                   ELSE Score(e[h].dev) <= Score(e[g].dev)
        BY DEF First
      <4>1. CASE h = n
        BY <1>1, <1>2, <2>1, <2>2, <2>5, <4>1
      <4>2. CASE h # n
        <5>1. h \in Scored(d) \ {g}
          BY <2>2, <4>2
        <5> QED BY <5>1, <1>2, <2>1 DEF First
      <4> QED BY <4>1, <4>2
    <3>2. Chosen(e, b)
      BY <1>2, <2>1, <2>2, <3>1 DEF Chosen
    <3> QED BY <1>7, <2>2, <2>5, <3>2 DEF e
  <2> QED BY <2>4, <2>5
<1> QED BY <1>5, <1>6, <1>7

\* What a session has measured of generation n joins the list.
LEMMA MeasuredNext ==
    ASSUME NEW rec, NEW roll, NEW n \in 1..Generations,
           NEW w \in Seq(Updates), Len(w) = n,
           NEW d \in Seq(Outcomes), Len(d) = n - 1,
           NEW before \in Seq(Updates), before = SubSeq(w, 1, n - 1),
           Measured(rec, roll, before, d, n - 1),
           NEW s \in Seq(Fitness), Len(s) = Slots(n), NEW by,
           w[n] = [fitness |-> SubSeq(s, 1, Population), by |-> by],
           \A j \in 1..Len(s) :
              Holds(rec, roll, <<n, j>>, s[j],
                    IF j <= Population THEN <<before, by>> ELSE <<w>>),
           NEW o, o = [fitness |-> SubSeq(s, 1, Population),
                       dev |-> SubSeq(s, Population + 1, Len(s))]
    PROVE  o \in Outcomes /\ Measured(rec, roll, w, Append(d, o), n)
<1>1. n \in Nat /\ n - 1 \in Nat /\ Population \in Nat /\ n \in 1..n
  BY TrainingAssumption
<1>2. Len(s) \in Nat /\ Population <= Len(s) /\ Len(s) <= Population + DevCases /\ DevCases \in Nat
  BY <1>1, SlotsType, TrainingAssumption
<1>3. /\ o.fitness \in [1..Population -> Fitness]
      /\ \A i \in 1..Population : o.fitness[i] = s[i]
      /\ o.dev \in Seq(Fitness) /\ Len(o.dev) = Len(s) - Population
      /\ \A i \in 1..(Len(s) - Population) : o.dev[i] = s[Population + i]
  BY <1>2, ValuesSplit
<1>4. o \in Outcomes
  <2>1. Len(o.dev) <= DevCases
    BY <1>1, <1>2, <1>3
  <2>2. o.dev \in Measurements(DevCases)
    BY <1>3, <2>1 DEF Measurements
  <2>3. o = [fitness |-> o.fitness, dev |-> o.dev]
    OBVIOUS
  <2> QED BY <1>3, <2>2, <2>3 DEF Outcomes
<1> DEFINE e == Append(d, o)
<1>5. e[n] = o /\ \A k \in 1..(n - 1) : e[k] = d[k]
  BY <1>1, <1>4
<1> HIDE DEF e
<1>6. ASSUME NEW k \in 1..(n - 1)
      PROVE  /\ before[k] = w[k] /\ SubSeq(before, 1, k - 1) = SubSeq(w, 1, k - 1)
             /\ SubSeq(before, 1, k) = SubSeq(w, 1, k)
  BY <1>1
<1>7. SubSeq(w, 1, n) = w
  BY <1>1
<1>8. ASSUME NEW k \in 1..n
      PROVE  /\ e[k].fitness = w[k].fitness /\ Len(e[k].dev) = Slots(k) - Population
             /\ \A i \in 1..Population :
                   Holds(rec, roll, <<k, i>>, w[k].fitness[i], <<SubSeq(w, 1, k - 1), w[k].by>>)
             /\ \A i \in 1..Len(e[k].dev) :
                   Holds(rec, roll, <<k, Population + i>>, e[k].dev[i], <<SubSeq(w, 1, k)>>)
  <2>1. CASE k # n
    <3>1. k \in 1..(n - 1)
      BY <1>1, <2>1
    <3>2. /\ d[k].fitness = before[k].fitness /\ Len(d[k].dev) = Slots(k) - Population
          /\ \A i \in 1..Population :
                Holds(rec, roll, <<k, i>>, before[k].fitness[i], <<SubSeq(before, 1, k - 1), before[k].by>>)
          /\ \A i \in 1..Len(d[k].dev) :
                Holds(rec, roll, <<k, Population + i>>, d[k].dev[i], <<SubSeq(before, 1, k)>>)
      BY <3>1, Zenon DEF Measured
    <3> QED BY <1>5, <1>6, <3>1, <3>2
  <2>2. CASE k = n
    <3>1. e[k] = o /\ w[k].fitness = o.fitness /\ w[k].by = by /\ SubSeq(w, 1, k) = w
          /\ SubSeq(w, 1, k - 1) = before
      BY <1>5, <1>7, <2>2
    <3>2. ASSUME NEW i \in 1..Population
          PROVE  Holds(rec, roll, <<n, i>>, o.fitness[i], <<before, by>>)
      <4>1. i \in 1..Len(s) /\ i <= Population
        BY <1>1, <1>2
      <4> QED BY <1>3, <4>1
    <3>3. ASSUME NEW i \in 1..Len(o.dev)
          PROVE  Holds(rec, roll, <<n, Population + i>>, o.dev[i], <<w>>)
      <4> DEFINE j == Population + i
      <4>1. j \in 1..Len(s) /\ ~(j <= Population) /\ i \in 1..(Len(s) - Population)
        BY <1>1, <1>2, <1>3
      <4>2. o.dev[i] = s[j]
        BY <1>3, <4>1
      <4> HIDE DEF j
      <4>3. Holds(rec, roll, <<n, j>>, s[j], <<w>>)
        BY <4>1
      <4> QED BY <4>2, <4>3 DEF j
    <3>4. Len(o.dev) = Slots(n) - Population
      BY <1>3
    <3> QED BY <2>2, <3>1, <3>2, <3>3, <3>4
  <2> QED BY <2>1, <2>2
<1>9. Measured(rec, roll, w, e, n)
  BY <1>8, Zenon DEF Measured
<1> QED BY <1>4, <1>9 DEF e

LEMMA FinishGenerationKeepsInv ==
    ASSUME Inv, FinishGeneration
    PROVE  Inv'
<1> DEFINE o == [fitness |-> SubSeq(values, 1, Population),
                 dev |-> SubSeq(values, Population + 1, Len(values))]
<1>1. Typed /\ SessionOK /\ MemoryOK /\ PlaceOK
  BY DEF Inv, SessionOK, FinishGeneration
<1>2. /\ pc = "serving" /\ pc' = "policy" /\ Len(weights) = Gen /\ Len(values) = Slots(Gen)
      /\ done' = Append(done, o) /\ values' = <<>> /\ weights' = weights
      /\ manifest' = manifest /\ arithmetic' = arithmetic /\ faults' = faults
      /\ record' = record /\ rollout' = rollout /\ calls' = calls
      /\ policy' = policy /\ driver' = driver /\ marker' = marker
      /\ summary' = summary /\ receipt' = receipt
      /\ best' = IF RunDev(Gen) /\ (best = NoBest \/ Score(o.dev) > best.score)
                 THEN [generation |-> Gen, score |-> Score(o.dev)] ELSE best
  BY DEF FinishGeneration, requestVars, checkpointVars
<1>3. /\ weights \in Seq(Updates) /\ values \in Seq(Fitness) /\ done \in Seq(Outcomes)
      /\ Len(done) \in Nat /\ Gen = Len(done) + 1 /\ Gen \in Nat /\ Len(values) \in Nat
  BY <1>1, MemoryTypes
<1>4. Gen \in 1..Generations
  <2>1. Population <= Len(values) /\ Population # 0 /\ Population \in Nat
    BY <1>2, <1>3, SlotsType, TrainingAssumption
  <2>2. values # <<>>
    BY <2>1
  <2>3. Gen <= Generations
    BY <1>1, <2>2 DEF MemoryOK
  <2> QED BY <1>3, <2>3, TrainingAssumption
<1>5. /\ Trained(record, rollout, Before, State, Len(done))
      /\ \A j \in 1..Len(values) :
            Holds(record, rollout, <<Gen, j>>, values[j],
                  IF j <= Population THEN <<Before, arithmetic>> ELSE <<weights>>)
      /\ weights[Gen] = [fitness |-> SubSeq(values, 1, Population), by |-> arithmetic]
  BY <1>1, <1>2 DEF MemoryOK
<1>6. Before \in Seq(Updates) /\ Before = SubSeq(weights, 1, Gen - 1)
  BY <1>2, <1>3, BeforeType DEF Before
<1>7. Measured(record, rollout, Before, done, Gen - 1) /\ Chosen(done, best) /\ Len(done) = Gen - 1
  BY <1>3, <1>5 DEF Trained, State
<1> HIDE DEF o
<1>8. o \in Outcomes /\ Measured(record, rollout, weights, done', Gen)
  BY <1>2, <1>3, <1>4, <1>5, <1>6, <1>7, MeasuredNext DEF o
<1>9. Chosen(done', best')
  BY <1>2, <1>3, <1>7, <1>8, ChosenNext
<1>10. done' \in Seq(Outcomes) /\ Len(done') = Gen
  BY <1>2, <1>3, <1>8
<1>11. Score(o.dev) \in Int
  <2>1. done'[Gen] = o /\ Gen \in 1..Len(done')
    BY <1>2, <1>3, <1>4, <1>8, <1>10
  <2> QED BY <1>10, <2>1, OutcomeTypes
<1>12. best' \in [generation : 0..Generations, score : Int] /\ best'.generation <= Gen
  <2>1. best \in [generation : 0..Generations, score : Int]
    BY <1>1, MemoryTypes
  <2>2. best.generation <= Len(done)
    BY <1>5 DEF Trained, StateOK, State
  <2>3. CASE best' = best
    BY <1>3, <2>1, <2>2, <2>3
  <2>4. CASE best' = [generation |-> Gen, score |-> Score(o.dev)]
    BY <1>3, <1>4, <1>11, <2>4
  <2> QED BY <1>2, <2>3, <2>4
<1> DEFINE st == [done |-> done', best |-> best']
<1>13. Trained(record', rollout', weights, st, Gen) /\ st.done = done' /\ st.best = best'
  <2>1. StateOK(st, Gen)
    BY <1>10, <1>12 DEF StateOK, States
  <2>2. weights \in History(Gen)
    BY <1>2, <1>3 DEF History
  <2> QED BY <1>2, <1>8, <1>9, <2>1, <2>2 DEF Trained
<1> HIDE DEF st
<1>14. /\ MemoryOK' /\ State' \in States /\ weights' \in Seq(Updates)
       /\ Len(done') = Gen /\ Len(weights') = Gen
  <2>1. Gen \in 0..Generations
    BY <1>4
  <2>2. weights' = weights /\ values' = <<>> /\ done' = st.done /\ best' = st.best
    BY <1>2, <1>13
  <2> QED BY <1>13, <2>1, <2>2, MemoryStarts
<1>15. PlaceOK'
  <2>1. \A g \in 0..Generations : marker'[g] # NoFile <=> g < Len(done')
    <3>1. \A g \in 0..Generations : marker[g] # NoFile <=> g <= Len(done)
      BY <1>1, <1>2 DEF PlaceOK, InCommit
    <3>2. \A g \in 0..Generations : g <= Len(done) <=> g < Len(done')
      BY <1>3, <1>14
    <3>3. marker' = marker
      BY <1>2
    <3> QED BY <3>1, <3>2, <3>3
  <2> QED BY <1>1, <1>2, <1>14, <2>1 DEF PlaceOK, Serving, InCommit, Ended
<1>16. SessionOK'
  BY <1>2, <1>14, <1>15 DEF SessionOK
<1>17. Kept
  BY <1>2 DEF Kept
<1>18. (\A g \in 0..Generations : FileOK(g))' /\ FinalOK'
  BY <1>2, <1>17, FilesStay DEF Inv, checkpointVars
<1>19. \A r \in Requests : RequestOK(r)'
  BY <1>2 DEF Inv, RequestOK
<1>20. Typed'
  BY <1>1, <1>2, <1>14 DEF Typed, InCommit
<1> QED BY <1>16, <1>18, <1>19, <1>20 DEF Inv

-----------------------------------------------------------------------------
(* Committing a generation *)

\* In a commit the memory is that of a finished generation without a marker.
LEMMA CommitState ==
    ASSUME Typed, SessionOK, pc \in InCommit
    PROVE  /\ MemoryOK /\ PlaceOK /\ Len(done) \in 0..Generations
           /\ Before = weights /\ Trained(record, rollout, weights, State, Len(done))
           /\ \A g \in 0..Generations : marker[g] # NoFile <=> g < Len(done)
           /\ marker[Len(done)] = NoFile
<1>1. MemoryOK /\ PlaceOK
  BY DEF SessionOK, InCommit
<1>2. Len(done) \in 0..Generations
  BY <1>1, MemoryTypes, TrainingAssumption DEF MemoryOK
<1>3. Len(weights) = Len(done)
  BY <1>1 DEF PlaceOK, InCommit, Serving
<1>4. Before = weights
  BY <1>3, MemoryTypes, BeforeType DEF Before
<1>5. \A g \in 0..Generations : marker[g] # NoFile <=> g < Len(done)
  BY <1>1 DEF PlaceOK
<1>6. marker[Len(done)] = NoFile
  BY <1>2, <1>5
<1> QED BY <1>1, <1>2, <1>4, <1>5, <1>6 DEF MemoryOK

\* There is no summary before the last marker.
LEMMA NoSummaryInCommit ==
    ASSUME Typed, SessionOK, FinalOK, pc \in InCommit
    PROVE  summary = NoFile /\ receipt = NoFile
<1>1. Len(done) \in 0..Generations /\ \A g \in 0..Generations : marker[g] # NoFile <=> g < Len(done)
  BY CommitState
<1>2. marker[Generations] = NoFile
  BY <1>1, TrainingAssumption
<1> QED BY <1>2 DEF FinalOK

LEMMA CommitPolicyKeepsInv ==
    ASSUME Inv, CommitPolicy
    PROVE  Inv'
<1> DEFINE n == Len(done)
<1>1. /\ Typed /\ SessionOK /\ FinalOK /\ pc = "policy" /\ pc' = "driver"
      /\ policy' = [policy EXCEPT ![n] = weights]
      /\ manifest' = manifest /\ faults' = faults /\ UNCHANGED memory
      /\ record' = record /\ rollout' = rollout /\ calls' = calls
      /\ driver' = driver /\ marker' = marker /\ summary' = summary /\ receipt' = receipt
  BY DEF Inv, CommitPolicy, requestVars
<1>2. /\ weights' = weights /\ values' = values /\ done' = done /\ best' = best
      /\ arithmetic' = arithmetic /\ State' = State /\ Before' = Before
  BY <1>1 DEF memory, State, Before
<1>3. /\ MemoryOK /\ PlaceOK /\ n \in 0..Generations /\ marker[n] = NoFile
      /\ Trained(record, rollout, weights, State, n)
  BY <1>1, CommitState DEF InCommit
<1>4. weights \in History(n) /\ weights \in Seq(Updates)
  BY <1>3 DEF Trained, History
<1> HIDE DEF n
<1>5. /\ policy' \in [0..Generations -> Seq(Updates) \cup {NoFile}] /\ policy'[n] = weights
      /\ \A g \in (0..Generations) \ {n} : policy'[g] = policy[g]
  BY <1>1, <1>3, <1>4 DEF Typed
<1>6. Kept
  BY <1>1 DEF Kept
<1>7. ASSUME NEW g \in 0..Generations
      PROVE  FileOK(g)'
  <2>0. FileOK(g)
    BY DEF Inv
  <2>1. CASE g = n
    BY <1>1, <1>3, <1>4, <1>5, <2>0, <2>1 DEF FileOK
  <2>2. CASE g # n
    <3>1. IsRetired(g)' <=> IsRetired(g)
      BY <1>1 DEF IsRetired
    <3> QED BY <1>1, <1>5, <1>6, <2>0, <2>2, <3>1, FileStays
  <2> QED BY <2>1, <2>2
<1>8. FinalOK'
  BY <1>1 DEF FinalOK
<1>9. MemoryOK'
  BY <1>1, <1>3, <1>6, MemoryStays
<1>10. PlaceOK'
  BY <1>1, <1>2, <1>3, <1>5 DEF PlaceOK, Serving, InCommit, Ended, n
<1>11. SessionOK'
  BY <1>1, <1>9, <1>10 DEF SessionOK
<1>12. \A r \in Requests : RequestOK(r)'
  BY <1>1 DEF Inv, RequestOK
<1>13. Typed'
  BY <1>1, <1>2, <1>5 DEF Typed, InCommit
<1> QED BY <1>7, <1>8, <1>11, <1>12, <1>13 DEF Inv

LEMMA CommitDriverKeepsInv ==
    ASSUME Inv, CommitDriver
    PROVE  Inv'
<1> DEFINE n == Len(done)
<1>1. /\ Typed /\ SessionOK /\ FinalOK /\ pc = "driver" /\ pc' = "marker"
      /\ driver' = [driver EXCEPT ![n] = State]
      /\ manifest' = manifest /\ faults' = faults /\ UNCHANGED memory
      /\ record' = record /\ rollout' = rollout /\ calls' = calls
      /\ policy' = policy /\ marker' = marker /\ summary' = summary /\ receipt' = receipt
  BY DEF Inv, CommitDriver, requestVars
<1>2. /\ weights' = weights /\ values' = values /\ done' = done /\ best' = best
      /\ arithmetic' = arithmetic /\ State' = State /\ Before' = Before
  BY <1>1 DEF memory, State, Before
<1>3. /\ MemoryOK /\ PlaceOK /\ n \in 0..Generations /\ marker[n] = NoFile
      /\ Trained(record, rollout, weights, State, n)
  BY <1>1, CommitState DEF InCommit
<1>4. StateOK(State, n) /\ State \in States
  BY <1>3 DEF Trained, StateOK
<1> HIDE DEF n
<1>5. /\ driver' \in [0..Generations -> States \cup {NoFile}] /\ driver'[n] = State
      /\ \A g \in (0..Generations) \ {n} : driver'[g] = driver[g]
  BY <1>1, <1>3, <1>4 DEF Typed
<1>6. Kept
  BY <1>1 DEF Kept
<1>7. ASSUME NEW g \in 0..Generations
      PROVE  FileOK(g)'
  <2>0. FileOK(g)
    BY DEF Inv
  <2>1. CASE g = n
    <3>1. StateOK(driver'[g], g)
      BY <1>4, <1>5, <2>1
    <3>2. StateOK(driver[g], g)'
      BY <3>1 DEF StateOK
    <3> QED BY <1>1, <1>3, <2>0, <2>1, <3>2 DEF FileOK
  <2>2. CASE g # n
    <3>1. IsRetired(g)' <=> IsRetired(g)
      BY <1>1 DEF IsRetired
    <3> QED BY <1>1, <1>5, <1>6, <2>0, <2>2, <3>1, FileStays
  <2> QED BY <2>1, <2>2
<1>8. FinalOK'
  BY <1>1 DEF FinalOK
<1>9. MemoryOK'
  BY <1>1, <1>3, <1>6, MemoryStays
<1>10. PlaceOK'
  BY <1>1, <1>2, <1>3, <1>5 DEF PlaceOK, Serving, InCommit, Ended, n
<1>11. SessionOK'
  BY <1>1, <1>9, <1>10 DEF SessionOK
<1>12. \A r \in Requests : RequestOK(r)'
  BY <1>1 DEF Inv, RequestOK
<1>13. Typed'
  BY <1>1, <1>2, <1>5 DEF Typed, InCommit
<1> QED BY <1>7, <1>8, <1>11, <1>12, <1>13 DEF Inv

\* The marker: what it commits is what the session has trained.
LEMMA CommitMarkerKeepsInv ==
    ASSUME Inv, CommitMarker
    PROVE  Inv'
<1> DEFINE n == Len(done)
           new == [policy |-> weights, driver |-> State]
<1>1. /\ Typed /\ SessionOK /\ FinalOK /\ pc = "marker" /\ pc' = "serving"
      /\ marker' = [marker EXCEPT ![n] = [policy |-> policy[n], driver |-> driver[n]]]
      /\ manifest' = manifest /\ faults' = faults /\ UNCHANGED memory
      /\ record' = record /\ rollout' = rollout /\ calls' = calls
      /\ policy' = policy /\ driver' = driver /\ summary' = summary /\ receipt' = receipt
  BY DEF Inv, CommitMarker, requestVars
<1>2. /\ weights' = weights /\ values' = values /\ done' = done /\ best' = best
      /\ arithmetic' = arithmetic /\ State' = State /\ Before' = Before
  BY <1>1 DEF memory, State, Before
<1>3. /\ MemoryOK /\ PlaceOK /\ n \in 0..Generations /\ marker[n] = NoFile /\ Before = weights
      /\ Trained(record, rollout, weights, State, n)
      /\ \A g \in 0..Generations : marker[g] # NoFile <=> g < n
  BY <1>1, CommitState DEF InCommit
<1>4. policy[n] = weights /\ driver[n] = State /\ manifest
  BY <1>1, <1>3 DEF PlaceOK
<1>5. new \in Markers /\ new # NoFile /\ new.policy = weights /\ new.driver = State
  <2>1. weights \in Seq(Updates) /\ State \in States
    BY <1>1 DEF Typed
  <2> QED BY <2>1, TrainingAssumption DEF Markers
<1> HIDE DEF n
<1>6. /\ marker' \in [0..Generations -> Markers \cup {NoFile}] /\ marker'[n] = new
      /\ \A g \in (0..Generations) \ {n} : marker'[g] = marker[g]
  BY <1>1, <1>3, <1>4, <1>5 DEF Typed
<1> HIDE DEF new
<1>7. n \in Int /\ \A g \in 0..Generations : marker'[g] # NoFile <=> g <= n
  BY <1>3, <1>5, <1>6, TrainingAssumption
<1>8. Kept
  BY <1>1 DEF Kept
<1>9. ASSUME NEW g \in 0..Generations
      PROVE  FileOK(g)'
  <2>0. FileOK(g)
    BY DEF Inv
  <2>1. CASE g = n
    <3>1. FilesMatch(g)'
      BY <1>1, <1>4, <1>5, <1>6, <2>1 DEF FilesMatch
    <3>2. Trained(record', rollout', marker'[g].policy, marker'[g].driver, g)
      BY <1>1, <1>3, <1>5, <1>6, <2>1
    <3>3. \A h \in 0..g : marker'[h] # NoFile
      <4>1. \A h \in 0..g : h \in 0..Generations /\ h <= n
        BY <1>7, <2>1, TrainingAssumption
      <4> QED BY <1>7, <4>1
    <3> QED BY <1>1, <1>4, <2>0, <3>1, <3>2, <3>3 DEF FileOK
  <2>2. CASE g # n
    <3>1. IsRetired(g)' <=> IsRetired(g)
      BY <1>1 DEF IsRetired
    <3>2. \A h \in 0..g : marker[h] # NoFile => marker'[h] # NoFile
      <4>1. \A h \in 0..g : h \in 0..Generations /\ h \in Int
        BY TrainingAssumption
      <4> QED BY <1>3, <1>7, <4>1
    <3> QED BY <1>1, <1>6, <1>8, <2>0, <2>2, <3>1, <3>2, FileStays
  <2> QED BY <2>1, <2>2
<1>10. FinalOK'
  <2>1. summary' = NoFile /\ receipt' = NoFile
    BY <1>1, NoSummaryInCommit DEF InCommit
  <2> QED BY <2>1 DEF FinalOK
<1>11. MemoryOK'
  BY <1>1, <1>3, <1>8, MemoryStays
<1>12. PlaceOK'
  <2>1. marker'[Len(done')] = [policy |-> Before', driver |-> State']
    BY <1>2, <1>3, <1>6 DEF n, new
  <2>2. \A g \in 0..Generations : marker'[g] # NoFile <=> g <= Len(done')
    BY <1>2, <1>7 DEF n
  <2> QED BY <1>1, <1>2, <1>3, <2>1, <2>2 DEF PlaceOK, Serving, InCommit, Ended
<1>13. SessionOK'
  BY <1>1, <1>11, <1>12 DEF SessionOK
<1>14. \A r \in Requests : RequestOK(r)'
  BY <1>1 DEF Inv, RequestOK
<1>15. Typed'
  BY <1>1, <1>2, <1>6 DEF Typed, Serving
<1> QED BY <1>9, <1>10, <1>13, <1>14, <1>15 DEF Inv

-----------------------------------------------------------------------------
(* Finishing and retiring *)

\* When all generations are done, the memory is that of the last marker.
LEMMA FinalState ==
    ASSUME Typed, SessionOK, pc # "down", pc \notin InCommit, Len(done) = Generations
    PROVE  /\ MemoryOK /\ PlaceOK /\ values = <<>> /\ Len(weights) = Len(done)
           /\ marker[Generations] = [policy |-> weights, driver |-> State]
           /\ Trained(record, rollout, weights, State, Generations)
<1>1. MemoryOK /\ PlaceOK
  BY DEF SessionOK
<1>2. Gen = Generations + 1 /\ Generations \in Nat /\ Population \in Nat \ {0}
  BY TrainingAssumption DEF Gen
<1>3. values = <<>>
  <2>1. values # <<>> => Gen <= Generations
    BY <1>1, Zenon DEF MemoryOK
  <2> QED BY <1>2, <2>1
<1>4. Len(weights) = Len(done)
  BY <1>1, <1>2, <1>3 DEF MemoryOK
<1>5. Before = weights
  BY <1>4, MemoryTypes, BeforeType DEF Before
<1>6. marker[Generations] = [policy |-> weights, driver |-> State]
  BY <1>1, <1>5 DEF PlaceOK
<1> QED BY <1>1, <1>3, <1>4, <1>5, <1>6 DEF MemoryOK

\* Whoever publishes publishes the same summary.
LEMMA FinishKeepsInv ==
    ASSUME Inv, Finish
    PROVE  Inv'
<1> DEFINE new == [best |-> best.generation, final |-> weights]
<1>1. /\ Typed /\ SessionOK /\ FinalOK /\ pc = "serving" /\ pc' = "finished"
      /\ Len(done) = Generations /\ best # NoBest /\ summary' = new
      /\ \A r \in Requests : record[r].status = "complete"
      /\ manifest' = manifest /\ faults' = faults /\ UNCHANGED memory
      /\ record' = record /\ rollout' = rollout /\ calls' = calls
      /\ policy' = policy /\ driver' = driver /\ marker' = marker /\ receipt' = receipt
  BY DEF Inv, Finish, requestVars, checkpointVars
<1>2. /\ weights' = weights /\ values' = values /\ done' = done /\ best' = best
      /\ arithmetic' = arithmetic /\ State' = State /\ Before' = Before
  BY <1>1 DEF memory, State, Before
<1>3. /\ MemoryOK /\ PlaceOK /\ values = <<>> /\ Len(weights) = Len(done)
      /\ marker[Generations] = [policy |-> weights, driver |-> State]
      /\ Trained(record, rollout, weights, State, Generations)
  BY <1>1, FinalState DEF InCommit
<1>4. best.generation # 0 /\ best.generation \in 0..Generations
  <2>1. Chosen(done, best)
    BY <1>3 DEF Trained, State
  <2>2. \A g \in Scored(done) : g # 0
    BY <1>1, MemoryTypes DEF Scored
  <2> QED BY <1>1, <2>1, <2>2, MemoryTypes DEF Chosen
<1>5. new \in Summaries /\ new # NoFile /\ new.best = best.generation /\ new.final = weights
  BY <1>1, <1>4, MemoryTypes, TrainingAssumption DEF Summaries
<1>6. /\ marker[Generations].policy = weights /\ marker[Generations].driver = State
      /\ State.best = best /\ marker[Generations] # NoFile
  <2>1. Generations \in 0..Generations /\ Generations <= Len(done)
    BY <1>1, TrainingAssumption
  <2>2. marker[Generations] # NoFile
    BY <1>1, <1>3, <2>1 DEF PlaceOK, InCommit
  <2> QED BY <1>3, <2>2 DEF State
<1>7. summary # NoFile => summary = new
  <2>1. summary # NoFile => summary \in Summaries /\ summary.best = best.generation /\ summary.final = weights
    BY <1>1, <1>6 DEF Typed, FinalOK
  <2> QED BY <2>1 DEF Summaries
<1> HIDE DEF new
<1>8. Kept
  BY <1>1 DEF Kept
<1>9. ASSUME NEW g \in 0..Generations
      PROVE  FileOK(g)'
  <2>0. FileOK(g)
    BY DEF Inv
  <2>1. IsRetired(g) => IsRetired(g)'
    BY <1>1, <1>7 DEF IsRetired
  <2> QED BY <1>1, <1>8, <2>0, <2>1, FileStays
<1>10. FinalOK'
  <2>1. receipt # NoFile => summary = new
    BY <1>1, <1>7 DEF FinalOK
  <2> QED BY <1>1, <1>4, <1>5, <1>6, <2>1 DEF FinalOK
<1>11. MemoryOK'
  BY <1>1, <1>3, <1>8, MemoryStays
<1>12. PlaceOK'
  BY <1>1, <1>2, <1>3, <1>5 DEF PlaceOK, Serving, InCommit, Ended
<1>13. SessionOK'
  BY <1>1, <1>11, <1>12 DEF SessionOK
<1>14. \A r \in Requests : RequestOK(r)'
  BY <1>1 DEF Inv, RequestOK
<1>15. Typed'
  BY <1>1, <1>2, <1>5 DEF Typed, Ended
<1> QED BY <1>9, <1>10, <1>13, <1>14, <1>15 DEF Inv

\* The place of a session that goes on ending.
LEMMA EndedPlace ==
    ASSUME Typed, SessionOK, pc \in Ended, pc' = "retiring", receipt' # NoFile,
           UNCHANGED <<manifest, marker, summary, memory>>
    PROVE  PlaceOK'
<1>1. PlaceOK
  BY DEF SessionOK, Ended
<1>2. /\ weights' = weights /\ values' = values /\ done' = done /\ best' = best
      /\ arithmetic' = arithmetic /\ State' = State /\ Before' = Before
  BY DEF memory, State, Before
<1> QED BY <1>1, <1>2 DEF PlaceOK, Serving, InCommit, Ended

LEMMA RetireKeepsInv ==
    ASSUME Inv, Retire
    PROVE  Inv'
<1> DEFINE removable == (0..Generations) \ Retained(summary.best)
           new == [best |-> summary.best, retired |-> removable]
<1>1. /\ Typed /\ SessionOK /\ FinalOK /\ pc = "finished" /\ pc' = "retiring"
      /\ \/ receipt = NoFile /\ receipt' = new
         \/ receipt # NoFile /\ receipt' = receipt
      /\ manifest' = manifest /\ faults' = faults /\ UNCHANGED memory
      /\ record' = record /\ rollout' = rollout /\ calls' = calls /\ summary' = summary
      /\ policy' = policy /\ driver' = driver /\ marker' = marker
  BY DEF Inv, Retire, requestVars, checkpointVars
<1>2. MemoryOK /\ PlaceOK /\ summary # NoFile /\ summary.best \in 0..Generations
  BY <1>1 DEF SessionOK, PlaceOK, Ended, Typed, Summaries
<1>3. new \in Receipts /\ new # NoFile /\ new.best = summary.best /\ new.retired = removable
  BY <1>2, TrainingAssumption DEF Receipts
<1> HIDE DEF new
<1>4. Kept /\ State' = State /\ weights' = weights /\ values' = values
  BY <1>1 DEF Kept, memory, State
<1>5. ASSUME NEW g \in 0..Generations
      PROVE  FileOK(g)'
  <2>0. FileOK(g)
    BY DEF Inv
  <2>1. IsRetired(g) => IsRetired(g)'
    BY <1>1 DEF IsRetired
  <2> QED BY <1>1, <1>4, <2>0, <2>1, FileStays
<1>6. FinalOK'
  BY <1>1, <1>2, <1>3 DEF FinalOK
<1>7. MemoryOK'
  BY <1>1, <1>2, <1>4, MemoryStays
<1>8. PlaceOK'
  BY <1>1, <1>3, EndedPlace DEF Ended
<1>9. SessionOK'
  BY <1>1, <1>7, <1>8 DEF SessionOK
<1>10. \A r \in Requests : RequestOK(r)'
  BY <1>1 DEF Inv, RequestOK
<1>11. receipt' \in Receipts \cup {NoFile}
  BY <1>1, <1>3 DEF Typed
<1>12. Typed'
  BY <1>1, <1>4, <1>11 DEF Typed, Ended
<1> QED BY <1>5, <1>6, <1>9, <1>10, <1>12 DEF Inv

\* Only policies that the receipt excuses are unlinked.
LEMMA UnlinkKeepsInv ==
    ASSUME Inv, Unlink
    PROVE  Inv'
<1>1. /\ Typed /\ SessionOK /\ FinalOK /\ pc = "retiring" /\ pc' = pc
      /\ manifest' = manifest /\ faults' = faults /\ UNCHANGED memory
      /\ record' = record /\ rollout' = rollout /\ calls' = calls /\ summary' = summary
      /\ driver' = driver /\ marker' = marker /\ receipt' = receipt
  BY DEF Inv, Unlink, requestVars
<1>2. PICK n \in Redundant : policy' = [policy EXCEPT ![n] = NoFile]
  BY DEF Unlink
<1>3. MemoryOK /\ PlaceOK /\ summary # NoFile /\ receipt # NoFile
  BY <1>1 DEF SessionOK, PlaceOK, Ended
<1>4. n \in 0..Generations /\ IsRetired(n)
  BY <1>1, <1>2, <1>3 DEF Redundant, FinalOK, IsRetired
<1>5. /\ policy' \in [0..Generations -> Seq(Updates) \cup {NoFile}] /\ policy'[n] = NoFile
      /\ \A g \in (0..Generations) \ {n} : policy'[g] = policy[g]
  BY <1>1, <1>2, <1>4 DEF Typed
<1>6. Kept /\ State' = State /\ weights' = weights /\ values' = values
  BY <1>1 DEF Kept, memory, State
<1>7. ASSUME NEW g \in 0..Generations
      PROVE  FileOK(g)'
  <2>0. FileOK(g)
    BY DEF Inv
  <2>1. IsRetired(g)' <=> IsRetired(g)
    BY <1>1 DEF IsRetired
  <2>2. CASE g = n
    <3>1. FilesMatch(g) => FilesMatch(g)'
      BY <1>1, <1>4, <1>5, <2>1, <2>2 DEF FilesMatch
    <3>2. marker[g] # NoFile =>
            /\ FilesMatch(g)'
            /\ Trained(record', rollout', marker'[g].policy, marker'[g].driver, g)
            /\ \A h \in 0..g : marker'[h] # NoFile
      BY <1>1, <2>0, <3>1 DEF FileOK
    <3> QED BY <1>1, <1>5, <2>0, <2>2, <3>2 DEF FileOK
  <2>3. CASE g # n
    BY <1>1, <1>5, <1>6, <2>0, <2>1, <2>3, FileStays
  <2> QED BY <2>2, <2>3
<1>8. FinalOK'
  BY <1>1 DEF FinalOK
<1>9. MemoryOK'
  BY <1>1, <1>3, <1>6, MemoryStays
<1>10. PlaceOK'
  BY <1>1, <1>3, EndedPlace DEF Ended
<1>11. SessionOK'
  BY <1>1, <1>9, <1>10 DEF SessionOK
<1>12. \A r \in Requests : RequestOK(r)'
  BY <1>1 DEF Inv, RequestOK
<1>13. Typed'
  BY <1>1, <1>5, <1>6 DEF Typed
<1> QED BY <1>7, <1>8, <1>11, <1>12, <1>13 DEF Inv

-----------------------------------------------------------------------------
(* Every behaviour *)

LEMMA InitInv ==
    ASSUME Init
    PROVE  Inv
<1>1. State = [done |-> <<>>, best |-> NoBest] /\ <<>> \in Stamps /\ <<>> \in Seq(Updates)
  BY DEF Init, State, Stamps
<1>2. State \in States
  <2>1. <<>> \in Seq(Outcomes) /\ NoBest \in [generation : 0..Generations, score : Int]
    BY TrainingAssumption DEF NoBest
  <2> QED BY <1>1, <2>1 DEF States
<1>3. [status |-> "none", stamp |-> <<>>] \in Records
  BY <1>1 DEF Records
<1>4. Typed
  <2>1. /\ manifest = FALSE /\ summary = NoFile /\ receipt = NoFile /\ pc = "down"
        /\ weights = <<>> /\ values = <<>> /\ faults = 0
        /\ record = [r \in Requests |-> [status |-> "none", stamp |-> <<>>]]
        /\ rollout = [r \in Requests |-> NoFile] /\ calls = [r \in Requests |-> 0]
        /\ policy = [g \in 0..Generations |-> NoFile]
        /\ driver = [g \in 0..Generations |-> NoFile]
        /\ marker = [g \in 0..Generations |-> NoFile]
    BY DEF Init
  <2>2. /\ record \in [Requests -> Records] /\ rollout \in [Requests -> Fitness \cup {NoFile, Partial}]
        /\ calls \in [Requests -> Nat]
    BY <1>3, <2>1
  <2>3. /\ policy \in [0..Generations -> Seq(Updates) \cup {NoFile}]
        /\ driver \in [0..Generations -> States \cup {NoFile}]
        /\ marker \in [0..Generations -> Markers \cup {NoFile}]
    BY <2>1
  <2>4. faults \in 0..MaxFaults
    BY <2>1, TrainingAssumption
  <2>5. weights \in Seq(Updates) /\ values \in Seq(Fitness)
    BY <1>1, <2>1
  <2> QED BY <1>2, <2>1, <2>2, <2>3, <2>4, <2>5 DEF Typed
<1>5. \A r \in Requests : RequestOK(r)
  BY DEF Init, RequestOK
<1>6. \A g \in 0..Generations : FileOK(g)
  BY DEF Init, FileOK
<1>7. FinalOK /\ SessionOK
  BY DEF Init, FinalOK, SessionOK
<1> QED BY <1>4, <1>5, <1>6, <1>7 DEF Inv

LEMMA StutterKeepsInv ==
    ASSUME Inv, UNCHANGED vars
    PROVE  Inv'
<1>1. /\ record' = record /\ rollout' = rollout /\ calls' = calls /\ manifest' = manifest
      /\ policy' = policy /\ driver' = driver /\ marker' = marker
      /\ summary' = summary /\ receipt' = receipt /\ pc' = pc /\ faults' = faults
      /\ UNCHANGED memory
  BY DEF vars, requestVars, checkpointVars
<1>2. Kept /\ State' = State /\ weights' = weights /\ values' = values /\ done' = done /\ best' = best
      /\ arithmetic' = arithmetic
  BY <1>1 DEF Kept, memory, State
<1>3. \A r \in Requests : RequestOK(r)'
  BY <1>1 DEF Inv, RequestOK
<1>4. Typed /\ SessionOK
  BY DEF Inv
<1>5. Gen' = Gen /\ Due' = Due /\ Stamp' = Stamp /\ Before' = Before
  BY <1>2 DEF Gen, Due, Stamp, Before
<1>6. pc # "down" => MemoryOK'
  BY <1>1, <1>2, <1>4, MemoryStays DEF SessionOK
<1>7. PlaceOK => PlaceOK'
  BY <1>1, <1>2, <1>5 DEF PlaceOK
<1>8. SessionOK'
  BY <1>1, <1>2, <1>4, <1>6, <1>7 DEF SessionOK
<1> QED BY <1>1, <1>2, <1>3, <1>4, <1>8, ServingKeeps DEF Typed, checkpointVars

LEMMA NextKeepsInv ==
    ASSUME Inv, [Next]_vars
    PROVE  Inv'
<1>1. CASE Begin
  BY <1>1, BeginKeepsInv
<1>2. CASE Resume
  BY <1>2, ResumeKeepsInv
<1>3. CASE Refuse \/ UNCHANGED vars
  BY <1>3, StutterKeepsInv DEF Refuse
<1>4. CASE Evaluating
  BY <1>4, ReuseKeepsInv, RecoverKeepsInv, LeavingActionsKeepInv, StartRequestKeepsInv,
     ExecuteKeepsInv, FinishRolloutKeepsInv, CompleteKeepsInv DEF Evaluating
<1>5. CASE Committing
  BY <1>5, UpdateKeepsInv, FinishGenerationKeepsInv, CommitPolicyKeepsInv,
     CommitDriverKeepsInv, CommitMarkerKeepsInv DEF Committing
<1>6. CASE Finish
  BY <1>6, FinishKeepsInv
<1>7. CASE Retiring
  BY <1>7, RetireKeepsInv, UnlinkKeepsInv, LeavingActionsKeepInv DEF Retiring
<1>8. CASE Raise
  BY <1>8, RaiseKeepsInv
<1>9. CASE Crash
  BY <1>9, LeavingActionsKeepInv
<1>10. CASE \E r \in Requests : Reconcile(r)
  BY <1>10, ReconcileKeepsInv
<1> QED BY <1>1, <1>2, <1>3, <1>4, <1>5, <1>6, <1>7, <1>8, <1>9, <1>10 DEF Next, Session

\* The invariant holds throughout, whatever sessions die or raise where.
THEOREM TrainingKeepsInv == Spec => []Inv
<1>1. Init => Inv
  BY InitInv
<1>2. Inv /\ [Next]_vars => Inv'
  BY NextKeepsInv
<1> QED BY <1>1, <1>2, PTL DEF Spec

-----------------------------------------------------------------------------
(* Consequences *)

LEMMA InvTypeOK ==
    ASSUME Inv
    PROVE  TypeOK
<1>1. Typed /\ SessionOK
  BY DEF Inv
<1>2. \A r \in Requests :
        /\ record[r].status \in {"none", "started", "unknown", "complete"}
        /\ rollout[r] \in Fitness \cup {NoFile, Partial} /\ calls[r] \in Nat
  BY <1>1 DEF Typed, Records
<1>3. \A g \in 0..Generations :
        /\ policy[g] = NoFile \/ policy[g] \in History(g)
        /\ driver[g] = NoFile \/ StateOK(driver[g], g)
        /\ marker[g] = NoFile \/ (marker[g].policy \in History(g) /\ StateOK(marker[g].driver, g))
  <2> TAKE g \in 0..Generations
  <2>1. FileOK(g)
    BY DEF Inv
  <2> QED BY <2>1, Zenon DEF FileOK, Trained
<1>4. /\ Len(done) <= Generations /\ StateOK(State, Len(done))
      /\ weights \in History(Len(done)) \/ weights \in History(Gen)
      /\ values \in Measurements(Population + DevCases)
  <2>1. CASE pc = "down"
    <3>1. weights = <<>> /\ values = <<>> /\ done = <<>> /\ best = NoBest
      BY <1>1, <2>1 DEF SessionOK
    <3>2. StateOK(State, Len(done))
      BY <1>1, <3>1 DEF StateOK, State, NoBest, Typed
    <3>3. weights \in History(Len(done))
      BY <3>1 DEF History
    <3>4. values \in Measurements(Population + DevCases)
      BY <3>1, TrainingAssumption DEF Measurements
    <3> QED BY <3>1, <3>2, <3>3, <3>4, TrainingAssumption
  <2>2. CASE pc # "down"
    <3>1. MemoryOK
      BY <1>1, <2>2 DEF SessionOK
    <3>2. weights \in History(Len(done)) \/ weights \in History(Gen)
      BY <1>1, <3>1, MemoryTypes DEF MemoryOK, History
    <3>3. values \in Measurements(Population + DevCases)
      BY <1>1, <3>1, MemoryTypes DEF MemoryOK, Measurements
    <3> QED BY <3>1, <3>2, <3>3 DEF MemoryOK, Trained
  <2> QED BY <2>1, <2>2
<1> QED
  BY <1>1, <1>2, <1>3, <1>4, Zenon DEF TypeOK, Typed, Serving, InCommit, Ended

\* For every number of generations, candidates, development cases and faults:
\* the types are kept, and wherever a session died, what is committed is what
\* _load_committed accepts.
THEOREM AlwaysResumable == Spec => []ResumeAccepted
<1>1. Inv => ResumeAccepted
  <2> SUFFICES ASSUME Inv
               PROVE  ResumeAccepted
    OBVIOUS
  <2>1. Committed # {} => Loadable
    BY CommittedLoads DEF Inv
  <2> QED BY <2>1, InvTypeOK DEF ResumeAccepted
<1> QED BY <1>1, TrainingKeepsInv, PTL

LEMMA InvHistoryIsMeasured ==
    ASSUME Inv
    PROVE  HistoryIsMeasured
<1> SUFFICES ASSUME NEW g \in Committed, NEW k \in 1..g
             PROVE  LET history == marker[g].policy
                        before == SubSeq(history, 1, k - 1)
                        dev == marker[g].driver.done[k].dev
                        Measured1(i, value, stamp) ==
                            /\ record[<<k, i>>] = [status |-> "complete", stamp |-> stamp]
                            /\ rollout[<<k, i>>] = value
                    IN  /\ \A i \in 1..Population :
                            Measured1(i, history[k].fitness[i], <<before, history[k].by>>)
                        /\ \A i \in 1..Len(dev) :
                            Measured1(Population + i, dev[i], <<SubSeq(history, 1, k)>>)
  BY DEF HistoryIsMeasured
<1>1. Measured(record, rollout, marker[g].policy, marker[g].driver.done, g)
  BY DEF Inv, FileOK, Committed, Trained
<1> QED BY <1>1 DEF Measured, Holds

\* Every number in a committed history is the value of a complete record, made
\* for exactly the weights the history says.
THEOREM EveryNumberMeasured == Spec => []HistoryIsMeasured
BY TrainingKeepsInv, InvHistoryIsMeasured, PTL

LEMMA InvSelectionStays ==
    ASSUME Inv
    PROVE  SelectionStays
<1> SUFFICES ASSUME summary # NoFile
             PROVE  LET Dev(g) == Score([i \in 1..DevCases |-> rollout[<<g, Population + i>>]])
                    IN  /\ RunDev(summary.best)
                        /\ \A g \in 1..Generations : RunDev(g) => Dev(g) <= Dev(summary.best)
                        /\ \A g \in {summary.best, Generations} : policy[g] = marker[g].policy
  BY Zenon DEF SelectionStays
<1> DEFINE m == marker[Generations]
           d == m.driver.done
           b == summary.best
           Dev(g) == Score([i \in 1..DevCases |-> rollout[<<g, Population + i>>]])
<1>1. Typed /\ FinalOK /\ \A g \in 0..Generations : FileOK(g)
  BY DEF Inv
<1>2. Generations \in Nat /\ Generations \in 0..Generations /\ DevCases \in Nat \ {0} /\ Population \in Nat
  BY TrainingAssumption
<1>3. m # NoFile /\ b = m.driver.best.generation /\ b # 0
  BY <1>1 DEF FinalOK
<1>4. /\ Measured(record, rollout, m.policy, d, Generations) /\ Chosen(d, m.driver.best)
      /\ d \in Seq(Outcomes) /\ Len(d) = Generations
  BY <1>1, <1>2, <1>3 DEF FileOK, Trained, StateOK, States
<1> HIDE DEF d, b
<1>5. ASSUME NEW g \in 1..Generations, RunDev(g)
      PROVE  d[g].dev = [i \in 1..DevCases |-> rollout[<<g, Population + i>>]]
  <2>1. d[g].dev \in Seq(Fitness)
    BY <1>4, OutcomeTypes
  <2>2. Len(d[g].dev) = Slots(g) - Population
    BY <1>4, Zenon DEF Measured
  <2>3. Slots(g) - Population = DevCases
    BY <1>5, SlotsType
  <2>4. \A i \in 1..Len(d[g].dev) : rollout[<<g, Population + i>>] = d[g].dev[i]
    BY <1>4, Zenon DEF Measured, Holds
  <2> DEFINE s == d[g].dev
  <2>5. s \in Seq(Fitness) /\ Len(s) = DevCases
    BY <2>1, <2>2, <2>3
  <2>6. \A i \in 1..DevCases : s[i] = rollout[<<g, Population + i>>]
    BY <2>2, <2>3, <2>4
  <2> HIDE DEF s
  <2>7. s = [i \in 1..DevCases |-> s[i]]
    BY <2>5
  <2> QED BY <2>6, <2>7 DEF s
<1>6. Scored(d) # {}
  <2>1. Scored(d) = {} => m.driver.best = NoBest
    BY <1>4 DEF Chosen
  <2>2. NoBest.generation = 0
    BY DEF NoBest
  <2> QED BY <1>3, <2>1, <2>2 DEF b
<1>7. PICK g \in Scored(d) : First(d, g) /\ m.driver.best = [generation |-> g, score |-> Score(d[g].dev)]
  BY <1>4, <1>6 DEF Chosen
<1>8. b = g /\ b \in 1..Generations /\ RunDev(b)
  BY <1>3, <1>4, <1>7 DEF Scored
<1>9. ASSUME NEW h \in 1..Generations, RunDev(h)
      PROVE  Score(d[h].dev) <= Score(d[b].dev)
  <2>1. h \in Scored(d) /\ h \in 1..Len(d) /\ b \in 1..Len(d)
    BY <1>4, <1>8, <1>9 DEF Scored
  <2>2. Score(d[h].dev) \in Int /\ Score(d[b].dev) \in Int
    BY <1>4, <2>1, OutcomeTypes
  <2> QED BY <1>7, <1>8, <2>1, <2>2 DEF First
<1>10. \A h \in 1..Generations : RunDev(h) => Dev(h) <= Dev(b)
  BY <1>5, <1>8, <1>9
<1>11. ASSUME NEW h \in {b, Generations}
       PROVE  policy[h] = marker[h].policy
  <2>1. h \in 0..Generations
    BY <1>2, <1>8
  <2>2. marker[h] # NoFile
    BY <1>1, <1>2, <1>3, <2>1 DEF FileOK
  <2>3. ~IsRetired(h)
    BY <1>1, <2>1, RetiredIsPast DEF b
  <2> QED BY <1>1, <2>1, <2>2, <2>3 DEF FileOK, FilesMatch
<1> QED BY <1>8, <1>10, <1>11 DEF b

\* The summary names a generation whose development score, by the receipts of
\* the rollouts, no other exceeds; its policy and the last one stay.
THEOREM SelectionHolds == Spec => []SelectionStays
BY TrainingKeepsInv, InvSelectionStays, PTL

-----------------------------------------------------------------------------
(* The refinement of JobAcceptance *)

PhaseOfRequests == [r \in Requests |-> Phase(r)]

\* One request moves on, and no summary appears.
Moves(r, from, to) ==
    /\ r \in Requests
    /\ PhaseOfRequests[r] = from /\ PhaseOfRequests' = [PhaseOfRequests EXCEPT ![r] = to]
    /\ summary' = summary

LEMMA MovesOne ==
    ASSUME NEW r \in Requests, NEW to, Phase(r)' = to, summary' = summary,
           \A q \in Requests \ {r} : record'[q] = record[q] /\ rollout'[q] = rollout[q]
    PROVE  Moves(r, Phase(r), to)
<1>1. \A q \in Requests \ {r} : Phase(q)' = Phase(q)
  BY DEF Phase
<1> QED BY <1>1 DEF Moves, PhaseOfRequests

LEMMA PhasesStay ==
    ASSUME UNCHANGED <<record, rollout>>
    PROVE  PhaseOfRequests' = PhaseOfRequests
<1>1. \A q \in Requests : Phase(q)' = Phase(q)
  BY DEF Phase
<1> QED BY <1>1 DEF PhaseOfRequests

\* What a step may do to the phases, the calls and the summary.
PromiseStep ==
    \/ UNCHANGED <<PhaseOfRequests, calls, summary>>
    \/ /\ \A r \in Requests : PhaseOfRequests[r] = "accepted"
       /\ summary' # NoFile /\ UNCHANGED <<PhaseOfRequests, calls>>
    \/ \E r \in Requests :
          /\ calls' = calls
          /\ \/ Moves(r, "open", "reserved")
             \/ Moves(r, "spent", "evidenced")
             \/ Moves(r, "evidenced", "accepted")
    \/ \E r \in Requests : Moves(r, "reserved", "spent") /\ calls' = [calls EXCEPT ![r] = @ + 1]

LEMMA EvaluatingStep ==
    ASSUME Inv, Evaluating
    PROVE  PromiseStep
<1>1. Typed /\ SessionOK
  BY DEF Inv
<1>2. CASE Reuse \/ HaltRequest
  <2>1. record' = record /\ rollout' = rollout /\ calls' = calls /\ summary' = summary
    BY <1>2 DEF Reuse, HaltRequest, requestVars
  <2> QED BY <2>1, PhasesStay DEF PromiseStep
<1>3. CASE Recover \/ Complete
  <2>1. Due \in Requests
    BY <1>1, <1>3, PendingSession, DueStamp DEF Recover, Complete
  <2>2. record[Due].status \in {"started", "unknown"} /\ rollout[Due] \in Fitness
    BY <1>1, <1>3 DEF Recover, Complete, Recoverable, SessionOK, PlaceOK
  <2>3. SetStatus(Due, "complete") /\ "complete" \in Statuses
    BY <1>3 DEF Recover, Complete, Statuses
  <2>4. /\ record'[Due] = [status |-> "complete", stamp |-> record[Due].stamp]
        /\ \A q \in Requests \ {Due} : record'[q] = record[q]
    BY <1>1, <2>1, <2>3, StatusSet
  <2>5. rollout' = rollout /\ calls' = calls /\ summary' = summary
    BY <1>3 DEF Recover, Complete
  <2>6. PICK r \in Requests : r = Due
    BY <2>1
  <2>7. Phase(r) = "evidenced" /\ Phase(r)' = "accepted"
    BY <2>2, <2>4, <2>5, <2>6, TrainingAssumption DEF Phase
  <2>8. Moves(r, "evidenced", "accepted")
    BY <2>4, <2>5, <2>6, <2>7, MovesOne
  <2> QED BY <2>5, <2>8 DEF PromiseStep
<1>4. CASE StartRequest
  <2>1. Due \in Requests
    BY <1>1, <1>4, PendingSession, DueStamp DEF StartRequest
  <2>2. PICK r \in Requests : r = Due
    BY <2>1
  <2>3. /\ record[r].status = "none" /\ rollout[r] = NoFile
        /\ record' = [record EXCEPT ![r] = [status |-> "started", stamp |-> Stamp]]
        /\ rollout' = rollout /\ calls' = calls /\ summary' = summary
    BY <1>4, <2>2 DEF StartRequest, Inv, RequestOK
  <2>4. record'[r].status = "started" /\ \A q \in Requests \ {r} : record'[q] = record[q]
    BY <1>1, <2>3 DEF Typed
  <2>5. Phase(r) = "open" /\ Phase(r)' = "reserved"
    BY <2>3, <2>4 DEF Phase
  <2>6. Moves(r, "open", "reserved")
    BY <2>3, <2>4, <2>5, MovesOne
  <2> QED BY <2>3, <2>6 DEF PromiseStep
<1>5. CASE Execute \/ FinishRollout
  <2>1. Due \in Requests
    BY <1>1, <1>5, PendingSession, DueStamp DEF Execute, FinishRollout
  <2>2. PICK r \in Requests : r = Due
    BY <2>1
  <2>3. record[r].status = "started" /\ record' = record /\ summary' = summary
    BY <1>1, <1>5, <2>2 DEF Execute, FinishRollout, SessionOK, PlaceOK
  <2>4. CASE Execute
    <3>1. /\ rollout[r] = NoFile /\ rollout' = [rollout EXCEPT ![r] = Partial]
          /\ calls' = [calls EXCEPT ![r] = @ + 1]
      BY <2>2, <2>4 DEF Execute
    <3>2. rollout'[r] = Partial /\ \A q \in Requests \ {r} : rollout'[q] = rollout[q]
      BY <1>1, <3>1 DEF Typed
    <3>3. Phase(r) = "reserved" /\ Phase(r)' = "spent"
      BY <2>3, <3>1, <3>2, TrainingAssumption DEF Phase
    <3>4. Moves(r, "reserved", "spent")
      BY <2>3, <3>2, <3>3, MovesOne
    <3> QED BY <3>1, <3>4 DEF PromiseStep
  <2>5. CASE FinishRollout
    <3>1. PICK v \in Fitness : rollout' = [rollout EXCEPT ![r] = v]
      BY <2>2, <2>5 DEF FinishRollout
    <3>2. rollout'[r] = v /\ \A q \in Requests \ {r} : rollout'[q] = rollout[q]
      BY <1>1, <3>1 DEF Typed
    <3>3. rollout[r] = Partial /\ calls' = calls
      BY <1>1, <2>2, <2>5 DEF FinishRollout, SessionOK, PlaceOK
    <3>4. Phase(r) = "spent" /\ Phase(r)' = "evidenced"
      BY <2>3, <3>2, <3>3, TrainingAssumption DEF Phase
    <3>5. Moves(r, "spent", "evidenced")
      BY <2>3, <3>2, <3>4, MovesOne
    <3> QED BY <3>3, <3>5 DEF PromiseStep
  <2> QED BY <1>5, <2>4, <2>5
<1> QED BY <1>2, <1>3, <1>4, <1>5 DEF Evaluating

LEMMA ReconcileStep ==
    ASSUME Inv, NEW r \in Requests, Reconcile(r)
    PROVE  PromiseStep
<1>1. /\ Typed /\ record[r].status \in {"started", "unknown"} /\ rollout[r] \in Fitness
      /\ SetStatus(r, "complete") /\ "complete" \in Statuses
      /\ rollout' = rollout /\ calls' = calls /\ summary' = summary
  BY DEF Inv, Reconcile, Statuses
<1>2. /\ record'[r] = [status |-> "complete", stamp |-> record[r].stamp]
      /\ \A q \in Requests \ {r} : record'[q] = record[q]
  BY <1>1, StatusSet
<1>3. Phase(r) = "evidenced" /\ Phase(r)' = "accepted"
  BY <1>1, <1>2, TrainingAssumption DEF Phase
<1>4. Moves(r, "evidenced", "accepted")
  BY <1>1, <1>2, <1>3, MovesOne
<1> QED BY <1>1, <1>4 DEF PromiseStep

\* An exception makes the outcome unknown, but spends and returns nothing.
LEMMA RaiseStep ==
    ASSUME Inv, Raise
    PROVE  PromiseStep
<1>1. Typed /\ SessionOK /\ Pending /\ PlaceOK
  BY PendingSession DEF Inv, Raise, SessionOK, Pending
<1>2. Due \in Requests /\ record[Due].status = "started"
  BY <1>1, DueStamp DEF Raise, PlaceOK
<1>3. /\ SetStatus(Due, "unknown") /\ "unknown" \in Statuses
      /\ rollout' = rollout /\ calls' = calls /\ summary' = summary
  BY DEF Raise, Statuses
<1>4. /\ record'[Due] = [status |-> "unknown", stamp |-> record[Due].stamp]
      /\ \A q \in Requests \ {Due} : record'[q] = record[q]
  BY <1>1, <1>2, <1>3, StatusSet
<1>5. ASSUME NEW r \in Requests
      PROVE  Phase(r)' = Phase(r)
  <2>1. CASE record'[r] = record[r]
    BY <1>3, <2>1 DEF Phase
  <2>2. CASE record[r].status = "started" /\ record'[r].status = "unknown"
    BY <1>3, <2>2 DEF Phase
  <2> QED BY <1>2, <1>4, <2>1, <2>2
<1>6. PhaseOfRequests' = PhaseOfRequests
  BY <1>5 DEF PhaseOfRequests
<1> QED BY <1>3, <1>6 DEF PromiseStep

LEMMA FinishStep ==
    ASSUME Inv, Finish
    PROVE  PromiseStep
<1>1. /\ record' = record /\ rollout' = rollout /\ calls' = calls
      /\ \A r \in Requests : record[r].status = "complete"
  BY DEF Finish, requestVars
<1>2. \A r \in Requests : PhaseOfRequests[r] = "accepted"
  BY <1>1 DEF PhaseOfRequests, Phase
<1>3. summary' # NoFile
  <2>1. Inv' /\ pc' = "finished"
    BY FinishKeepsInv DEF Finish
  <2> QED BY <2>1 DEF Inv, SessionOK, PlaceOK, Ended
<1> QED BY <1>1, <1>2, <1>3, PhasesStay DEF PromiseStep

LEMMA OtherSteps ==
    ASSUME Begin \/ Resume \/ Refuse \/ Committing \/ Retiring \/ Crash \/ UNCHANGED vars
    PROVE  PromiseStep
<1>1. record' = record /\ rollout' = rollout /\ calls' = calls /\ summary' = summary
  BY DEF Begin, Resume, Refuse, Committing, Update, FinishGeneration, CommitPolicy, CommitDriver,
         CommitMarker, Retiring, Retire, Unlink, FinishRetirement, Crash, vars, requestVars
<1> QED BY <1>1, PhasesStay DEF PromiseStep

LEMMA PromiseInit ==
    ASSUME Init
    PROVE  Promise!Init
<1>1. \A r \in Requests : Phase(r) = "open"
  BY DEF Init, Phase
<1> QED BY <1>1 DEF Init, Promise!Init

LEMMA PromiseNext ==
    ASSUME PromiseStep
    PROVE  [Promise!Next]_Promise!vars
<1> DEFINE f == PhaseOfRequests
           g == [r \in Requests |-> Phase(r)]
<1>1. f = g /\ f' = g'
  BY DEF PhaseOfRequests
<1>2. CASE UNCHANGED <<PhaseOfRequests, calls, summary>>
  BY <1>1, <1>2 DEF Promise!vars
<1>3. CASE /\ \A r \in Requests : PhaseOfRequests[r] = "accepted"
           /\ summary' # NoFile /\ UNCHANGED <<PhaseOfRequests, calls>>
  BY <1>1, <1>3 DEF Promise!Next, Promise!Publish
<1>4. ASSUME NEW r \in Requests, calls' = calls,
             \/ Moves(r, "open", "reserved")
             \/ Moves(r, "spent", "evidenced")
             \/ Moves(r, "evidenced", "accepted")
      PROVE  Promise!Next
  BY <1>1, <1>4 DEF Promise!Next, Promise!Reserve, Promise!Evidence, Promise!Accept, Promise!Move, Moves
<1>5. ASSUME NEW r \in Requests, Moves(r, "reserved", "spent"), calls' = [calls EXCEPT ![r] = @ + 1]
      PROVE  Promise!Next
  BY <1>1, <1>5 DEF Promise!Next, Promise!Execute, Promise!Move, Moves
<1> QED BY <1>2, <1>3, <1>4, <1>5 DEF PromiseStep

\* Training implements JobAcceptance: a request is reserved before its one
\* evaluation, accepted from its receipt, and the summary waits for them all.
THEOREM Refinement == Spec => KeepsPromise
<1>1. Inv /\ [Next]_vars => [Promise!Next]_Promise!vars
  <2> SUFFICES ASSUME Inv, [Next]_vars
               PROVE  PromiseStep
    BY PromiseNext
  <2> QED
    BY EvaluatingStep, ReconcileStep, RaiseStep, FinishStep, OtherSteps DEF Next, Session
<1> QED BY <1>1, PromiseInit, TrainingKeepsInv, PTL DEF Spec, KeepsPromise, Promise!Spec

=============================================================================
