------------------------- MODULE BudgetSweepProofs -------------------------
(***************************************************************************)
(* Proofs about BudgetSweep for every set of actors and jobs and every     *)
(* bound on faults.  All of them rest on one inductive invariant, IInv: who *)
(* holds which job, how far each job has come, what a search of the jobs   *)
(* has seen, what the aggregator knows, whom the execution lock excludes,  *)
(* and how many jobs are lost.                                             *)
(***************************************************************************)
EXTENDS BudgetSweep, FiniteSetTheorems, TLAPS

Owning == {"claim_returned"} \cup Executing

\* A job directory is held by the one live actor that created it, and until
\* the trajectory starts nothing has been attempted in it.
HoldersInv ==
    /\ \A a \in Actors : pc[a] \in Holding => target[a] \in reserved
    /\ \A a, b \in Actors :
          a # b /\ pc[a] \in Holding /\ pc[b] \in Holding => target[a] # target[b]
    /\ \A a \in Actors : pc[a] \in Owning => job[a] = target[a]
    /\ \A a \in Actors : pc[a] \in {"failing", "recording"} => job[a] \in Jobs

\* attempt tells how often the job was started; a receipt needs the result.
AttemptInv ==
    /\ \A a \in Actors :
          pc[a] \in Reserving \cup {"claim_returned"} => attempt[target[a]] = "absent"
    /\ \A a \in Actors : pc[a] = "running" => attempt[target[a]] = "partial"
    /\ \A a \in Actors :
          pc[a] \in {"resulted", "receipting", "finished"} => attempt[target[a]] = "result"
    /\ \A j \in Jobs : rollouts[j] = IF attempt[j] = "absent" THEN 0 ELSE 1
    /\ \A j \in Jobs : attempt[j] # "absent" => j \in reserved
    /\ \A j \in receipt : attempt[j] = "result"

\* What an actor no longer tries was reserved before, and an actor that waits
\* has tried everything.
SearchInv ==
    /\ \A a \in Actors : pc[a] = "scanning" => Jobs \ scan[a] \subseteq reserved
    /\ DrainedMeansReserved
    /\ B50AfterB30

\* What a pass has accepted has a receipt, and documents count only that.
AggregateInv ==
    /\ aggPc \in {"verify", "receipting"} =>
          aggJob \in Jobs /\ attempt[aggJob] = "result"
    /\ aggDone \subseteq receipt
    /\ aggPc = "accept" => aggDone = Jobs
    /\ \A b \in reports \cap Budgets : JobsOf(b) \subseteq receipt
    /\ 10 \in reports \/ accepted # {} => Jobs \subseteq receipt

\* Between aggregator and actors only the lock stands: the job the aggregator
\* has locked is claimed and no actor executes it, and as long as nothing
\* failed every temporary file belongs to a process that is writing it.
Writes(p, j) ==
    \/ p \in Actors /\ pc[p] = "receipting" /\ job[p] = j
    \/ p = Aggregator /\ aggPc = "receipting" /\ aggJob = j

ExclusionInv ==
    /\ aggPc \in {"verify", "receipting"} => claim[aggJob] \in Actors /\ LockFree(aggJob)
    /\ \A a \in Actors : pc[a] \in {"failing", "recording"} => faults # 0
    /\ faults = 0 => \A j \in Jobs : \A p \in temps[j] : Writes(p, j)

LossInv == IsFiniteSet(Lost) /\ LossBound

IInv ==
    /\ TypeOK /\ HoldersInv /\ AttemptInv /\ SearchInv
    /\ AggregateInv /\ ExclusionInv /\ LossInv

-----------------------------------------------------------------------------
(***************************************************************************)
(* Each part holds initially and is preserved by every step                *)
(***************************************************************************)

LEMMA InitIInv == Init => IInv
<1> SUFFICES ASSUME Init PROVE IInv
  OBVIOUS
<1> USE ConstantsAssumption DEF Init
<1>1. TypeOK
  BY DEF TypeOK, ActorPcs
<1>2. HoldersInv
  BY DEF HoldersInv, Holding, Reserving, Executing, Owning
<1>3. AttemptInv
  BY DEF AttemptInv, Reserving
<1>4. SearchInv
  BY DEF SearchInv, DrainedMeansReserved, B50AfterB30
<1>5. AggregateInv
  BY DEF AggregateInv
<1>6. ExclusionInv
  BY DEF ExclusionInv
<1>7. LossInv
  <2>1. Lost = {}
    BY DEF Lost
  <2> QED BY <2>1, FS_EmptySet DEF LossInv, LossBound
<1> QED BY <1>1, <1>2, <1>3, <1>4, <1>5, <1>6, <1>7 DEF IInv

\* An aggregator pass, in all its steps, leaves the actors and the evidence
\* of the jobs alone; it only adds receipts.
AggAction == AggStep \/ AggCrash

LEMMA AggLeavesActors ==
    AggAction => UNCHANGED <<reserved, claim, attempt, failure, invoked, prior, pc, locals, rollouts>>
<1> USE DEF AggEnd, AggAccepted, AggVisit, jobFiles, outcomes, sweepFiles, aggVars, ghosts
<1>1. AggStart => UNCHANGED <<reserved, claim, attempt, failure, invoked, prior, pc, locals, rollouts>>
  BY DEF AggStart
<1>2. ASSUME NEW j \in Jobs, AggMissing(j) \/ AggBadClaim(j) \/ AggLock(j)
      PROVE  UNCHANGED <<reserved, claim, attempt, failure, invoked, prior, pc, locals, rollouts>>
  BY <1>2 DEF AggMissing, AggBadClaim, AggLock
<1>3. AggBadEnvelope \/ AggWriteReceipt \/ AggRenameReceipt \/ AggKeepReceipt
          => UNCHANGED <<reserved, claim, attempt, failure, invoked, prior, pc, locals, rollouts>>
  BY DEF AggBadEnvelope, AggWriteReceipt, AggRenameReceipt, AggKeepReceipt
<1>4. AggBudgetReports \/ AggIncomplete \/ AggReport \/ AggAccept \/ AggCrash
          => UNCHANGED <<reserved, claim, attempt, failure, invoked, prior, pc, locals, rollouts>>
  BY DEF AggBudgetReports, AggIncomplete, AggReport, AggAccept, AggCrash
<1> QED BY <1>1, <1>2, <1>3, <1>4 DEF AggAction, AggStep

\* No two actors hold one job: only Reserve makes a holder, of a directory
\* that did not exist, and every other step keeps or ends the holding.
LEMMA HoldersStep == IInv /\ [Next]_vars => HoldersInv'
<1> SUFFICES ASSUME IInv, [Next]_vars PROVE HoldersInv'
  OBVIOUS
<1> USE ConstantsAssumption DEF IInv, TypeOK, HoldersInv, Reserving,
   Executing, Holding, Guarded, Owning
<1> USE DEF jobFiles, outcomes, sweepFiles, locals, aggVars, ghosts, Goto
\* Nobody becomes a holder.
<1>1. ASSUME NEW a \in Actors, Start(a) \/ Launch(a) \/ SkipReserved(a) \/
   NoJobLeft(a)
      PROVE  HoldersInv'
  BY <1>1 DEF Start, Launch, SkipReserved, NoJobLeft, CanReserve, NextToTry
\* The new holder has a directory nobody held.
<1>2. ASSUME NEW a \in Actors, Reserve(a) PROVE HoldersInv'
  <2>1. PICK j \in Jobs : j \notin reserved /\ reserved' = reserved \cup {j}
                          /\ target' = [target EXCEPT ![a] = j]
    BY <1>2 DEF Reserve, NextToTry, CanReserve
  <2>2. \A b \in Actors \ {a} : pc[b] \in Holding => target[b] # j
    BY <2>1
  <2> QED BY <1>2, <2>1, <2>2 DEF Reserve
\* The holder goes on.
<1>3. ASSUME NEW a \in Actors, OpenClaim(a) \/ WriteClaim(a) \/ ReturnClaim(a)
      PROVE  HoldersInv'
  BY <1>3 DEF OpenClaim, WriteClaim, ReturnClaim
<1>4. ASSUME NEW a \in Actors, StartRollout(a) \/ WriteResult(a) \/
   WriteReceipt(a) \/ RenameReceipt(a)
      PROVE  HoldersInv'
  BY <1>4 DEF StartRollout, WriteResult, WriteReceipt, RenameReceipt
\* The holder gives up.
<1>5. ASSUME NEW a \in Actors, ReleaseExecution(a) PROVE HoldersInv'
  BY <1>5 DEF ReleaseExecution
<1>6. ASSUME NEW a \in Actors, EndWait(a) PROVE HoldersInv'
  BY <1>6 DEF EndWait, Exit
<1>7. ASSUME NEW a \in Actors, WriteFailure(a) \/ RenameFailure(a)
      PROVE  HoldersInv'
  BY <1>7 DEF WriteFailure, RenameFailure, Exit
<1>8. ASSUME NEW a \in Actors, Raise(a) PROVE HoldersInv'
  BY <1>8 DEF Raise, Exit, RecordsFailure
<1>9. ASSUME NEW a \in Actors, Crash(a) PROVE HoldersInv'
  BY <1>9 DEF Crash, Exit
<1>10. CASE AggAction \/ PriorCompletes
  BY <1>10, AggLeavesActors DEF PriorCompletes
<1>11. CASE UNCHANGED vars
  BY <1>11 DEF vars
<1>12. QED
  BY <1>1, <1>2, <1>3, <1>4, <1>5, <1>6, <1>7, <1>8, <1>9, <1>10, <1>11 DEF
     Next, ActorStep, AggAction, AggStep

\* A job is started only by its holder and only from the absent state; no
\* other actor touches its attempt.
LEMMA AttemptStep == IInv /\ [Next]_vars => AttemptInv'
<1> SUFFICES ASSUME IInv, [Next]_vars PROVE AttemptInv'
  OBVIOUS
<1> USE ConstantsAssumption DEF IInv, TypeOK, HoldersInv, AttemptInv,
   Reserving, Executing, Holding, Guarded, Owning
<1> USE DEF jobFiles, outcomes, sweepFiles, locals, aggVars, ghosts, Goto
\* No attempt changes and nobody takes a directory.
<1>1. ASSUME NEW a \in Actors, Start(a) \/ Launch(a) \/ SkipReserved(a) \/
   NoJobLeft(a)
      PROVE  AttemptInv'
  BY <1>1 DEF Start, Launch, SkipReserved, NoJobLeft, CanReserve, NextToTry
\* A directory that did not exist holds no attempt.
<1>2. ASSUME NEW a \in Actors, Reserve(a) PROVE AttemptInv'
  <2>1. PICK j \in Jobs : j \notin reserved /\ reserved' = reserved \cup {j}
                          /\ target' = [target EXCEPT ![a] = j]
    BY <1>2 DEF Reserve, NextToTry, CanReserve
  <2>2. attempt[j] = "absent"
    BY <2>1
  <2> QED BY <1>2, <2>1, <2>2 DEF Reserve
<1>3. ASSUME NEW a \in Actors, OpenClaim(a) \/ WriteClaim(a) \/ ReturnClaim(a)
      PROVE  AttemptInv'
  BY <1>3 DEF OpenClaim, WriteClaim, ReturnClaim
\* The one start of a job: from absent, where the count is still 0.
<1>4. ASSUME NEW a \in Actors, StartRollout(a) PROVE AttemptInv'
  <2>1. job[a] = target[a] /\ target[a] \in reserved /\ attempt[target[a]] = "absent"
    BY <1>4 DEF StartRollout
  <2>2. rollouts[target[a]] = 0
    BY <2>1
  <2>3. \A b \in Actors \ {a} : pc[b] \in Holding => target[b] # target[a]
    BY <1>4 DEF StartRollout
  <2> QED BY <1>4, <2>1, <2>2, <2>3 DEF StartRollout
<1>5. ASSUME NEW a \in Actors, WriteResult(a) PROVE AttemptInv'
  BY <1>5 DEF WriteResult
<1>6. ASSUME NEW a \in Actors, WriteReceipt(a) \/ RenameReceipt(a) \/
   ReleaseExecution(a)
      PROVE  AttemptInv'
  BY <1>6 DEF WriteReceipt, RenameReceipt, ReleaseExecution
<1>7. ASSUME NEW a \in Actors, EndWait(a) \/ WriteFailure(a) \/
   RenameFailure(a)
      PROVE  AttemptInv'
  BY <1>7 DEF EndWait, WriteFailure, RenameFailure, Exit
<1>8. ASSUME NEW a \in Actors, Raise(a) PROVE AttemptInv'
  BY <1>8 DEF Raise, Exit, RecordsFailure
<1>9. ASSUME NEW a \in Actors, Crash(a) PROVE AttemptInv'
  BY <1>9 DEF Crash, Exit
<1>10. CASE AggRenameReceipt
  BY <1>10, AggLeavesActors DEF AggRenameReceipt, AggAction, AggStep, AggregateInv
<1>11. CASE (AggAction /\ receipt' = receipt) \/ PriorCompletes
  BY <1>11, AggLeavesActors DEF PriorCompletes
<1>12. ASSUME AggAction, ~AggRenameReceipt PROVE receipt' = receipt
  BY <1>12 DEF AggAction, AggStep, AggStart, AggMissing, AggBadClaim, AggLock, AggBadEnvelope,
     AggWriteReceipt, AggKeepReceipt, AggBudgetReports, AggIncomplete, AggReport,
     AggAccept, AggCrash
<1>13. CASE UNCHANGED vars
  BY <1>13 DEF vars
<1>14. QED
  BY <1>1, <1>2, <1>3, <1>4, <1>5, <1>6, <1>7, <1>8, <1>9, <1>10, <1>11,
     <1>12, <1>13 DEF Next, ActorStep, AggAction, AggStep

\* The search: what is removed from the list is reserved, and Reserve takes a
\* job of the smallest budget in the list.
LEMMA SearchStep == IInv /\ [Next]_vars => SearchInv'
<1> SUFFICES ASSUME IInv, [Next]_vars PROVE SearchInv'
  OBVIOUS
<1> USE ConstantsAssumption DEF IInv, TypeOK, SearchInv, DrainedMeansReserved,
   B50AfterB30, Reserving, Executing, Holding, Guarded, Owning
<1> USE DEF jobFiles, outcomes, sweepFiles, locals, aggVars, ghosts, Goto
<1>1. ASSUME NEW a \in Actors, Start(a) \/ Launch(a) \/ SkipReserved(a)
      PROVE  SearchInv'
  BY <1>1 DEF Start, Launch, SkipReserved, CanReserve, NextToTry
\* A B50 job is reserved only when the list, and so the rest, has no B30 job.
<1>2. ASSUME NEW a \in Actors, Reserve(a) PROVE SearchInv'
  <2>1. PICK j \in NextToTry(a) : reserved' = reserved \cup {j}
    BY <1>2 DEF Reserve
  <2>2. ASSUME JobBudget[j] = 50 PROVE JobsOf(30) \subseteq reserved
    <3>1. \A k \in scan[a] : JobBudget[k] # 30
      BY <2>1, <2>2 DEF NextToTry, Precedes
    <3>2. Jobs \ scan[a] \subseteq reserved
      BY <1>2 DEF Reserve
    <3> QED BY <3>1, <3>2 DEF JobsOf
  <2>3. B50AfterB30'
    BY <2>1, <2>2 DEF JobsOf
  <2>4. DrainedMeansReserved'
    BY <1>2, <2>1 DEF Reserve, NextToTry
  <2>5. \A b \in Actors : pc'[b] = "scanning" => Jobs \ scan'[b] \subseteq reserved'
    BY <1>2, <2>1 DEF Reserve
  <2> QED BY <2>3, <2>4, <2>5
<1>3. ASSUME NEW a \in Actors, OpenClaim(a) \/ WriteClaim(a) \/ ReturnClaim(a)
      PROVE  SearchInv'
  BY <1>3 DEF OpenClaim, WriteClaim, ReturnClaim
\* The list is empty: every job is reserved.
<1>4. ASSUME NEW a \in Actors, NoJobLeft(a) PROVE SearchInv'
  <2>1. Jobs \ {} \subseteq reserved /\ reserved \subseteq Jobs
    BY <1>4 DEF NoJobLeft
  <2>2. B50AfterB30' /\ DrainedMeansReserved'
    BY <1>4, <2>1 DEF NoJobLeft, JobsOf
  <2>3. \A b \in Actors : pc'[b] = "scanning" => Jobs \ scan'[b] \subseteq reserved'
    BY <1>4, <2>1 DEF NoJobLeft
  <2> QED BY <2>2, <2>3
<1>5. ASSUME NEW a \in Actors, StartRollout(a) \/ WriteResult(a) \/
   WriteReceipt(a) \/ RenameReceipt(a)
      PROVE  SearchInv'
  BY <1>5 DEF StartRollout, WriteResult, WriteReceipt, RenameReceipt
<1>6. ASSUME NEW a \in Actors, ReleaseExecution(a) \/ EndWait(a) \/
   WriteFailure(a) \/ RenameFailure(a)
      PROVE  SearchInv'
  BY <1>6 DEF ReleaseExecution, EndWait, WriteFailure, RenameFailure, Exit
<1>7. ASSUME NEW a \in Actors, Raise(a) PROVE SearchInv'
  BY <1>7 DEF Raise, Exit, RecordsFailure
<1>8. ASSUME NEW a \in Actors, Crash(a) PROVE SearchInv'
  BY <1>8 DEF Crash, Exit
<1>9. CASE AggAction \/ PriorCompletes
  BY <1>9, AggLeavesActors DEF PriorCompletes
<1>10. CASE UNCHANGED vars
  BY <1>10 DEF vars
<1>11. QED
  BY <1>1, <1>2, <1>3, <1>4, <1>5, <1>6, <1>7, <1>8, <1>9, <1>10 DEF Next,
     ActorStep, AggAction, AggStep

\* A pass: it accepts a job only with its receipt, and publishes only what it
\* has accepted; results and receipts never go away.
LEMMA AggregateStep == IInv /\ [Next]_vars => AggregateInv'
<1> SUFFICES ASSUME IInv, [Next]_vars PROVE AggregateInv'
  OBVIOUS
<1> USE ConstantsAssumption DEF IInv, TypeOK, HoldersInv, AttemptInv,
   AggregateInv, Budgets, JobsOf, Reserving, Executing, Holding, Guarded,
   Owning
<1> USE DEF jobFiles, outcomes, sweepFiles, locals, aggVars, ghosts, Goto
<1>1. ASSUME NEW a \in Actors, Start(a) \/ Launch(a) \/ SkipReserved(a) \/
   Reserve(a) \/ NoJobLeft(a)
      PROVE  AggregateInv'
  BY <1>1 DEF Start, Launch, SkipReserved, Reserve, NoJobLeft, CanReserve,
     NextToTry
<1>2. ASSUME NEW a \in Actors, OpenClaim(a) \/ WriteClaim(a) \/ ReturnClaim(a)
      PROVE  AggregateInv'
  BY <1>2 DEF OpenClaim, WriteClaim, ReturnClaim
<1>3. ASSUME NEW a \in Actors, StartRollout(a) PROVE AggregateInv'
  BY <1>3 DEF StartRollout
<1>4. ASSUME NEW a \in Actors, WriteResult(a) PROVE AggregateInv'
  BY <1>4 DEF WriteResult
<1>5. ASSUME NEW a \in Actors, WriteReceipt(a) \/ RenameReceipt(a) \/
   ReleaseExecution(a)
      PROVE  AggregateInv'
  BY <1>5 DEF WriteReceipt, RenameReceipt, ReleaseExecution
<1>6. ASSUME NEW a \in Actors, EndWait(a) \/ WriteFailure(a) \/
   RenameFailure(a)
      PROVE  AggregateInv'
  BY <1>6 DEF EndWait, WriteFailure, RenameFailure, Exit
<1>7. ASSUME NEW a \in Actors, Raise(a) PROVE AggregateInv'
  BY <1>7 DEF Raise, Exit, RecordsFailure
<1>8. ASSUME NEW a \in Actors, Crash(a) PROVE AggregateInv'
  BY <1>8 DEF Crash, Exit
<1>9. CASE AggStart
  BY <1>9 DEF AggStart
<1>10. ASSUME NEW j \in Jobs, AggMissing(j) \/ AggLock(j) PROVE AggregateInv'
  BY <1>10 DEF AggMissing, AggLock, AggVisit
<1>11. ASSUME NEW j \in Jobs, AggBadClaim(j) PROVE AggregateInv'
  BY <1>11 DEF AggBadClaim, AggEnd
<1>12. CASE AggBadEnvelope \/ AggIncomplete
  BY <1>12 DEF AggBadEnvelope, AggIncomplete, AggEnd
<1>13. CASE AggWriteReceipt
  BY <1>13 DEF AggWriteReceipt
<1>14. CASE AggRenameReceipt \/ AggKeepReceipt
  BY <1>14 DEF AggRenameReceipt, AggKeepReceipt, AggAccepted
<1>15. CASE AggBudgetReports
  BY <1>15 DEF AggBudgetReports, BudgetComplete
<1>16. CASE AggReport
  BY <1>16 DEF AggReport, MayReport
<1>17. CASE AggAccept
  BY <1>17 DEF AggAccept, AggEnd
<1>18. CASE AggCrash
  BY <1>18 DEF AggCrash, AggEnd
<1>19. CASE PriorCompletes
  BY <1>19 DEF PriorCompletes
<1>20. CASE UNCHANGED vars
  BY <1>20 DEF vars
<1>21. QED
  BY <1>1, <1>2, <1>3, <1>4, <1>5, <1>6, <1>7, <1>8, <1>9, <1>10, <1>11,
     <1>12, <1>13, <1>14, <1>15, <1>16, <1>17, <1>18, <1>19, <1>20 DEF Next,
     ActorStep, AggAction, AggStep

\* Types: a receipt or a failure record is written only for a job the process
\* holds or held.
LEMMA TypeStep == IInv /\ [Next]_vars => TypeOK'
<1> SUFFICES ASSUME IInv, [Next]_vars PROVE TypeOK'
  OBVIOUS
<1> USE ConstantsAssumption DEF IInv, TypeOK, HoldersInv, ActorPcs, Reserving,
   Executing, Holding, Guarded, Owning
<1> USE DEF jobFiles, outcomes, sweepFiles, locals, aggVars, ghosts, Goto
<1>1. ASSUME NEW a \in Actors, Start(a) PROVE TypeOK'
  BY <1>1 DEF Start
<1>2. ASSUME NEW a \in Actors, Launch(a) PROVE TypeOK'
  BY <1>2 DEF Launch
<1>3. ASSUME NEW a \in Actors, SkipReserved(a) PROVE TypeOK'
  BY <1>3 DEF SkipReserved, CanReserve, NextToTry
<1>4. ASSUME NEW a \in Actors, NoJobLeft(a) PROVE TypeOK'
  BY <1>4 DEF NoJobLeft
<1>5. ASSUME NEW a \in Actors, Reserve(a) PROVE TypeOK'
  BY <1>5 DEF Reserve, NextToTry
<1>6. ASSUME NEW a \in Actors, OpenClaim(a) PROVE TypeOK'
  BY <1>6 DEF OpenClaim
<1>7. ASSUME NEW a \in Actors, WriteClaim(a) PROVE TypeOK'
  BY <1>7 DEF WriteClaim
<1>8. ASSUME NEW a \in Actors, ReturnClaim(a) PROVE TypeOK'
  BY <1>8 DEF ReturnClaim
<1>9. ASSUME NEW a \in Actors, StartRollout(a) PROVE TypeOK'
  BY <1>9 DEF StartRollout
<1>10. ASSUME NEW a \in Actors, WriteResult(a) PROVE TypeOK'
  BY <1>10 DEF WriteResult
<1>11. ASSUME NEW a \in Actors, WriteReceipt(a) PROVE TypeOK'
  BY <1>11 DEF WriteReceipt
<1>12. ASSUME NEW a \in Actors, RenameReceipt(a) PROVE TypeOK'
  BY <1>12 DEF RenameReceipt
<1>13. ASSUME NEW a \in Actors, ReleaseExecution(a) PROVE TypeOK'
  BY <1>13 DEF ReleaseExecution
<1>14. ASSUME NEW a \in Actors, EndWait(a) PROVE TypeOK'
  BY <1>14 DEF EndWait, Exit
<1>15. ASSUME NEW a \in Actors, WriteFailure(a) PROVE TypeOK'
  BY <1>15 DEF WriteFailure
<1>16. ASSUME NEW a \in Actors, RenameFailure(a) PROVE TypeOK'
  BY <1>16 DEF RenameFailure, Exit
<1>17. ASSUME NEW a \in Actors, Raise(a) PROVE TypeOK'
  BY <1>17 DEF Raise, Exit, RecordsFailure
<1>18. ASSUME NEW a \in Actors, Crash(a) PROVE TypeOK'
  BY <1>18 DEF Crash, Exit
<1>19. CASE AggStart
  BY <1>19 DEF AggStart
<1>20. ASSUME NEW j \in Jobs, AggMissing(j) PROVE TypeOK'
  BY <1>20 DEF AggMissing, AggVisit
<1>21. ASSUME NEW j \in Jobs, AggLock(j) PROVE TypeOK'
  BY <1>21 DEF AggLock, AggVisit
<1>22. ASSUME NEW j \in Jobs, AggBadClaim(j) PROVE TypeOK'
  BY <1>22 DEF AggBadClaim, AggEnd
<1>23. CASE AggBadEnvelope \/ AggIncomplete
  BY <1>23 DEF AggBadEnvelope, AggIncomplete, AggEnd
<1>24. CASE AggWriteReceipt
  BY <1>24 DEF AggWriteReceipt
<1>25. CASE AggRenameReceipt
  BY <1>25 DEF AggRenameReceipt, AggAccepted, AggregateInv
<1>26. CASE AggKeepReceipt
  BY <1>26 DEF AggKeepReceipt, AggAccepted, AggregateInv
<1>27. CASE AggBudgetReports
  BY <1>27 DEF AggBudgetReports, Budgets
<1>28. CASE AggReport \/ AggAccept
  BY <1>28 DEF AggReport, AggAccept, AggEnd
<1>29. CASE AggCrash
  BY <1>29 DEF AggCrash, AggEnd
<1>30. CASE PriorCompletes
  BY <1>30 DEF PriorCompletes
<1>31. CASE UNCHANGED vars
  BY <1>31 DEF vars
<1>32. QED
  BY <1>1, <1>2, <1>3, <1>4, <1>5, <1>6, <1>7, <1>8, <1>9, <1>10, <1>11,
     <1>12, <1>13, <1>14, <1>15, <1>16, <1>17, <1>18, <1>19, <1>20, <1>21,
     <1>22, <1>23, <1>24, <1>25, <1>26, <1>27, <1>28, <1>29, <1>30, <1>31 DEF
     Next, ActorStep, AggAction, AggStep

\* The execution lock: an actor never starts the job the aggregator has
\* locked, nor the other way round, and without faults a temporary file dies
\* with the step that made it.
LEMMA ExclusionStep == IInv /\ [Next]_vars => ExclusionInv'
<1> SUFFICES ASSUME IInv, [Next]_vars PROVE ExclusionInv'
  OBVIOUS
<1> USE ConstantsAssumption DEF IInv, TypeOK, HoldersInv, ExclusionInv,
   Writes, LockFree, Reserving, Executing, Holding, Guarded, Owning
<1> USE DEF jobFiles, outcomes, sweepFiles, locals, aggVars, ghosts, Goto
<1>1. ASSUME NEW a \in Actors, Start(a) \/ Launch(a) \/ SkipReserved(a) \/
   Reserve(a)
      PROVE  ExclusionInv'
  BY <1>1 DEF Start, Launch, SkipReserved, Reserve, CanReserve, NextToTry
<1>2. ASSUME NEW a \in Actors, NoJobLeft(a) PROVE ExclusionInv'
  BY <1>2 DEF NoJobLeft
<1>3. ASSUME NEW a \in Actors, OpenClaim(a) PROVE ExclusionInv'
  BY <1>3 DEF OpenClaim
<1>4. ASSUME NEW a \in Actors, WriteClaim(a) PROVE ExclusionInv'
  BY <1>4 DEF WriteClaim
<1>5. ASSUME NEW a \in Actors, ReturnClaim(a) PROVE ExclusionInv'
  BY <1>5 DEF ReturnClaim
<1>6. ASSUME NEW a \in Actors, StartRollout(a) PROVE ExclusionInv'
  BY <1>6 DEF StartRollout
<1>7. ASSUME NEW a \in Actors, WriteResult(a) PROVE ExclusionInv'
  BY <1>7 DEF WriteResult
<1>8. ASSUME NEW a \in Actors, WriteReceipt(a) PROVE ExclusionInv'
  BY <1>8 DEF WriteReceipt
<1>9. ASSUME NEW a \in Actors, RenameReceipt(a) PROVE ExclusionInv'
  BY <1>9 DEF RenameReceipt
<1>10. ASSUME NEW a \in Actors, ReleaseExecution(a) PROVE ExclusionInv'
  BY <1>10 DEF ReleaseExecution
<1>11. ASSUME NEW a \in Actors, EndWait(a) PROVE ExclusionInv'
  BY <1>11 DEF EndWait, Exit
<1>12. ASSUME NEW a \in Actors, WriteFailure(a) \/ RenameFailure(a)
      PROVE  ExclusionInv'
  BY <1>12 DEF WriteFailure, RenameFailure, Exit
<1>13. ASSUME NEW a \in Actors, Raise(a) PROVE ExclusionInv'
  BY <1>13 DEF Raise, Exit, RecordsFailure
<1>14. ASSUME NEW a \in Actors, Crash(a) PROVE ExclusionInv'
  BY <1>14 DEF Crash, Exit
<1>15. CASE AggStart
  BY <1>15 DEF AggStart
<1>16. ASSUME NEW j \in Jobs, AggMissing(j) PROVE ExclusionInv'
  BY <1>16 DEF AggMissing, AggVisit
<1>17. ASSUME NEW j \in Jobs, AggLock(j) PROVE ExclusionInv'
  BY <1>17 DEF AggLock, AggVisit
<1>18. ASSUME NEW j \in Jobs, AggBadClaim(j) PROVE ExclusionInv'
  BY <1>18 DEF AggBadClaim, AggEnd
<1>19. CASE AggBadEnvelope \/ AggIncomplete
  BY <1>19 DEF AggBadEnvelope, AggIncomplete, AggEnd
<1>20. CASE AggWriteReceipt
  BY <1>20 DEF AggWriteReceipt, AggregateInv
<1>21. CASE AggRenameReceipt
  BY <1>21 DEF AggRenameReceipt, AggAccepted, AggregateInv
<1>22. CASE AggKeepReceipt
  BY <1>22 DEF AggKeepReceipt, AggAccepted
<1>23. CASE AggBudgetReports
  BY <1>23 DEF AggBudgetReports
<1>24. CASE AggReport
  BY <1>24 DEF AggReport
<1>25. CASE AggAccept
  BY <1>25 DEF AggAccept, AggEnd
<1>26. CASE AggCrash
  BY <1>26 DEF AggCrash, AggEnd
<1>27. CASE PriorCompletes
  BY <1>27 DEF PriorCompletes
<1>28. CASE UNCHANGED vars
  BY <1>28 DEF vars
<1>29. QED
  BY <1>1, <1>2, <1>3, <1>4, <1>5, <1>6, <1>7, <1>8, <1>9, <1>10, <1>11,
     <1>12, <1>13, <1>14, <1>15, <1>16, <1>17, <1>18, <1>19, <1>20, <1>21,
     <1>22, <1>23, <1>24, <1>25, <1>26, <1>27, <1>28 DEF Next, ActorStep,
     AggAction, AggStep

\* A set that grows by one element at most counts one more at most.
LEMMA GrowsByOne ==
    ASSUME NEW S, NEW T, NEW x, NEW n \in Nat,
           IsFiniteSet(S), Cardinality(S) <= n, T \subseteq S \cup {x}
    PROVE  IsFiniteSet(T) /\ Cardinality(T) <= n + 1
<1>1. IsFiniteSet(S \cup {x}) /\ Cardinality(S) \in Nat
  BY FS_AddElement, FS_CardinalityType
<1>2. Cardinality(S \cup {x}) <= Cardinality(S) + 1
  BY <1>1, FS_AddElement
<1>3. IsFiniteSet(T) /\ Cardinality(T) <= Cardinality(S \cup {x})
  BY <1>1, FS_Subset
<1>4. Cardinality(T) \in Nat /\ Cardinality(S \cup {x}) \in Nat
  BY <1>1, <1>3, FS_CardinalityType
<1> QED BY <1>1, <1>2, <1>3, <1>4

\* A job becomes lost only when its holder crashes or raises.
LEMMA LossStep == IInv /\ [Next]_vars => LossInv'
<1> SUFFICES ASSUME IInv, [Next]_vars PROVE LossInv'
  OBVIOUS
<1> USE DEF IInv, TypeOK, HoldersInv, AttemptInv, Reserving, Executing, Holding, Guarded, Owning
<1> USE DEF jobFiles, outcomes, sweepFiles, locals, aggVars, ghosts, Goto, Lost, Holds
<1>1. ASSUME NEW a \in Actors, Start(a) \/ Launch(a) \/ SkipReserved(a) \/ NoJobLeft(a)
      PROVE  Lost' \subseteq Lost /\ faults' = faults
  BY <1>1 DEF Start, Launch, SkipReserved, NoJobLeft
<1>2. ASSUME NEW a \in Actors, Reserve(a)
      PROVE  Lost' \subseteq Lost /\ faults' = faults
  BY <1>2 DEF Reserve, NextToTry
<1>3. ASSUME NEW a \in Actors, OpenClaim(a) \/ WriteClaim(a) \/ ReturnClaim(a)
      PROVE  Lost' \subseteq Lost /\ faults' = faults
  BY <1>3 DEF OpenClaim, WriteClaim, ReturnClaim
<1>4. ASSUME NEW a \in Actors, StartRollout(a)
      PROVE  Lost' \subseteq Lost /\ faults' = faults
  BY <1>4 DEF StartRollout
<1>5. ASSUME NEW a \in Actors, WriteResult(a)
      PROVE  Lost' \subseteq Lost /\ faults' = faults
  BY <1>5 DEF WriteResult
<1>6. ASSUME NEW a \in Actors, WriteReceipt(a) \/ RenameReceipt(a) \/ ReleaseExecution(a)
      PROVE  Lost' \subseteq Lost /\ faults' = faults
  BY <1>6 DEF WriteReceipt, RenameReceipt, ReleaseExecution
<1>7. ASSUME NEW a \in Actors, EndWait(a) \/ WriteFailure(a) \/ RenameFailure(a)
      PROVE  Lost' \subseteq Lost /\ faults' = faults
  BY <1>7 DEF EndWait, WriteFailure, RenameFailure, Exit
<1>8. ASSUME NEW a \in Actors, Raise(a)
      PROVE  Lost' \subseteq Lost \cup {target[a]} /\ faults' = faults + 1
  BY <1>8 DEF Raise, Exit
<1>9. ASSUME NEW a \in Actors, Crash(a)
      PROVE  Lost' \subseteq Lost \cup {target[a]} /\ faults' = faults + 1
  BY <1>9 DEF Crash, Exit
<1>10. AggStep \/ PriorCompletes => Lost' \subseteq Lost
  BY AggLeavesActors DEF AggAction, PriorCompletes
<1>11. AggStep \/ PriorCompletes => faults' = faults
  BY DEF AggStep, AggStart, AggMissing, AggBadClaim, AggLock, AggBadEnvelope,
     AggWriteReceipt, AggRenameReceipt, AggKeepReceipt, AggBudgetReports,
     AggIncomplete, AggReport, AggAccept, PriorCompletes
<1>12. CASE AggCrash
  <2>1. Lost' \subseteq Lost \cup {NoJob} /\ faults' = faults + 1
    BY <1>12, AggLeavesActors DEF AggAction, AggCrash
  <2>2. faults \in Nat
    BY ConstantsAssumption
  <2> QED BY <2>1, <2>2, GrowsByOne DEF LossInv, LossBound
<1>13. UNCHANGED vars => Lost' \subseteq Lost /\ faults' = faults
  BY DEF vars
<1>14. faults \in Nat
  BY ConstantsAssumption
<1>15. ASSUME Lost' \subseteq Lost, faults' = faults PROVE LossInv'
  <2>1. IsFiniteSet(Lost) /\ Cardinality(Lost) <= faults
    BY DEF LossInv, LossBound
  <2>2. IsFiniteSet(Lost') /\ Cardinality(Lost') <= Cardinality(Lost)
    BY <1>15, <2>1, FS_Subset
  <2>3. Cardinality(Lost) \in Nat /\ Cardinality(Lost') \in Nat
    BY <2>1, <2>2, FS_CardinalityType
  <2> QED BY <1>14, <1>15, <2>1, <2>2, <2>3 DEF LossInv, LossBound
<1>16. ASSUME NEW x, Lost' \subseteq Lost \cup {x}, faults' = faults + 1 PROVE LossInv'
  BY <1>14, <1>16, GrowsByOne DEF LossInv, LossBound
<1> QED
  BY <1>1, <1>2, <1>3, <1>4, <1>5, <1>6, <1>7, <1>8, <1>9, <1>10, <1>11, <1>12,
     <1>13, <1>15, <1>16 DEF Next, ActorStep

-----------------------------------------------------------------------------
(***************************************************************************)
(* Theorems                                                                *)
(***************************************************************************)

LEMMA InductiveInvariant == Spec => []IInv
<1>1. IInv /\ [Next]_vars => IInv'
  BY TypeStep, HoldersStep, AttemptStep, SearchStep, AggregateStep,
     ExclusionStep, LossStep DEF IInv
<1> QED BY InitIInv, <1>1, PTL DEF Spec

\* Every variable keeps its type; in particular a receipt, a failure record
\* or a temporary file is only ever written for a job (finish_job, run).
THEOREM TypeCorrect == Spec => []TypeOK
<1>1. IInv => TypeOK
  BY DEF IInv
<1> QED BY InductiveInvariant, <1>1, PTL

\* At most one physical attempt per job, for any number of actors, jobs,
\* crashes and exceptions (claim_next_job, _execute).
THEOREM OneAttempt == Spec => []AtMostOneAttempt
<1>1. IInv => AtMostOneAttempt
  BY DEF IInv, TypeOK, AttemptInv, AtMostOneAttempt
<1> QED BY InductiveInvariant, <1>1, PTL

\* B50 jobs start only when every B30 directory is reserved, and an actor
\* waits only when every directory is (claim_next_job).
THEOREM SearchOrder == Spec => [](B50AfterB30 /\ DrainedMeansReserved)
<1>1. IInv => B50AfterB30 /\ DrainedMeansReserved
  BY DEF IInv, SearchInv
<1> QED BY InductiveInvariant, <1>1, PTL

\* Reports and the global receipt count only jobs with a receipt, the result
\* and one attempt behind them (aggregate_sweep, finish_job).
THEOREM PublishedEvidence == Spec => []PublishedMeansEvidenced
<1>1. IInv => PublishedMeansEvidenced
  <2> SUFFICES ASSUME IInv, NEW j \in Jobs,
                      JobBudget[j] \in reports \/ 10 \in reports \/ accepted # {}
               PROVE  Evidenced(j)
    BY DEF PublishedMeansEvidenced
  <2>1. j \in receipt
    BY ConstantsAssumption DEF IInv, AggregateInv, JobsOf
  <2> QED BY <2>1 DEF IInv, AttemptInv, Evidenced
<1> QED BY InductiveInvariant, <1>1, PTL

\* Each crash or exception loses at most one job, although no claim is ever
\* recycled: actors reserve one job at a time (claim_next_job, run).
THEOREM LossIsBounded == Spec => []LossBound
<1>1. IInv => LossBound
  BY DEF IInv, LossInv
<1> QED BY InductiveInvariant, <1>1, PTL

\* Without a crash or exception the aggregator never refuses the envelope of
\* a job it has locked (aggregate_sweep, verify_budget_envelope).
THEOREM CleanEnvelopes == Spec => []FaultFreeEnvelopes
<1>1. IInv => FaultFreeEnvelopes
  <2> SUFFICES ASSUME IInv, faults = 0, aggPc = "verify" PROVE EnvelopeVerifies(aggJob)
    BY DEF FaultFreeEnvelopes
  <2>1. aggJob \in Jobs /\ attempt[aggJob] = "result" /\ claim[aggJob] \in Actors
    BY DEF IInv, AggregateInv, ExclusionInv
  <2>2. temps[aggJob] = {}
    BY <2>1 DEF IInv, ExclusionInv, Writes, LockFree, Executing
  <2> QED BY <2>1, <2>2 DEF EnvelopeVerifies
<1> QED BY InductiveInvariant, <1>1, PTL

-----------------------------------------------------------------------------
(***************************************************************************)
(* BudgetSweep implements JobAcceptance                                    *)
(***************************************************************************)

\* What the promise sees of a state.
seen == <<reserved, attempt, receipt, rollouts, GloballyAccepted>>

LEMMA Stutters == UNCHANGED seen => UNCHANGED Promise!vars
BY DEF seen, GloballyAccepted, Promise!vars, Phase

\* A step that changes the files of one job moves that job alone.
LEMMA MovesOne ==
    ASSUME NEW j \in Jobs, NEW from, NEW to,
           Phase(j) = from, Phase(j)' = to,
           \A k \in Jobs \ {j} : Phase(k)' = Phase(k),
           UNCHANGED accepted
    PROVE  Promise!Move(j, from, to)
BY DEF GloballyAccepted, Promise!Move

LEMMA ReceiptStep ==
    ASSUME IInv, NEW j \in Jobs, attempt[j] = "result",
           receipt' = receipt \cup {j},
           UNCHANGED <<reserved, attempt, rollouts, accepted>>
    PROVE  [Promise!Next]_Promise!vars
<1>1. CASE j \in receipt
  <2>1. receipt' = receipt
    BY <1>1
  <2> QED BY <2>1, Stutters DEF seen, GloballyAccepted
<1>2. CASE j \notin receipt
  <2>1. Phase(j) = "evidenced" /\ Phase(j)' = "accepted"
    BY <1>2 DEF Phase
  <2>2. \A k \in Jobs \ {j} : Phase(k)' = Phase(k)
    BY DEF Phase
  <2>3. Promise!Accept(j)
    BY <2>1, <2>2, MovesOne DEF Promise!Accept
  <2> QED BY <2>3 DEF Promise!Next
<1> QED BY <1>1, <1>2

LEMMA RefinementStep == IInv /\ [Next]_vars => [Promise!Next]_Promise!vars
<1> SUFFICES ASSUME IInv, [Next]_vars PROVE [Promise!Next]_Promise!vars
  OBVIOUS
<1> USE DEF jobFiles, outcomes, sweepFiles, locals, aggVars, ghosts
<1>1. ASSUME NEW a \in Actors, Reserve(a) PROVE [Promise!Next]_Promise!vars
  <2>1. PICK j \in Jobs : j \notin reserved /\ reserved' = reserved \cup {j}
    BY <1>1 DEF Reserve, NextToTry, CanReserve, IInv, TypeOK
  <2>2. attempt[j] = "absent" /\ j \notin receipt
    BY <2>1 DEF IInv, TypeOK, AttemptInv
  <2>3. UNCHANGED <<attempt, receipt, rollouts, accepted>>
    BY <1>1 DEF Reserve
  <2>4. Phase(j) = "open" /\ Phase(j)' = "reserved"
    BY <2>1, <2>2, <2>3 DEF Phase
  <2>5. \A k \in Jobs \ {j} : Phase(k)' = Phase(k)
    BY <2>1, <2>3 DEF Phase
  <2>6. Promise!Reserve(j)
    BY <2>3, <2>4, <2>5, MovesOne DEF Promise!Reserve
  <2> QED BY <2>6 DEF Promise!Next
<1>2. ASSUME NEW a \in Actors, StartRollout(a) PROVE [Promise!Next]_Promise!vars
  <2>1. PICK j \in Jobs : j = job[a] /\ j \in reserved /\ attempt[j] = "absent" /\ j \notin receipt
    BY <1>2 DEF StartRollout, IInv, TypeOK, HoldersInv, AttemptInv, Holding, Owning
  <2>2. /\ attempt' = [attempt EXCEPT ![j] = "partial"]
        /\ rollouts' = [rollouts EXCEPT ![j] = @ + 1]
        /\ UNCHANGED <<reserved, receipt, accepted>>
    BY <1>2, <2>1 DEF StartRollout
  <2>3. attempt'[j] = "partial" /\ \A k \in Jobs \ {j} : attempt'[k] = attempt[k]
    BY <2>1, <2>2 DEF IInv, TypeOK
  <2>4. Phase(j) = "reserved" /\ Phase(j)' = "spent"
    BY <2>1, <2>2, <2>3 DEF Phase
  <2>5. \A k \in Jobs \ {j} : Phase(k)' = Phase(k)
    BY <2>2, <2>3 DEF Phase
  <2>6. Promise!Execute(j)
    BY <2>1, <2>2, <2>4, <2>5, MovesOne DEF Promise!Execute
  <2> QED BY <2>1, <2>6 DEF Promise!Next
<1>3. ASSUME NEW a \in Actors, WriteResult(a) PROVE [Promise!Next]_Promise!vars
  <2>1. PICK j \in Jobs : j = job[a] /\ attempt[j] = "partial" /\ j \notin receipt
    BY <1>3 DEF WriteResult, IInv, TypeOK, HoldersInv, AttemptInv, Holding, Executing, Owning
  <2>2. attempt' = [attempt EXCEPT ![j] = "result"] /\ UNCHANGED <<reserved, receipt, rollouts, accepted>>
    BY <1>3, <2>1 DEF WriteResult
  <2>3. attempt'[j] = "result" /\ \A k \in Jobs \ {j} : attempt'[k] = attempt[k]
    BY <2>1, <2>2 DEF IInv, TypeOK
  <2>4. Phase(j) = "spent" /\ Phase(j)' = "evidenced"
    BY <2>1, <2>2, <2>3 DEF Phase
  <2>5. \A k \in Jobs \ {j} : Phase(k)' = Phase(k)
    BY <2>2, <2>3 DEF Phase
  <2>6. Promise!Evidence(j)
    BY <2>1, <2>2, <2>4, <2>5, MovesOne DEF Promise!Evidence
  <2> QED BY <2>1, <2>6 DEF Promise!Next
<1>4. ASSUME NEW a \in Actors, RenameReceipt(a) PROVE [Promise!Next]_Promise!vars
  <2>1. job[a] \in Jobs /\ attempt[job[a]] = "result"
    BY <1>4 DEF RenameReceipt, IInv, TypeOK, HoldersInv, AttemptInv, Holding, Executing, Owning
  <2> QED BY <1>4, <2>1, ReceiptStep DEF RenameReceipt
<1>5. CASE AggRenameReceipt
  BY <1>5, ReceiptStep DEF AggRenameReceipt, AggAccepted, IInv, AggregateInv
<1>6. CASE AggAccept
  <2>1. \A j \in Jobs : Phase(j) = "accepted" /\ Phase(j)' = "accepted"
    BY <1>6 DEF AggAccept, Phase, IInv, AggregateInv
  <2>2. Promise!Publish
    BY <1>6, <2>1 DEF AggAccept, GloballyAccepted, Promise!Publish
  <2> QED BY <2>2 DEF Promise!Next
\* Every other step changes nothing the promise sees.
<1>7. ASSUME NEW a \in Actors,
             Start(a) \/ Launch(a) \/ SkipReserved(a) \/ OpenClaim(a) \/ WriteClaim(a)
      PROVE  UNCHANGED seen
  BY <1>7 DEF seen, GloballyAccepted, Start, Launch, SkipReserved, OpenClaim, WriteClaim
<1>8. ASSUME NEW a \in Actors,
             ReturnClaim(a) \/ NoJobLeft(a) \/ WriteReceipt(a) \/ ReleaseExecution(a)
      PROVE  UNCHANGED seen
  BY <1>8 DEF seen, GloballyAccepted, ReturnClaim, NoJobLeft, WriteReceipt, ReleaseExecution
<1>9. ASSUME NEW a \in Actors,
             EndWait(a) \/ WriteFailure(a) \/ RenameFailure(a) \/ Raise(a) \/ Crash(a)
      PROVE  UNCHANGED seen
  BY <1>9 DEF seen, GloballyAccepted, EndWait, WriteFailure, RenameFailure, Raise, Crash
<1>10. ASSUME NEW j \in Jobs, AggMissing(j) \/ AggBadClaim(j) \/ AggLock(j)
       PROVE  UNCHANGED seen
  BY <1>10 DEF seen, GloballyAccepted, AggMissing, AggBadClaim, AggLock
<1>11. AggStart \/ AggBadEnvelope \/ AggWriteReceipt \/ AggKeepReceipt => UNCHANGED seen
  BY DEF seen, GloballyAccepted, AggStart, AggBadEnvelope, AggWriteReceipt, AggKeepReceipt
<1>12. AggBudgetReports \/ AggIncomplete \/ AggCrash \/ PriorCompletes => UNCHANGED seen
  BY DEF seen, GloballyAccepted, AggBudgetReports, AggIncomplete, AggCrash, PriorCompletes
<1>13. AggReport => UNCHANGED seen
  BY DEF seen, GloballyAccepted, AggReport
<1>14. UNCHANGED vars => UNCHANGED seen
  BY DEF seen, GloballyAccepted, vars
<1> QED
  BY <1>1, <1>2, <1>3, <1>4, <1>5, <1>6, <1>7, <1>8, <1>9, <1>10, <1>11, <1>12,
     <1>13, <1>14, Stutters DEF Next, ActorStep, AggStep

\* The actors and the aggregator together keep the promise of JobAcceptance,
\* whatever their number and however often they crash.
THEOREM Refinement == Spec => KeepsPromise
<1>1. Init => Promise!Init
  BY DEF Init, GloballyAccepted, Promise!Init, Phase
<1> QED BY <1>1, InductiveInvariant, RefinementStep, PTL DEF Spec, KeepsPromise, Promise!Spec

=============================================================================
