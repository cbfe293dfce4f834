--------------------------- MODULE JobAcceptance ---------------------------
(***************************************************************************)
(* What every runner of this repository promises about a registered matrix *)
(* of evaluation jobs, whatever its storage looks like: a job is reserved, *)
(* its physical evaluation is started at most once, a complete result may  *)
(* follow, the verified result is accepted, and the whole matrix is        *)
(* published only when every job has been accepted.  No step goes back.    *)
(*                                                                         *)
(* BudgetSweep, ESTraining, ShardRunner and TranscoderBank implement it    *)
(* (their property KeepsPromise).                                          *)
(***************************************************************************)
EXTENDS Naturals

CONSTANT Jobs

VARIABLES
    phase,      \* phase[j]: how far job j has come
    calls,      \* calls[j]: physical evaluations of j started so far
    published   \* the acceptance of the whole matrix is on disk

vars == <<phase, calls, published>>

Phases == {"open", "reserved", "spent", "evidenced", "accepted"}

TypeOK ==
    /\ phase \in [Jobs -> Phases]
    /\ calls \in [Jobs -> Nat]
    /\ published \in BOOLEAN

Init ==
    /\ phase = [j \in Jobs |-> "open"]
    /\ calls = [j \in Jobs |-> 0]
    /\ published = FALSE

Move(j, from, to) ==
    /\ phase[j] = from
    /\ phase' = [phase EXCEPT ![j] = to]
    /\ UNCHANGED published

Reserve(j) == Move(j, "open", "reserved") /\ UNCHANGED calls

\* The only step that spends physical oracle budget.
Execute(j) ==
    /\ Move(j, "reserved", "spent")
    /\ calls' = [calls EXCEPT ![j] = @ + 1]

Evidence(j) == Move(j, "spent", "evidenced") /\ UNCHANGED calls

Accept(j) == Move(j, "evidenced", "accepted") /\ UNCHANGED calls

Publish ==
    /\ \A j \in Jobs : phase[j] = "accepted"
    /\ published' = TRUE
    /\ UNCHANGED <<phase, calls>>

Next ==
    \/ Publish
    \/ \E j \in Jobs : Reserve(j) \/ Execute(j) \/ Evidence(j) \/ Accept(j)

Spec == Init /\ [][Next]_vars

=============================================================================
