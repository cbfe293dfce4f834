---------------------------- MODULE MadeAdapter ----------------------------
(***************************************************************************)
(* MADEAdapter of benchmark_adapters.py as operators on the state of one   *)
(* episode:                                                                *)
(*   open      not closed,                                                 *)
(*   faulted   an exception may have left the hull half updated,           *)
(*   attempts  candidate_oracle_attempts,                                  *)
(*   buffer    the candidates in the buffer,                               *)
(*   selected  the candidate chosen for the next step,                     *)
(*   stable    num_newly_discovered_stable of the official metrics.        *)
(* The generators, scorers and the hull are MADE's own (external): what    *)
(* they return is a choice.  The episode is never reset: no rollout asks.  *)
(***************************************************************************)
EXTENDS Naturals

CONSTANTS
    Candidates,  \* structures a generator may propose
    Budget,      \* oracle attempts of an episode, or crystals of a session
    None         \* no candidate

ASSUME BudgetAssumption == Budget \in Nat \ {0} /\ None \notin Candidates

MadeNew == [open |-> TRUE, faulted |-> FALSE, attempts |-> 0, buffer |-> {},
            selected |-> None, stable |-> 0]

\* env.is_done() never decides: accepted queries are attempts.
MadeDone(a) == a.attempts >= Budget

\* What a tool call may leave: the adapter, and whether the answer is ok.  A
\* generator that raises, or proposes an inadmissible structure, keeps the
\* candidates accepted before; the tools that only read add none.
MadeTool(a, arg) ==
    CASE MadeDone(a) -> {[adapter |-> a, ok |-> FALSE]}
      [] arg.tool = "generate" /\ ~MadeDone(a) ->
            {[adapter |-> [a EXCEPT !.buffer = @ \cup new], ok |-> ok] :
                new \in SUBSET Candidates, ok \in BOOLEAN}
      [] arg.tool = "select" /\ ~MadeDone(a) ->
            IF a.selected = None /\ arg.candidate \in a.buffer
            THEN {[adapter |-> [a EXCEPT !.buffer = @ \ {arg.candidate}, !.selected = arg.candidate],
                   ok |-> TRUE]}
            ELSE {[adapter |-> a, ok |-> FALSE]}

MadeMayStep(a) == ~MadeDone(a) /\ a.selected # None

\* step up to the oracle: the selection is consumed.
MadeTaken(a) == [a EXCEPT !.selected = None]

\* Faulty: the attempt is counted although the oracle was not invoked.
MadeCounted_Always(a, invoked) == [a EXCEPT !.attempts = @ + 1]

\* invoke_oracle counts before the call.
MadeCounted(a, invoked) == IF invoked THEN [a EXCEPT !.attempts = @ + 1] ELSE a

\* Faulty: an attempt that raised is given back.
MadeRaised_Refunded(a, invoked) == {[a EXCEPT !.attempts = IF invoked THEN @ - 1 ELSE @]}

\* The exception faults the environment when its query count has changed,
\* which takes an evaluation.
MadeRaised(a, invoked) == {[a EXCEPT !.faulted = fault] : fault \in {FALSE, invoked}}

MadeMeasured(a) == {[a EXCEPT !.stable = @ + found] : found \in {0, 1}}

=============================================================================
