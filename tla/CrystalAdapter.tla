--------------------------- MODULE CrystalAdapter ---------------------------
(***************************************************************************)
(* CrystalGymAdapter of benchmark_adapters.py as operators on the state of *)
(* one session with budget_unit dft_episode_attempts:                      *)
(*   open, faulted   as in MadeAdapter,                                    *)
(*   attempts        dft_episode_attempts, which reset does not restore,   *)
(*   filled          sites of the crystal that have an element,            *)
(*   final           the crystal has been evaluated,                       *)
(*   episode         episode_index.                                        *)
(* The gymnasium environment and Quantum ESPRESSO are external.  Actions   *)
(* are legal elements: the rollout's schema admits no other.               *)
(***************************************************************************)
EXTENDS Naturals

CONSTANTS
    Sites,     \* sites of a crystal
    Crystals   \* the budget: crystals of a session

ASSUME CrystalAssumption == Sites \in Nat \ {0} /\ Crystals \in Nat \ {0}

CrystalNew == [open |-> TRUE, faulted |-> FALSE, attempts |-> 0, filled |-> 0,
               final |-> FALSE, episode |-> 0]

CrystalDone(a) == a.attempts >= Crystals

CrystalMayStep(a) == ~CrystalDone(a) /\ ~a.final

\* The last site starts the calculation, which is counted first.
CrystalTerminal(a) == a.filled + 1 = Sites

CrystalCounted(a) == IF CrystalTerminal(a) THEN [a EXCEPT !.attempts = @ + 1] ELSE a

CrystalRaised(a) == {[a EXCEPT !.faulted = TRUE]}

CrystalMeasured(a) == {[a EXCEPT !.filled = @ + 1, !.final = CrystalTerminal(a)]}

\* Refused while the session is over or the crystal unfinished; the index has
\* moved also when the environment's own reset raises.
CrystalReset(a) ==
    IF CrystalDone(a) \/ (~a.final /\ ~a.faulted) THEN {[adapter |-> a, ok |-> FALSE]}
    ELSE {[adapter |-> [a EXCEPT !.episode = @ + 1], ok |-> FALSE],
          [adapter |-> [a EXCEPT !.episode = @ + 1, !.filled = 0, !.final = FALSE, !.faulted = FALSE],
           ok |-> TRUE]}

=============================================================================
