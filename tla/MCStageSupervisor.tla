------------------------- MODULE MCStageSupervisor -------------------------
(***************************************************************************)
(* One stage of each kind, and the build plans of an operator.             *)
(***************************************************************************)
EXTENDS StageSupervisor

CONSTANTS s1, s2

MCCollections == <<"collect">>
MCMadeRest == <<"made">>
MCCrystal == <<"crystal">>
MCClosing == <<"finalize">>

Build(phase, seal, version) == [phase |-> phase, seal |-> seal, version |-> version]

\* Any two builds in any order, and the course of three: MADE unsealed, MADE
\* sealed, both benchmarks.
AnyPlan ==
    LET Any == {Build(p, s, v) : p \in {"made", "all"}, s \in BOOLEAN, v \in {1, 2}}
    IN  {<<a, b>> : a \in Any, b \in Any}
        \cup {<<Build("made", FALSE, 1), Build("made", TRUE, 1), Build("all", TRUE, 1)>>}

\* Both benchmarks are sealed at once.
OnePlan == {<<Build("all", TRUE, 1)>>}

\* The commands change between two builds.
RevisedPlan == {<<Build("made", TRUE, 1), Build("made", TRUE, 2)>>}

=============================================================================
