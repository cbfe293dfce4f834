--------------------------- MODULE TranscoderBank ---------------------------
(***************************************************************************)
(* The banks of per-layer transcoders: train_transcoders_from_collections  *)
(* of representation_training.py, which trains layer after layer into one  *)
(* directory and resumes between layers, and two of its callers.           *)
(*                                                                         *)
(*   Stage      the core stage "transcoders" (core_representation.py),     *)
(*              which trains, or adopts a finished bank, in Core;          *)
(*   Publisher  deferred_transcoder_publisher.py, which fills External     *)
(*              from layers precomputed by deferred_dev_transcoders.py,    *)
(*              validates it and may install a copy as Core.               *)
(*                                                                         *)
(* Numbers are left out: a fit may succeed, miss the fidelity gate or      *)
(* raise.  The collected shards may be altered once, to something readable *)
(* that contradicts the collection manifests, and are not put back; banks  *)
(* are not altered.  A bank records a digest of every shard, which is of   *)
(* another reading of the file than the one that was checked, and each fit *)
(* reads it again.  The publisher is serialized by its lock and installs   *)
(* only while the stage is paused, as its docstring requires.              *)
(***************************************************************************)
EXTENDS Naturals, Sequences

CONSTANTS
    NumLayers,   \* layers of the policy
    MaxDeaths,   \* bound: deaths of the stage and the publisher
    External, Core, Publisher, Stage, NoFile

Layers == 1 .. NumLayers
Contents == {"collected", "altered"}
Manifests == [current : 0 .. NumLayers, layers : Seq({"succeeded", "failed"}),
              complete : BOOLEAN, ready : BOOLEAN]

ASSUME BankAssumption ==
    /\ NumLayers \in Nat \ {0} /\ MaxDeaths \in Nat
    /\ External # Core /\ Publisher # Stage /\ NoFile \notin Manifests

Banks == {External, Core}
Processes == {Publisher, Stage}

VARIABLES
    altered,     \* a shard of the collections was altered
    precomputed, \* layers whose precomputation is complete
    parallel,    \* development_workers > 1: one selection pass for all layers
    selection,   \* the selection cache: none, partial or complete
    manifest,    \* manifest[d]: transcoder_manifest.json, or NoFile
    checkpoint,  \* checkpoint[d][l]: none, or the content of the shards it was fitted to
    shards,      \* shards[d]: filtered_dev_shards: none, partial or complete
    recorded,    \* recorded[d]: the content whose digests the bank holds, or none
    made,        \* made[d]: the directory exists
    stray,       \* stray[d]: it holds a temporary file of a death while writing
    validated,   \* <external>.resume_validation.json exists
    pending,     \* <core>.deferred_import_pending exists
    imported,    \* <core>.deferred_import.json exists
    receipt,     \* the stage receipt exists
    pc,          \* pc[p]: where process p stands
    refused,     \* selection_failed, in the memory of the publisher
    fits,        \* history: fits[d][l], how often a fit of the layer was begun
    installed,   \* history: the bank in Core is the publisher's copy
    deaths       \* deaths so far

directory == <<manifest, checkpoint, shards, recorded, made, stray, fits, installed>>
deferred == <<precomputed, selection>>
receipts == <<validated, pending, imported, receipt>>
vars == <<altered, parallel, directory, deferred, receipts, pc, refused, deaths>>

Init ==
    /\ altered = FALSE /\ parallel \in BOOLEAN
    /\ precomputed = {} /\ selection = "none"
    /\ manifest = [d \in Banks |-> NoFile]
    /\ checkpoint = [d \in Banks |-> [l \in Layers |-> "none"]]
    /\ shards = [d \in Banks |-> "none"] /\ recorded = [d \in Banks |-> "none"]
    /\ made = [d \in Banks |-> FALSE] /\ stray = [d \in Banks |-> FALSE]
    /\ validated = FALSE /\ pending = FALSE /\ imported = FALSE /\ receipt = FALSE
    /\ pc = [p \in Processes |-> "off"] /\ refused = FALSE
    /\ fits = [d \in Banks |-> [l \in Layers |-> 0]] /\ installed = FALSE /\ deaths = 0

\* What is read from the shards now.
Content == IF altered THEN "altered" ELSE "collected"

Alter == ~altered /\ altered' = TRUE
    /\ UNCHANGED <<parallel, directory, deferred, receipts, pc, refused, deaths>>

---------------------------------------------------------------------------
(* precompute_layer: every epoch of one layer into a new directory.  One    *)
(* that is unfinished, was interrupted or raised is never gone on with, and *)
(* looks to the publisher like a missing one: only a completion shows.      *)

Precompute(l) ==
    /\ l \notin precomputed /\ ~altered
    /\ precomputed' = precomputed \cup {l}
    /\ UNCHANGED <<altered, parallel, selection, directory, receipts, pc, refused, deaths>>

---------------------------------------------------------------------------
(* train_transcoders_from_collections *)

Home(p) == IF p = Publisher THEN External ELSE Core

NewManifest == [current |-> 0, layers |-> <<>>, complete |-> FALSE, ready |-> FALSE]
Bank(d) == IF manifest[d] = NoFile THEN NewManifest ELSE manifest[d]
Done(d) == Len(Bank(d).layers)
Passed(m) == \A i \in DOMAIN m.layers : m.layers[i] = "succeeded"
Ready(d) == Bank(d).complete /\ Bank(d).ready

Whole(d, l) == checkpoint[d][l] # "none"

NoFiles(d) ==
    /\ manifest[d] = NoFile /\ shards[d] = "none" /\ ~stray[d]
    /\ \A l \in Layers : checkpoint[d][l] = "none"

OnlyKnownFiles(d) ==
    /\ shards[d] = "complete" /\ ~stray[d]
    /\ \A l \in Layers : IF l <= Done(d) THEN Whole(d, l) ELSE checkpoint[d][l] = "none"

\* Faulty: an interrupted layer is trained again.
Resumable_InFlight(d) ==
    /\ manifest[d] # NoFile
    /\ Passed(Bank(d)) /\ (Bank(d).complete => Bank(d).ready)

\* Faulty: what is not complete cannot be resumed.
Resumable_Complete(d) == manifest[d] # NoFile /\ Ready(d)

\* _read_layer_resume accepts a boundary between layers.
Resumable(d) ==
    /\ manifest[d] # NoFile /\ Bank(d).current = 0
    /\ Passed(Bank(d)) /\ (Bank(d).complete => Bank(d).ready)
    /\ OnlyKnownFiles(d)

Goto(p, there) == pc' = [pc EXCEPT ![p] = there]
Raise(p) == Goto(p, "off")
Rest == UNCHANGED <<altered, parallel, deferred, receipts, installed, deaths>>

Enter(p) ==
    /\ pc[p] = "enter"
    /\ made' = [made EXCEPT ![Home(p)] = TRUE]
    /\ IF NoFiles(Home(p)) THEN Goto(p, "filter")
       ELSE IF Resumable(Home(p)) THEN Goto(p, "reverify") ELSE Raise(p)
    /\ UNCHANGED <<manifest, checkpoint, shards, recorded, stray, fits, refused>> /\ Rest

\* Shard after shard is loaded and compared with its collection manifest; of
\* the development split the rows of training prefixes are left out ...
Check(p) ==
    /\ pc[p] = "filter"
    /\ IF altered THEN Raise(p) /\ UNCHANGED shards
       ELSE Goto(p, "recording") /\ shards' = [shards EXCEPT ![Home(p)] = "partial"]
    /\ UNCHANGED <<manifest, checkpoint, recorded, made, stray, fits, refused>> /\ Rest

\* ... and then the file is read again for the digest the bank will hold.  An
\* alteration in between meets a shard that is yet to be checked, or is not
\* noticed; one of a shard already recorded is one after this step.
Record(p) ==
    /\ pc[p] = "recording"
    /\ \/ altered /\ Raise(p) /\ UNCHANGED <<shards, recorded>>
       \/ /\ Goto(p, "layer")
          /\ shards' = [shards EXCEPT ![Home(p)] = "complete"]
          /\ recorded' = [recorded EXCEPT ![Home(p)] = Content]
    /\ UNCHANGED <<manifest, checkpoint, made, stray, fits, refused>> /\ Rest

\* On resumption they are checked in the same way and the digests compared
\* with the recorded ones, so an alteration before either raises.
Reverify(p) ==
    /\ pc[p] = "reverify"
    /\ IF altered THEN Raise(p) ELSE Goto(p, IF Bank(Home(p)).complete THEN "trained" ELSE "layer")
    /\ UNCHANGED <<directory, refused>> /\ Rest

Publish(p, m) ==
    /\ manifest' = [manifest EXCEPT ![Home(p)] = m]
    /\ UNCHANGED <<shards, recorded, made, stray, refused>> /\ Rest

BeginLayer(p) ==
    /\ pc[p] = "layer" /\ Done(Home(p)) < NumLayers
    /\ Publish(p, [Bank(Home(p)) EXCEPT !.current = Done(Home(p)) + 1])
    /\ Goto(p, "train")
    /\ UNCHANGED <<checkpoint, fits>>

Current(p) == Bank(Home(p)).current

BeginFit(p) ==
    /\ fits' = [fits EXCEPT ![Home(p)][Current(p)] = @ + 1]
    /\ Goto(p, "fitting")

\* train_layer_transcoder: the original trainer, in the stage.
Train ==
    /\ pc[Stage] = "train"
    /\ BeginFit(Stage)
    /\ UNCHANGED <<manifest, checkpoint, shards, recorded, made, stray, refused>> /\ Rest

\* Its substitute in the publisher, for the layer of the bank.
Adopt ==
    /\ pc[Publisher] = "train" /\ ~refused
    /\ parallel => selection = "complete"
    /\ Current(Publisher) \in precomputed
    /\ BeginFit(Publisher)
    /\ UNCHANGED <<manifest, checkpoint, shards, recorded, made, stray, refused>> /\ Rest

\* The checkpoint and its sidecar.  A death between the two leaves a layer in
\* progress, which is refused whatever its files are.
SaveFit(p) ==
    /\ pc[p] = "fitting"
    /\ checkpoint' = [checkpoint EXCEPT ![Home(p)][Current(p)] = Content]
    /\ Goto(p, "fitted")
    /\ UNCHANGED <<manifest, shards, recorded, made, stray, fits, refused>> /\ Rest

\* Whatever the trainer raises fails the layer, and the next one is begun.
FitRaises(p) ==
    /\ pc[p] \in {"train", "fitting"}
    /\ Goto(p, "unfitted")
    /\ UNCHANGED <<directory, refused>> /\ Rest

EndLayer(p) ==
    /\ pc[p] \in {"fitted", "unfitted"}
    /\ \E status \in {"failed"} \cup (IF pc[p] = "fitted" THEN {"succeeded"} ELSE {}) :
          Publish(p, [Bank(Home(p)) EXCEPT !.current = 0, !.layers = Append(@, status)])
    /\ Goto(p, "layer")
    /\ UNCHANGED <<checkpoint, fits>>

\* Faulty: the sources are not read again at the end.
SourcesUnchanged_Trusted(d) == TRUE

\* The digests are compared with the recorded ones, not with the collection.
SourcesUnchanged(d) == recorded[d] = Content

Finish(p) ==
    /\ pc[p] = "layer" /\ Done(Home(p)) = NumLayers
    /\ LET d == Home(p) IN
       Publish(p, [Bank(d) EXCEPT !.complete = TRUE,
                                  !.ready = Passed(Bank(d)) /\ SourcesUnchanged(d)])
    /\ Goto(p, "trained")
    /\ UNCHANGED <<checkpoint, fits>>

---------------------------------------------------------------------------
(* The publisher: build_external_bank and install_verified_bank *)

Publishing == UNCHANGED <<altered, parallel, precomputed, receipt, deaths>>

OpenPublisher ==
    /\ pc[Publisher] = "off"
    /\ IF manifest[External] # NoFile THEN Bank(External).complete ELSE NoFiles(External)
    /\ Goto(Publisher, "enter") /\ refused' = FALSE
    /\ UNCHANGED <<directory, selection, validated, pending, imported>> /\ Publishing

\* _parallel_selection, before the first layer is adopted: one pass over all
\* layers into a cache that must be new.
Select ==
    /\ pc[Publisher] = "train" /\ parallel /\ ~refused
    /\ IF selection = "none" /\ precomputed = Layers
       THEN selection' = "partial" /\ Goto(Publisher, "selecting") /\ UNCHANGED refused
       ELSE selection # "complete" /\ refused' = TRUE /\ UNCHANGED <<selection, pc>>
    /\ UNCHANGED <<directory, validated, pending, imported>> /\ Publishing

EndSelect ==
    /\ pc[Publisher] = "selecting"
    /\ Goto(Publisher, "train")
    /\ \/ ~altered /\ selection' = "complete" /\ UNCHANGED refused
       \/ refused' = TRUE /\ UNCHANGED selection
    /\ UNCHANGED <<directory, validated, pending, imported>> /\ Publishing

\* _verify_execution_provenance.
Provenance ==
    /\ precomputed = Layers
    /\ parallel => selection = "complete"
    /\ ~altered

\* The original trainer is called once more and must find nothing to do.
Validate ==
    /\ pc[Publisher] = "trained"
    /\ IF Ready(External) /\ Provenance /\ Resumable(External)
       THEN validated' = TRUE /\ \E there \in {"off", "install"} : Goto(Publisher, there)
       ELSE Raise(Publisher) /\ UNCHANGED validated
    /\ UNCHANGED <<directory, selection, pending, imported, refused>> /\ Publishing

Installing == pc[Publisher] \in {"install", "copying", "installed"}

BeginInstall ==
    /\ pc[Publisher] = "install" /\ pc[Stage] = "off"
    /\ IF Provenance /\ ~made[Core] /\ ~pending
       THEN pending' = TRUE /\ Goto(Publisher, "copying")
       ELSE Raise(Publisher) /\ UNCHANGED pending
    /\ UNCHANGED <<directory, selection, validated, imported, refused>> /\ Publishing

RenameInstall ==
    /\ pc[Publisher] = "copying"
    /\ pending' = FALSE /\ Goto(Publisher, "installed")
    /\ made' = [made EXCEPT ![Core] = TRUE] /\ installed' = TRUE
    /\ manifest' = [manifest EXCEPT ![Core] = manifest[External]]
    /\ checkpoint' = [checkpoint EXCEPT ![Core] = checkpoint[External]]
    /\ shards' = [shards EXCEPT ![Core] = shards[External]]
    /\ recorded' = [recorded EXCEPT ![Core] = recorded[External]]
    /\ UNCHANGED <<stray, fits, selection, validated, imported, refused>> /\ Publishing

EndInstall ==
    /\ pc[Publisher] = "installed"
    /\ imported' = (Resumable(Core) /\ ~altered) /\ Raise(Publisher)
    /\ UNCHANGED <<directory, selection, validated, pending, refused>> /\ Publishing

---------------------------------------------------------------------------
(* The stage: run_stage of core_representation.py *)

OpenStage ==
    /\ pc[Stage] = "off" /\ ~receipt /\ ~Installing
    /\ Goto(Stage, "enter")
    /\ UNCHANGED <<altered, parallel, directory, deferred, receipts, refused, deaths>>

PublishStage ==
    /\ pc[Stage] = "trained"
    /\ receipt' = Ready(Core) /\ Raise(Stage)
    /\ UNCHANGED <<altered, parallel, directory, deferred, validated, pending, imported,
                   refused, deaths>>

\* A death while the manifest is being written leaves its temporary file.
Die(p) ==
    /\ pc[p] # "off" /\ deaths < MaxDeaths
    /\ Raise(p) /\ deaths' = deaths + 1
    /\ \E writing \in {FALSE} \cup (IF pc[p] \in {"layer", "fitted", "unfitted"} THEN {TRUE} ELSE {}) :
          stray' = [stray EXCEPT ![Home(p)] = @ \/ writing]
    /\ UNCHANGED <<altered, parallel, manifest, checkpoint, shards, recorded, made, fits, installed,
                   deferred, receipts, refused>>

Coordinate(p) ==
    \/ Enter(p) \/ Check(p) \/ Record(p) \/ Reverify(p) \/ BeginLayer(p) \/ SaveFit(p)
    \/ FitRaises(p) \/ EndLayer(p) \/ Finish(p)

StageStep == Coordinate(Stage) \/ Train \/ PublishStage
PublisherStep ==
    \/ Coordinate(Publisher) \/ Adopt \/ Select \/ EndSelect
    \/ Validate \/ BeginInstall \/ RenameInstall \/ EndInstall

Next ==
    \/ OpenStage \/ StageStep \/ OpenPublisher \/ PublisherStep
    \/ Alter \/ \E p \in Processes : Die(p)
    \/ \E l \in Layers : Precompute(l)

Spec == Init /\ [][Next]_vars

\* A process goes on, and is started again after it ended, by whom it serves;
\* who pauses the stage for an installation starts it again.
FairSpec ==
    /\ Spec
    /\ WF_vars(StageStep) /\ SF_vars(OpenStage)
    /\ WF_vars(PublisherStep) /\ WF_vars(OpenPublisher)

---------------------------------------------------------------------------
(* Properties *)

\* It is of the shards as they were collected.
Genuine(d) == Ready(d) /\ recorded[d] = "collected"

\* A bank that calls itself ready holds a passed checkpoint of every layer, all
\* fitted to the very shards whose digests it records.  These need not be the
\* collected ones, but what the publisher validates or imports is of those.
ReadyIsSound ==
    /\ \A d \in Banks : Ready(d) =>
        /\ Done(d) = NumLayers /\ Passed(Bank(d)) /\ shards[d] = "complete"
        /\ \A l \in Layers : Whole(d, l) /\ checkpoint[d][l] = recorded[d]
    /\ validated => Genuine(External)
    /\ imported => Genuine(Core)
    /\ receipt => Ready(Core)

Accepted(d, l) == l <= Done(d) /\ Bank(d).layers[l] = "succeeded"

Phase(d, l) ==
    IF Accepted(d, l) THEN "accepted"
    ELSE IF fits[d][l] > 0 THEN IF Whole(d, l) THEN "evidenced" ELSE "spent"
    ELSE IF Bank(d).current = l \/ l <= Done(d) THEN "reserved" ELSE "open"

ExternalPromise == INSTANCE JobAcceptance WITH
    Jobs <- Layers, phase <- [l \in Layers |-> Phase(External, l)],
    calls <- fits[External], published <- Ready(External)

\* What was installed is not the work of the stage.
Own(l) == IF installed THEN "open" ELSE Phase(Core, l)

CorePromise == INSTANCE JobAcceptance WITH
    Jobs <- Layers, phase <- [l \in Layers |-> Own(l)],
    calls <- fits[Core], published <- Ready(Core) /\ ~installed

\* Neither directory ever has a layer fitted twice, an interrupted or failed
\* one accepted later, or a bank made ready before all its layers are; a bank
\* that was installed is never trained in.
KeepsPromise == ExternalPromise!Spec /\ CorePromise!Spec

\* Evidence only a human can judge: an interrupted or failed layer, files no
\* manifest publishes, altered shards.
Unreconciled(d) ==
    \/ altered \/ stray[d] \/ Bank(d).current # 0 \/ ~Passed(Bank(d))
    \/ manifest[d] = NoFile /\ ~NoFiles(d)

\* A stage started again after every death publishes its bank, trained or
\* installed, and a publisher validates the one it finished, unless there is
\* something to reconcile.  (Receipts stay, so this is for good.)
BanksRecover == <>[]
    /\ receipt \/ Unreconciled(Core)
    /\ Ready(External) => validated \/ Unreconciled(External)

=============================================================================
