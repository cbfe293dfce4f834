------------------------ MODULE TranscoderBankProofs ------------------------
(***************************************************************************)
(* Proofs about the banks of transcoders: what a bank says of itself is    *)
(* so, and no layer is fitted twice or accepted after an interruption.     *)
(*                                                                         *)
(* Each process works in a bank of its own.  The invariant ties where it   *)
(* stands to its manifest (PlaceOK), and the manifest to the checkpoints   *)
(* and to the fits begun (BankOK).  The one step from bank to bank, the    *)
(* installation, finds a directory that was never made and leaves a bank   *)
(* that is complete, which nobody trains in (SharedOK).  Checkpoints agree *)
(* with the recorded digests because what is altered stays so: digests of  *)
(* altered shards come before every fit, others are compared after it.     *)
(***************************************************************************)
EXTENDS TranscoderBank, TLAPS

Places ==
    {"off", "enter", "filter", "recording", "reverify", "layer", "train", "selecting", "fitting",
     "fitted", "unfitted", "trained", "install", "copying", "installed"}

Typed ==
    /\ altered \in BOOLEAN /\ installed \in BOOLEAN
    /\ manifest \in [Banks -> Manifests \cup {NoFile}]
    /\ checkpoint \in [Banks -> [Layers -> Contents \cup {"none"}]]
    /\ shards \in [Banks -> {"none", "partial", "complete"}]
    /\ recorded \in [Banks -> Contents \cup {"none"}]
    /\ made \in [Banks -> BOOLEAN]
    /\ fits \in [Banks -> [Layers -> Nat]]
    /\ pc \in [Processes -> Places]

Copied(d) == d = Core /\ installed

\* The layers of bank d up to Done(d) have an outcome, the next one may be
\* current, and of those behind it nothing exists.  Shards recorded as altered
\* were altered before the first fit.
BankOK(d) ==
    /\ Done(d) <= NumLayers /\ Bank(d).current \in {0, Done(d) + 1}
    /\ Bank(d).complete => Done(d) = NumLayers /\ Bank(d).current = 0
    /\ Bank(d).ready => /\ Bank(d).complete /\ Passed(Bank(d))
                        /\ \A l \in Layers : Whole(d, l) /\ checkpoint[d][l] = recorded[d]
    /\ recorded[d] = "altered" => altered /\ \A l \in Layers : checkpoint[d][l] # "collected"
    /\ manifest[d] # NoFile => shards[d] = "complete"
    /\ \A l \in Layers :
          /\ l <= Done(d) /\ Bank(d).layers[l] = "succeeded" =>
                Whole(d, l) /\ (fits[d][l] > 0 \/ Copied(d))
          /\ l > Done(d) /\ l # Bank(d).current => checkpoint[d][l] = "none" /\ fits[d][l] = 0
          /\ checkpoint[d][l] = "altered" => altered
    /\ ~made[d] => manifest[d] = NoFile

AtLayer == {"train", "selecting", "fitting", "fitted", "unfitted"}

\* Where p stands, of its bank d.
PlaceOK(p, d) ==
    /\ pc[p] \notin {"off", "enter"} => made[d]
    /\ pc[p] \in {"filter", "recording"} => manifest[d] = NoFile
    /\ pc[p] \in {"reverify", "layer"} => Bank(d).current = 0 /\ shards[d] = "complete"
    /\ pc[p] = "layer" => ~Bank(d).complete
    /\ pc[p] \in AtLayer => Bank(d).current = Done(d) + 1
    /\ pc[p] \in {"train", "selecting"} => fits[d][Bank(d).current] = 0
    /\ pc[p] \in {"train", "selecting", "fitting"} => checkpoint[d][Bank(d).current] = "none"
    /\ pc[p] \in {"fitting", "fitted"} => fits[d][Bank(d).current] > 0
    /\ pc[p] = "fitted" => Whole(d, Bank(d).current)

\* What the two processes have to do with each other.
SharedOK ==
    /\ validated \/ Installing => Genuine(External)
    /\ imported \/ installed => Genuine(Core)
    /\ receipt => Ready(Core)
    /\ pc[Publisher] \in {"copying", "installed"} => pc[Stage] = "off"
    /\ pc[Publisher] = "copying" => ~made[Core] /\ ~installed
    /\ pc[Publisher] = "installed" => installed
    /\ pc[Stage] \notin {"selecting", "install", "copying", "installed"}

WorkOK(p) == BankOK(Home(p)) /\ PlaceOK(p, Home(p))

Inv == Typed /\ SharedOK /\ \A p \in Processes : WorkOK(p)

-----------------------------------------------------------------------------
(* Manifests *)

LEMMA HomeFacts ==
    /\ Home(Publisher) = External /\ Home(Stage) = Core /\ External # Core /\ Publisher # Stage
    /\ \A p \in Processes : Home(p) \in Banks
    /\ \A p, q \in Processes : Home(p) = Home(q) => p = q
    /\ \A d \in Banks : \E p \in Processes : d = Home(p)
    /\ NumLayers \in Nat /\ NumLayers >= 1 /\ NoFile \notin Manifests
BY BankAssumption DEF Home, Processes, Banks

LEMMA BankType ==
    ASSUME Typed, NEW d \in Banks
    PROVE  /\ Bank(d) \in Manifests /\ Bank(d).current \in 0 .. NumLayers
           /\ Bank(d).layers \in Seq({"succeeded", "failed"}) /\ Done(d) \in Nat
           /\ Bank(d).complete \in BOOLEAN /\ Bank(d).ready \in BOOLEAN
           /\ manifest[d] = NoFile => Bank(d).current = 0 /\ Done(d) = 0 /\ ~Bank(d).complete /\ ~Bank(d).ready
<1>1. NewManifest \in Manifests
  BY HomeFacts DEF NewManifest, Manifests
<1>2. Bank(d) \in Manifests
  BY <1>1 DEF Bank, Typed
<1>3. /\ Bank(d).current \in 0 .. NumLayers /\ Bank(d).layers \in Seq({"succeeded", "failed"})
      /\ Bank(d).complete \in BOOLEAN /\ Bank(d).ready \in BOOLEAN
  BY <1>2 DEF Manifests
<1>4. manifest[d] = NoFile => Bank(d).current = 0 /\ Done(d) = 0 /\ ~Bank(d).complete /\ ~Bank(d).ready
  BY DEF Bank, NewManifest, Done
<1> QED BY <1>2, <1>3, <1>4 DEF Done

\* A manifest on disk is what it was when published.
LEMMA PublishedBank ==
    ASSUME Typed, NEW d \in Banks, NEW m \in Manifests, manifest' = [manifest EXCEPT ![d] = m]
    PROVE  /\ Bank(d)' = m /\ manifest'[d] # NoFile /\ manifest'[d] = m
           /\ manifest' \in [Banks -> Manifests \cup {NoFile}]
           /\ \A e \in Banks : e # d => manifest'[e] = manifest[e]
BY HomeFacts DEF Typed, Bank

LEMMA WithCurrent ==
    ASSUME NEW m \in Manifests, NEW c \in 0 .. NumLayers, NEW k, k = [m EXCEPT !.current = c]
    PROVE  /\ k \in Manifests /\ k.current = c /\ k.layers = m.layers
           /\ k.complete = m.complete /\ k.ready = m.ready
BY DEF Manifests

LEMMA WithOutcome ==
    ASSUME NEW m \in Manifests, NEW o \in {"succeeded", "failed"}, NEW k,
           k = [m EXCEPT !.current = 0, !.layers = Append(@, o)]
    PROVE  /\ k \in Manifests /\ k.current = 0 /\ k.layers = Append(m.layers, o)
           /\ k.complete = m.complete /\ k.ready = m.ready
<1> DEFINE j == [m EXCEPT !.current = 0]
<1>1. /\ j \in Manifests /\ j.current = 0 /\ j.layers = m.layers
      /\ j.complete = m.complete /\ j.ready = m.ready
  BY HomeFacts DEF Manifests
<1>2. k = [j EXCEPT !.layers = Append(m.layers, o)]
  BY DEF Manifests
<1>3. Append(m.layers, o) \in Seq({"succeeded", "failed"})
  BY DEF Manifests
<1> HIDE DEF j
<1> QED BY <1>1, <1>2, <1>3 DEF Manifests

LEMMA WithCompletion ==
    ASSUME NEW m \in Manifests, NEW b \in BOOLEAN, NEW k, k = [m EXCEPT !.complete = TRUE, !.ready = b]
    PROVE  /\ k \in Manifests /\ k.current = m.current /\ k.layers = m.layers
           /\ k.complete = TRUE /\ k.ready = b
<1> DEFINE j == [m EXCEPT !.complete = TRUE]
<1>1. /\ j \in Manifests /\ j.current = m.current /\ j.layers = m.layers
      /\ j.complete = TRUE /\ j.ready = m.ready
  BY DEF Manifests
<1>2. k = [j EXCEPT !.ready = b]
  BY DEF Manifests
<1> HIDE DEF j
<1> QED BY <1>1, <1>2 DEF Manifests

-----------------------------------------------------------------------------
(* Steps of a bank, as JobAcceptance sees them *)

SamePhases(d) == \A l \in Layers : Phase(d, l)' = Phase(d, l)

Moves(d, l, from, to) ==
    /\ Phase(d, l) = from /\ Phase(d, l)' = to
    /\ \A k \in Layers \ {l} : Phase(d, k)' = Phase(d, k)
    /\ Ready(d)' = Ready(d)

\* What JobAcceptance allows: nothing, the publication, the next phase of a
\* layer, or the one call of it.
BankStep(d) ==
    \/ /\ SamePhases(d) /\ fits'[d] = fits[d]
       /\ Ready(d)' = Ready(d) \/ (Ready(d)' = TRUE /\ \A l \in Layers : Phase(d, l) = "accepted")
    \/ /\ fits'[d] = fits[d]
       /\ \E l \in Layers : \/ Moves(d, l, "open", "reserved")
                            \/ Moves(d, l, "spent", "evidenced")
                            \/ Moves(d, l, "evidenced", "accepted")
    \/ \E l \in Layers : /\ Moves(d, l, "reserved", "spent")
                         /\ fits'[d] = [fits[d] EXCEPT ![l] = @ + 1]

LEMMA PhaseFacts ==
    ASSUME Typed, NEW d \in Banks, NEW l \in Layers
    PROVE  /\ Phase(d, l) = "accepted" <=> Accepted(d, l)
           /\ Phase(d, l) = "evidenced" <=> ~Accepted(d, l) /\ fits[d][l] > 0 /\ Whole(d, l)
           /\ Phase(d, l) = "spent" <=> ~Accepted(d, l) /\ fits[d][l] > 0 /\ ~Whole(d, l)
           /\ Phase(d, l) = "reserved" <=> ~Accepted(d, l) /\ fits[d][l] = 0 /\ (Bank(d).current = l \/ l <= Done(d))
           /\ Phase(d, l) = "open" <=> ~Accepted(d, l) /\ fits[d][l] = 0 /\ ~(Bank(d).current = l \/ l <= Done(d))
           /\ Phase(d, l) \in {"accepted", "evidenced", "spent", "reserved", "open"}
<1>1. fits[d][l] \in Nat
  BY DEF Typed
<1>2. fits[d][l] > 0 \/ fits[d][l] = 0
  BY <1>1
<1>3. ~(fits[d][l] > 0 /\ fits[d][l] = 0)
  BY <1>1
<1> QED BY <1>2, <1>3 DEF Phase

\* Nothing of bank d changes.
Still(d) ==
    /\ manifest'[d] = manifest[d] /\ checkpoint'[d] = checkpoint[d] /\ shards'[d] = shards[d]
    /\ recorded'[d] = recorded[d] /\ made'[d] = made[d] /\ fits'[d] = fits[d]

LEMMA StillBank ==
    ASSUME NEW d \in Banks, manifest'[d] = manifest[d], checkpoint'[d] = checkpoint[d], fits'[d] = fits[d]
    PROVE  /\ Bank(d)' = Bank(d) /\ Done(d)' = Done(d) /\ Ready(d)' = Ready(d)
           /\ SamePhases(d) /\ BankStep(d)
<1>1. Bank(d)' = Bank(d)
  BY DEF Bank
<1>2. Done(d)' = Done(d) /\ Ready(d)' = Ready(d)
  BY <1>1 DEF Done, Ready
<1>3. \A l \in Layers : Whole(d, l)' = Whole(d, l) /\ Accepted(d, l)' = Accepted(d, l)
  BY <1>1, <1>2 DEF Whole, Accepted
<1>4. SamePhases(d)
  BY <1>1, <1>2, <1>3 DEF SamePhases, Phase
<1> QED BY <1>1, <1>2, <1>4 DEF BankStep

LEMMA StillBankOK ==
    ASSUME NEW d \in Banks, BankOK(d), Still(d), altered => altered', Copied(d) => Copied(d)'
    PROVE  BankOK(d)'
<1>1. Bank(d)' = Bank(d) /\ Done(d)' = Done(d)
  BY StillBank DEF Still
<1> QED BY <1>1 DEF BankOK, Still, Whole, Passed

LEMMA StillPlaceOK ==
    ASSUME NEW p \in Processes, NEW d \in Banks, PlaceOK(p, d), Still(d), pc'[p] = pc[p]
    PROVE  PlaceOK(p, d)'
<1>1. Bank(d)' = Bank(d) /\ Done(d)' = Done(d)
  BY StillBank DEF Still
<1> QED BY <1>1 DEF PlaceOK, Still, Whole

\* What a step of p leaves of the other process and of its bank.
LEMMA OtherStays ==
    ASSUME Inv, NEW p \in Processes, NEW w, pc' = [pc EXCEPT ![p] = w],
           altered' = altered, installed' = installed,
           NEW q \in Processes, q # p, Still(Home(q))
    PROVE  WorkOK(q)' /\ BankStep(Home(q)) /\ Ready(Home(q))' = Ready(Home(q))
<1>1. pc'[q] = pc[q] /\ Home(q) \in Banks
  BY HomeFacts DEF Inv, Typed
<1>2. BankOK(Home(q))' /\ PlaceOK(q, Home(q))'
  BY <1>1, StillBankOK, StillPlaceOK DEF Inv, WorkOK, Copied
<1> QED BY <1>1, <1>2, StillBank DEF WorkOK, Still, Home

\* A step of train_transcoders_from_collections disturbs neither receipts nor
\* an installation, once it is known to leave a ready bank ready, and of the
\* shards it was of.
LEMMA CoordinateShared ==
    ASSUME Inv, NEW p \in Processes, NEW w, pc' = [pc EXCEPT ![p] = w],
           pc[p] # "off", ~(p = Publisher /\ Installing),
           w \notin {"install", "copying", "installed"}, p = Stage => w # "selecting",
           UNCHANGED <<receipts, installed>>,
           \A d \in Banks : Ready(d) => Ready(d)' /\ recorded'[d] = recorded[d]
    PROVE  SharedOK'
<1>1. /\ UNCHANGED <<validated, imported, receipt, installed>>
      /\ Ready(Core) => Ready(Core)'
      /\ Genuine(External) => Genuine(External)'
      /\ Genuine(Core) => Genuine(Core)'
  BY DEF receipts, Banks, Genuine
<1>2. CASE p = Stage
  <2>1. pc'[Publisher] = pc[Publisher] /\ pc'[Stage] = w
    BY <1>2, HomeFacts DEF Inv, Typed, Processes
  <2> QED BY <1>1, <1>2, <2>1 DEF Inv, SharedOK, Installing
<1>3. CASE p = Publisher
  <2>1. pc'[Publisher] = w /\ pc'[Stage] = pc[Stage]
    BY <1>3, HomeFacts DEF Inv, Typed, Processes
  <2> QED BY <1>1, <1>3, <2>1 DEF Inv, SharedOK, Installing
<1> QED BY <1>2, <1>3 DEF Processes

\* What remains to be shown of a step of p in its bank d.
LEMMA CoordinateKeeps ==
    ASSUME Inv, NEW p \in Processes, NEW d, d = Home(p), NEW w \in Places, pc' = [pc EXCEPT ![p] = w],
           pc[p] # "off", ~(p = Publisher /\ Installing),
           w \notin {"install", "copying", "installed"}, p = Stage => w # "selecting",
           UNCHANGED <<receipts, installed, altered>>,
           \A e \in Banks : e # d => Still(e),
           Typed', BankOK(d)', PlaceOK(p, d)', Ready(d) => Ready(d)' /\ recorded'[d] = recorded[d],
           BankStep(d)
    PROVE  Inv' /\ \A e \in Banks : BankStep(e)
<1>1. \A q \in Processes : q # p => /\ WorkOK(q)' /\ BankStep(Home(q)) /\ Ready(Home(q))' = Ready(Home(q))
                                   /\ recorded'[Home(q)] = recorded[Home(q)]
  BY OtherStays, HomeFacts DEF Still
<1>2. WorkOK(p)'
  BY DEF WorkOK, Home
<1>3. \A e \in Banks : BankStep(e) /\ (Ready(e) => Ready(e)' /\ recorded'[e] = recorded[e])
  <2> TAKE e \in Banks
  <2>1. PICK q \in Processes : e = Home(q)
    BY HomeFacts
  <2>2. CASE q = p
    BY <2>1, <2>2
  <2>3. CASE q # p
    BY <1>1, <2>1, <2>3
  <2> QED BY <2>2, <2>3
<1>4. SharedOK'
  BY <1>3, CoordinateShared
<1> QED BY <1>1, <1>2, <1>3, <1>4 DEF Inv

\* A step of p that goes on without touching the manifest, checkpoints or fits;
\* digests are recorded only before there is a manifest.
LEMMA MoveKeeps ==
    ASSUME Inv, NEW p \in Processes, NEW d, d = Home(p), NEW w \in Places, pc' = [pc EXCEPT ![p] = w],
           pc[p] # "off", ~(p = Publisher /\ Installing),
           w \notin {"install", "copying", "installed"}, p = Stage => w # "selecting",
           UNCHANGED <<receipts, installed, altered, manifest, checkpoint, fits>>,
           \A e \in Banks : e # d => Still(e),
           shards' \in [Banks -> {"none", "partial", "complete"}], made' \in [Banks -> BOOLEAN],
           recorded' \in [Banks -> Contents \cup {"none"}],
           manifest[d] # NoFile => shards'[d] = "complete" /\ recorded'[d] = recorded[d], made'[d],
           recorded'[d] = "altered" => altered /\ \A l \in Layers : checkpoint[d][l] # "collected",
           PlaceOK(p, d)'
    PROVE  Inv' /\ \A e \in Banks : BankStep(e)
<1>1. d \in Banks /\ Typed'
  BY HomeFacts DEF Inv, Typed
<1>2. Bank(d)' = Bank(d) /\ Done(d)' = Done(d) /\ Ready(d)' = Ready(d) /\ BankStep(d)
  BY <1>1, StillBank
<1>3. /\ BankOK(d) /\ (Bank(d).ready => manifest[d] # NoFile)
      /\ Ready(d) => Ready(d)' /\ recorded'[d] = recorded[d]
  BY <1>1, <1>2, BankType DEF Inv, WorkOK, Ready
<1>4. BankOK(d)'
  BY <1>1, <1>2, <1>3 DEF BankOK, Whole, Passed, Copied
<1> QED BY <1>1, <1>2, <1>3, <1>4, CoordinateKeeps

LEMMA EnterKeeps ==
    ASSUME Inv, NEW p \in Processes, Enter(p)
    PROVE  Inv' /\ \A e \in Banks : BankStep(e)
<1> DEFINE d == Home(p)
<1>1. d \in Banks /\ pc[p] = "enter" /\ (p = Publisher => ~Installing)
  BY HomeFacts DEF Enter, Installing
<1>2. /\ made' = [made EXCEPT ![d] = TRUE] /\ UNCHANGED <<receipts, installed, altered, manifest, checkpoint, fits>>
      /\ shards' = shards /\ recorded' = recorded
      /\ \/ pc' = [pc EXCEPT ![p] = "filter"] /\ NoFiles(d)
         \/ pc' = [pc EXCEPT ![p] = "reverify"] /\ Resumable(d)
         \/ pc' = [pc EXCEPT ![p] = "off"]
  BY DEF Enter, Goto, Raise, Rest
<1> HIDE DEF d
<1>3. /\ made' \in [Banks -> BOOLEAN] /\ made'[d] /\ \A e \in Banks : e # d => made'[e] = made[e]
      /\ shards' \in [Banks -> {"none", "partial", "complete"}] /\ pc \in [Processes -> Places]
      /\ recorded' \in [Banks -> Contents \cup {"none"}]
  BY <1>1, <1>2 DEF Inv, Typed
<1>4. /\ \A e \in Banks : e # d => Still(e)
      /\ manifest[d] # NoFile => shards'[d] = "complete" /\ recorded'[d] = recorded[d]
      /\ recorded'[d] = "altered" => altered /\ \A l \in Layers : checkpoint[d][l] # "collected"
      /\ Bank(d)' = Bank(d)
  BY <1>1, <1>2, <1>3, StillBank DEF Still, Inv, WorkOK, BankOK, d
<1>5. PICK w \in {"filter", "reverify", "off"} :
         /\ pc' = [pc EXCEPT ![p] = w]
         /\ w = "filter" => NoFiles(d)
         /\ w = "reverify" => Resumable(d)
  BY <1>2
<1>6. PlaceOK(p, d)'
  <2>1. pc'[p] = w
    BY <1>3, <1>5
  <2>2. w = "reverify" => Bank(d).current = 0 /\ shards[d] = "complete"
    BY <1>5 DEF Resumable, OnlyKnownFiles
  <2>3. w = "filter" => manifest[d] = NoFile
    BY <1>5 DEF NoFiles
  <2> QED BY <1>2, <1>3, <1>4, <2>1, <2>2, <2>3 DEF PlaceOK, AtLayer
<1>7. w \in Places
  BY DEF Places
<1> QED BY <1>1, <1>2, <1>3, <1>4, <1>5, <1>6, <1>7, MoveKeeps DEF d

LEMMA CheckKeeps ==
    ASSUME Inv, NEW p \in Processes, Check(p)
    PROVE  Inv' /\ \A e \in Banks : BankStep(e)
<1> DEFINE d == Home(p)
<1>1. d \in Banks /\ pc[p] = "filter" /\ (p = Publisher => ~Installing)
  BY HomeFacts DEF Check, Installing
<1>2. /\ UNCHANGED <<receipts, installed, altered, manifest, checkpoint, fits>> /\ made' = made
      /\ recorded' = recorded
      /\ \/ pc' = [pc EXCEPT ![p] = "off"] /\ shards' = shards
         \/ pc' = [pc EXCEPT ![p] = "recording"] /\ shards' = [shards EXCEPT ![d] = "partial"]
  BY DEF Check, Goto, Raise, Rest
<1>3. PICK w \in {"off", "recording"} : pc' = [pc EXCEPT ![p] = w]
  BY <1>2
<1> HIDE DEF d
<1>4. /\ BankOK(d) /\ manifest[d] = NoFile /\ made[d] /\ made \in [Banks -> BOOLEAN]
      /\ pc \in [Processes -> Places] /\ shards \in [Banks -> {"none", "partial", "complete"}]
      /\ recorded \in [Banks -> Contents \cup {"none"}]
  BY <1>1 DEF Inv, Typed, WorkOK, PlaceOK, d
<1>5. shards' \in [Banks -> {"none", "partial", "complete"}] /\ \A e \in Banks : e # d => Still(e)
  BY <1>1, <1>2, <1>4 DEF Still
<1>6. recorded'[d] = "altered" => altered /\ \A l \in Layers : checkpoint[d][l] # "collected"
  BY <1>2, <1>4 DEF BankOK
<1>7. PlaceOK(p, d)'
  <2>1. pc'[p] = w /\ Bank(d)' = Bank(d)
    BY <1>1, <1>2, <1>3, <1>4, StillBank
  <2> QED BY <1>2, <1>4, <2>1 DEF PlaceOK, AtLayer
<1>8. w \in Places
  BY DEF Places
<1> QED BY <1>1, <1>2, <1>3, <1>4, <1>5, <1>6, <1>7, <1>8, MoveKeeps DEF d

LEMMA RecordKeeps ==
    ASSUME Inv, NEW p \in Processes, Record(p)
    PROVE  Inv' /\ \A e \in Banks : BankStep(e)
<1> DEFINE d == Home(p)
<1>1. d \in Banks /\ pc[p] = "recording" /\ (p = Publisher => ~Installing)
  BY HomeFacts DEF Record, Installing
<1>2. /\ UNCHANGED <<receipts, installed, altered, manifest, checkpoint, fits>> /\ made' = made
      /\ \/ /\ pc' = [pc EXCEPT ![p] = "off"]
            /\ shards' = shards /\ recorded' = recorded
         \/ /\ pc' = [pc EXCEPT ![p] = "layer"]
            /\ shards' = [shards EXCEPT ![d] = "complete"]
            /\ recorded' = [recorded EXCEPT ![d] = Content]
  BY DEF Record, Goto, Raise, Rest
<1>3. PICK w \in {"off", "layer"} :
         /\ pc' = [pc EXCEPT ![p] = w]
         /\ w = "off" => shards' = shards /\ recorded' = recorded
         /\ w = "layer" => /\ shards' = [shards EXCEPT ![d] = "complete"]
                           /\ recorded' = [recorded EXCEPT ![d] = Content]
  BY <1>2
<1> HIDE DEF d
<1>4. /\ BankOK(d) /\ manifest[d] = NoFile /\ made[d] /\ made \in [Banks -> BOOLEAN]
      /\ pc \in [Processes -> Places] /\ shards \in [Banks -> {"none", "partial", "complete"}]
      /\ recorded \in [Banks -> Contents \cup {"none"}]
  BY <1>1 DEF Inv, Typed, WorkOK, PlaceOK, d
<1>5. Bank(d).current = 0 /\ Done(d) = 0 /\ ~Bank(d).complete
  BY <1>1, <1>4, BankType DEF Inv
<1>6. /\ shards' \in [Banks -> {"none", "partial", "complete"}]
      /\ recorded' \in [Banks -> Contents \cup {"none"}]
      /\ \A e \in Banks : e # d => Still(e)
      /\ w = "layer" => shards'[d] = "complete" /\ recorded'[d] = Content
  <2>1. Content \in Contents \cup {"none"}
    BY DEF Content, Contents
  <2> QED BY <1>1, <1>2, <1>3, <1>4, <2>1 DEF Still
<1>7. recorded'[d] = "altered" => altered /\ \A l \in Layers : checkpoint[d][l] # "collected"
  <2>1. CASE w = "off"
    BY <1>3, <1>4, <2>1 DEF BankOK
  <2>2. CASE w = "layer"
    \* Nothing was fitted yet.
    <3>1. \A l \in Layers : checkpoint[d][l] = "none"
      BY <1>4, <1>5 DEF BankOK, Layers
    <3> QED BY <1>6, <2>2, <3>1 DEF Content
  <2> QED BY <2>1, <2>2
<1>8. PlaceOK(p, d)'
  <2>1. pc'[p] = w /\ Bank(d)' = Bank(d)
    BY <1>1, <1>2, <1>3, <1>4, StillBank
  <2> QED BY <1>2, <1>4, <1>5, <1>6, <2>1 DEF PlaceOK, AtLayer
<1>9. w \in Places
  BY DEF Places
<1> QED BY <1>1, <1>2, <1>3, <1>4, <1>6, <1>7, <1>8, <1>9, MoveKeeps DEF d

\* The other steps of p that only go on, or raise.
LEMMA GoOnKeeps ==
    ASSUME Inv, NEW p \in Processes, NEW w, pc' = [pc EXCEPT ![p] = w], pc[p] # "off",
           ~(p = Publisher /\ Installing), UNCHANGED <<directory, altered>>, UNCHANGED receipts,
           \/ w = "off"
           \/ pc[p] = "reverify" /\ w = IF Bank(Home(p)).complete THEN "trained" ELSE "layer"
           \/ pc[p] \in {"train", "fitting"} /\ w = "unfitted"
           \/ p = Publisher /\ pc[p] = "train" /\ w = "selecting"
           \/ p = Publisher /\ pc[p] = "selecting" /\ w = "train"
    PROVE  Inv' /\ \A e \in Banks : BankStep(e)
<1> DEFINE d == Home(p)
<1>1. d \in Banks /\ UNCHANGED <<receipts, installed, altered, manifest, checkpoint, fits, shards, recorded, made>>
  BY HomeFacts DEF directory
<1> HIDE DEF d
<1>2. CASE w = "off" /\ ~made[d]
  <2>1. pc[p] = "enter"
    BY <1>1, <1>2 DEF Inv, WorkOK, PlaceOK, d
  <2>2. PlaceOK(p, d)' /\ BankOK(d)' /\ Typed' /\ (\A e \in Banks : Still(e))
    <3>1. pc'[p] = "off" /\ pc' \in [Processes -> Places]
      BY <1>2 DEF Inv, Typed, Places
    <3>2. \A e \in Banks : Still(e)
      BY <1>1 DEF Still
    <3>3. BankOK(d)'
      BY <1>1, <3>2, StillBankOK DEF Inv, WorkOK, Copied, d
    <3> QED BY <1>1, <3>1, <3>2, <3>3 DEF PlaceOK, AtLayer, Inv, Typed
  <2>3. BankStep(d) /\ Ready(d)' = Ready(d)
    BY <1>1, StillBank
  <2>4. w \in Places
    BY <1>2 DEF Places
  <2> QED BY <1>1, <1>2, <2>2, <2>3, <2>4, CoordinateKeeps DEF d
<1>3. CASE w # "off" \/ made[d]
  <2>1. /\ made[d] /\ (manifest[d] # NoFile => shards[d] = "complete")
        /\ shards \in [Banks -> {"none", "partial", "complete"}] /\ made \in [Banks -> BOOLEAN]
        /\ pc \in [Processes -> Places] /\ w \in Places
        /\ w \notin {"install", "copying", "installed"}
        /\ recorded \in [Banks -> Contents \cup {"none"}]
        /\ recorded[d] = "altered" => altered /\ \A l \in Layers : checkpoint[d][l] # "collected"
    BY <1>1, <1>3 DEF Inv, Typed, WorkOK, PlaceOK, BankOK, Places, d
  <2>2. \A e \in Banks : e # d => Still(e)
    BY <1>1 DEF Still
  <2>3. PlaceOK(p, d)'
    <3>1. pc'[p] = w /\ Bank(d)' = Bank(d) /\ Done(d)' = Done(d)
      BY <1>1, <2>1, StillBank
    <3>2. PlaceOK(p, d) /\ BankOK(d)
      BY <1>1 DEF Inv, WorkOK, d
    <3> QED BY <1>1, <2>1, <3>1, <3>2 DEF PlaceOK, AtLayer, Whole, d
  <2>4. p = Stage => w # "selecting"
    BY HomeFacts
  <2>5. /\ shards' \in [Banks -> {"none", "partial", "complete"}] /\ made' \in [Banks -> BOOLEAN]
        /\ recorded' \in [Banks -> Contents \cup {"none"}]
        /\ manifest[d] # NoFile => shards'[d] = "complete" /\ recorded'[d] = recorded[d]
        /\ recorded'[d] = "altered" => altered /\ \A l \in Layers : checkpoint[d][l] # "collected"
        /\ made'[d]
    BY <1>1, <2>1
  <2> QED BY <1>1, <2>1, <2>2, <2>3, <2>4, <2>5, MoveKeeps DEF d
<1> QED BY <1>2, <1>3

\* A step of p that publishes manifest m and goes to w.
LEMMA PublishKeeps ==
    ASSUME Inv, NEW p \in Processes, NEW d, d = Home(p), NEW w \in {"train", "layer", "trained"},
           pc' = [pc EXCEPT ![p] = w],
           pc[p] # "off", ~(p = Publisher /\ Installing), made[d],
           NEW m \in Manifests, manifest' = [manifest EXCEPT ![d] = m],
           UNCHANGED <<receipts, installed, altered, checkpoint, fits, shards, recorded, made>>,
           BankOK(d)', PlaceOK(p, d)', Ready(d) => Ready(d)', BankStep(d)
    PROVE  Inv' /\ \A e \in Banks : BankStep(e)
<1>1. d \in Banks /\ w \in Places /\ Typed /\ w \notin {"install", "copying", "installed", "selecting"}
  BY HomeFacts DEF Places, Inv
<1>2. manifest' \in [Banks -> Manifests \cup {NoFile}] /\ \A e \in Banks : e # d => manifest'[e] = manifest[e]
  BY <1>1, PublishedBank
<1>3. Typed' /\ \A e \in Banks : e # d => Still(e)
  BY <1>1, <1>2 DEF Typed, Still
<1> QED BY <1>1, <1>3, CoordinateKeeps

LEMMA BeginLayerKeeps ==
    ASSUME Inv, NEW p \in Processes, BeginLayer(p)
    PROVE  Inv' /\ \A e \in Banks : BankStep(e)
<1> DEFINE d == Home(p)
           c == Done(d) + 1
           m == [Bank(d) EXCEPT !.current = c]
<1>1. /\ d \in Banks /\ pc[p] = "layer" /\ ~(p = Publisher /\ Installing) /\ Done(d) < NumLayers
      /\ pc' = [pc EXCEPT ![p] = "train"] /\ manifest' = [manifest EXCEPT ![d] = m]
      /\ UNCHANGED <<receipts, installed, altered, checkpoint, fits, shards, recorded, made>>
  BY HomeFacts DEF BeginLayer, Publish, Rest, Goto, Installing
<1>2. /\ Typed /\ BankOK(d) /\ PlaceOK(p, d) /\ Bank(d) \in Manifests /\ Done(d) \in Nat /\ c \in Layers
      /\ Bank(d).layers \in Seq({"succeeded", "failed"}) /\ c \in 0 .. NumLayers
  BY <1>1, BankType, HomeFacts DEF Inv, WorkOK, Layers
<1>3. /\ m \in Manifests /\ m.current = c /\ m.layers = Bank(d).layers
      /\ m.complete = Bank(d).complete /\ m.ready = Bank(d).ready
  BY <1>2, WithCurrent
<1> HIDE DEF m, d
<1>4. Bank(d)' = m /\ manifest'[d] # NoFile
  BY <1>1, <1>2, <1>3, PublishedBank
<1>5. Done(d)' = Done(d) /\ Ready(d)' = Ready(d)
  BY <1>3, <1>4 DEF Done, Ready
<1>6. pc'[p] = "train" /\ made[d] /\ shards[d] = "complete" /\ ~Bank(d).complete /\ Bank(d).current = 0
  BY <1>1, <1>2 DEF Typed, PlaceOK
<1>7. checkpoint[d][c] = "none" /\ fits[d][c] = 0
  BY <1>2, <1>6 DEF BankOK
<1>8. BankOK(d)'
  BY <1>1, <1>2, <1>3, <1>4, <1>5, <1>6, <1>7 DEF BankOK, Whole, Passed, Copied
<1>9. PlaceOK(p, d)'
  BY <1>1, <1>3, <1>4, <1>5, <1>6, <1>7 DEF PlaceOK, AtLayer
<1>10. Moves(d, c, "open", "reserved")
  <2>1. \A l \in Layers : Accepted(d, l)' = Accepted(d, l) /\ Whole(d, l)' = Whole(d, l)
    BY <1>1, <1>3, <1>4, <1>5 DEF Accepted, Whole
  <2>2. ~Accepted(d, c)
    BY <1>2 DEF Accepted
  <2>3. Phase(d, c) = "open" /\ Phase(d, c)' = "reserved"
    BY <1>1, <1>2, <1>3, <1>4, <1>5, <1>6, <1>7, <2>1, <2>2 DEF Phase
  <2>4. \A k \in Layers \ {c} : Phase(d, k)' = Phase(d, k)
    <3> SUFFICES ASSUME NEW k \in Layers \ {c} PROVE Phase(d, k)' = Phase(d, k)
      OBVIOUS
    <3>1. Bank(d)'.current # k /\ Bank(d).current # k
      BY <1>3, <1>4, <1>6 DEF Layers
    <3> QED BY <1>1, <1>5, <2>1, <3>1 DEF Phase
  <2> QED BY <1>5, <2>3, <2>4 DEF Moves
<1>11. BankStep(d)
  BY <1>1, <1>2, <1>10 DEF BankStep
<1> QED BY <1>1, <1>3, <1>5, <1>6, <1>8, <1>9, <1>11, PublishKeeps DEF d

LEMMA BeginFitKeeps ==
    ASSUME Inv, NEW p \in Processes, pc[p] = "train", BeginFit(p),
           UNCHANGED <<manifest, checkpoint, shards, recorded, made>>, Rest
    PROVE  Inv' /\ \A e \in Banks : BankStep(e)
<1> DEFINE d == Home(p)
           c == Bank(d).current
<1>1. /\ d \in Banks /\ ~(p = Publisher /\ Installing)
      /\ pc' = [pc EXCEPT ![p] = "fitting"] /\ fits' = [fits EXCEPT ![d][c] = @ + 1]
      /\ UNCHANGED <<receipts, installed, altered, manifest, checkpoint, shards, recorded, made>>
  BY HomeFacts DEF BeginFit, Rest, Goto, Installing, Current
<1>2. /\ Typed /\ BankOK(d) /\ PlaceOK(p, d) /\ Done(d) \in Nat /\ c \in Layers /\ c = Done(d) + 1
      /\ fits[d][c] = 0 /\ checkpoint[d][c] = "none" /\ made[d]
  BY <1>1, BankType, HomeFacts DEF Inv, WorkOK, PlaceOK, AtLayer, Layers
<1> HIDE DEF d
<1>3. /\ fits' \in [Banks -> [Layers -> Nat]] /\ fits'[d] = [fits[d] EXCEPT ![c] = @ + 1] /\ fits'[d][c] = 1
      /\ \A k \in Layers \ {c} : fits'[d][k] = fits[d][k]
      /\ \A e \in Banks : e # d => fits'[e] = fits[e]
  BY <1>1, <1>2 DEF Typed
<1>4. Bank(d)' = Bank(d) /\ Done(d)' = Done(d) /\ Ready(d)' = Ready(d)
  BY <1>1 DEF Bank, Done, Ready
<1>5. pc'[p] = "fitting" /\ "fitting" \in Places
  BY <1>1, <1>2 DEF Typed, Places
<1>6. Typed' /\ \A e \in Banks : e # d => Still(e)
  BY <1>1, <1>2, <1>3, <1>5 DEF Typed, Still
<1>7. BankOK(d)'
  <2>1. \A l \in Layers : l <= Done(d) => fits'[d][l] = fits[d][l]
    BY <1>2, <1>3 DEF Layers
  <2>2. \A l \in Layers : l > Done(d) /\ l # c => fits'[d][l] = fits[d][l]
    BY <1>3
  <2> HIDE DEF c
  <2>3. \A l \in Layers :
          /\ l <= Done(d) /\ Bank(d).layers[l] = "succeeded" =>
                Whole(d, l)' /\ (fits'[d][l] > 0 \/ Copied(d)')
          /\ l > Done(d) /\ l # Bank(d).current => checkpoint'[d][l] = "none" /\ fits'[d][l] = 0
          /\ checkpoint'[d][l] = "altered" => altered'
    BY <1>1, <1>2, <2>1, <2>2 DEF BankOK, Whole, Copied, c
  <2> QED BY <1>1, <1>2, <1>4, <2>3 DEF BankOK, Passed, Whole
<1>8. PlaceOK(p, d)'
  BY <1>1, <1>2, <1>3, <1>4, <1>5 DEF PlaceOK, AtLayer
<1>9. Moves(d, c, "reserved", "spent")
  <2>1. \A l \in Layers : Accepted(d, l)' = Accepted(d, l) /\ Whole(d, l)' = Whole(d, l)
    BY <1>1, <1>4 DEF Accepted, Whole
  <2>2. ~Accepted(d, c) /\ ~Whole(d, c)
    BY <1>2 DEF Accepted, Whole
  <2>3. Phase(d, c) = "reserved" /\ Phase(d, c)' = "spent"
    BY <1>2, <1>3, <1>4, <2>1, <2>2 DEF Phase
  <2>4. \A k \in Layers \ {c} : Phase(d, k)' = Phase(d, k)
    BY <1>3, <1>4, <2>1 DEF Phase
  <2> QED BY <1>4, <2>3, <2>4 DEF Moves
<1>10. BankStep(d)
  BY <1>2, <1>3, <1>9 DEF BankStep
<1> QED BY <1>1, <1>2, <1>4, <1>5, <1>6, <1>7, <1>8, <1>10, CoordinateKeeps DEF d

LEMMA SaveFitKeeps ==
    ASSUME Inv, NEW p \in Processes, SaveFit(p)
    PROVE  Inv' /\ \A e \in Banks : BankStep(e)
<1> DEFINE d == Home(p)
           c == Bank(d).current
           x == Content
<1>1. /\ d \in Banks /\ ~(p = Publisher /\ Installing) /\ pc[p] = "fitting"
      /\ pc' = [pc EXCEPT ![p] = "fitted"] /\ checkpoint' = [checkpoint EXCEPT ![d][c] = x]
      /\ x \in Contents /\ (x = "altered" <=> altered)
      /\ UNCHANGED <<receipts, installed, altered, manifest, fits, shards, recorded, made>>
  BY HomeFacts DEF SaveFit, Rest, Goto, Installing, Current, Content, Contents
<1>2. /\ Typed /\ BankOK(d) /\ PlaceOK(p, d) /\ Done(d) \in Nat /\ c \in Layers /\ c = Done(d) + 1
      /\ fits[d][c] > 0 /\ checkpoint[d][c] = "none" /\ made[d] /\ ~Bank(d).complete /\ ~Bank(d).ready
  BY <1>1, BankType, HomeFacts DEF Inv, WorkOK, PlaceOK, BankOK, AtLayer, Layers
<1> HIDE DEF d
<1>3. /\ checkpoint' \in [Banks -> [Layers -> Contents \cup {"none"}]] /\ checkpoint'[d][c] = x
      /\ \A k \in Layers \ {c} : checkpoint'[d][k] = checkpoint[d][k]
      /\ \A e \in Banks : e # d => checkpoint'[e] = checkpoint[e]
  BY <1>1, <1>2 DEF Typed
<1>4. Bank(d)' = Bank(d) /\ Done(d)' = Done(d) /\ Ready(d)' = Ready(d)
  BY <1>1 DEF Bank, Done, Ready
<1>5. pc'[p] = "fitted" /\ "fitted" \in Places
  BY <1>1, <1>2 DEF Typed, Places
<1>6. Typed' /\ \A e \in Banks : e # d => Still(e)
  BY <1>1, <1>2, <1>3, <1>5 DEF Typed, Still
<1>7. BankOK(d)'
  <2>1. \A l \in Layers : l <= Done(d) => checkpoint'[d][l] = checkpoint[d][l]
    BY <1>2, <1>3 DEF Layers
  <2>2. \A l \in Layers : l > Done(d) /\ l # c => checkpoint'[d][l] = checkpoint[d][l]
    BY <1>3
  <2>3. \A l \in Layers : checkpoint'[d][l] = "altered" => altered
    BY <1>1, <1>2, <1>3 DEF BankOK
  <2>5. recorded[d] = "altered" => altered /\ \A l \in Layers : checkpoint'[d][l] # "collected"
    BY <1>1, <1>2, <1>3 DEF BankOK, Contents
  <2> HIDE DEF c, x
  <2>4. \A l \in Layers :
          /\ l <= Done(d) /\ Bank(d).layers[l] = "succeeded" =>
                Whole(d, l)' /\ (fits'[d][l] > 0 \/ Copied(d)')
          /\ l > Done(d) /\ l # Bank(d).current => checkpoint'[d][l] = "none" /\ fits'[d][l] = 0
          /\ checkpoint'[d][l] = "altered" => altered'
    BY <1>1, <1>2, <2>1, <2>2, <2>3 DEF BankOK, Whole, Copied, c
  <2> QED BY <1>1, <1>2, <1>4, <2>4, <2>5 DEF BankOK, Passed
<1>8. PlaceOK(p, d)'
  <2>1. Whole(d, c)'
    BY <1>1, <1>3, <1>4 DEF Whole, Contents
  <2> QED BY <1>1, <1>2, <1>3, <1>4, <1>5, <2>1 DEF PlaceOK, AtLayer
<1>9. Moves(d, c, "spent", "evidenced")
  <2>1. \A l \in Layers : Accepted(d, l)' = Accepted(d, l)
    BY <1>1, <1>4 DEF Accepted
  <2>2. ~Accepted(d, c) /\ ~Whole(d, c) /\ Whole(d, c)'
    BY <1>1, <1>2, <1>3, <1>4 DEF Accepted, Whole, Contents
  <2>3. Phase(d, c) = "spent" /\ Phase(d, c)' = "evidenced"
    BY <1>1, <1>2, <1>3, <1>4, <2>1, <2>2 DEF Phase
  <2>4. \A k \in Layers \ {c} : Phase(d, k)' = Phase(d, k)
    BY <1>1, <1>3, <1>4, <2>1 DEF Phase, Whole
  <2> QED BY <1>4, <2>3, <2>4 DEF Moves
<1>10. BankStep(d)
  BY <1>1, <1>2, <1>9 DEF BankStep
<1> QED BY <1>1, <1>2, <1>4, <1>5, <1>6, <1>7, <1>8, <1>10, CoordinateKeeps DEF d

LEMMA EndLayerKeeps ==
    ASSUME Inv, NEW p \in Processes, EndLayer(p)
    PROVE  Inv' /\ \A e \in Banks : BankStep(e)
<1> DEFINE d == Home(p)
<1>1. PICK o \in {"succeeded", "failed"} :
         /\ o = "succeeded" => pc[p] = "fitted"
         /\ manifest' = [manifest EXCEPT ![d] = [Bank(d) EXCEPT !.current = 0, !.layers = Append(@, o)]]
  BY DEF EndLayer, Publish
<1>2. /\ d \in Banks /\ ~(p = Publisher /\ Installing) /\ pc[p] \in {"fitted", "unfitted"}
      /\ pc' = [pc EXCEPT ![p] = "layer"]
      /\ UNCHANGED <<receipts, installed, altered, checkpoint, fits, shards, recorded, made>>
  BY HomeFacts DEF EndLayer, Publish, Rest, Goto, Installing
<1> DEFINE m == [Bank(d) EXCEPT !.current = 0, !.layers = Append(@, o)]
<1>3. /\ Typed /\ BankOK(d) /\ PlaceOK(p, d) /\ Bank(d) \in Manifests /\ Done(d) \in Nat
      /\ Bank(d).layers \in Seq({"succeeded", "failed"}) /\ made[d]
      /\ Bank(d).current = Done(d) + 1 /\ Done(d) + 1 \in Layers /\ ~Bank(d).complete /\ ~Bank(d).ready
      /\ manifest[d] # NoFile
  <2>1. Typed /\ BankOK(d) /\ PlaceOK(p, d)
    BY DEF Inv, WorkOK
  <2> HIDE DEF d
  <2>2. /\ Bank(d) \in Manifests /\ Done(d) \in Nat /\ Bank(d).current \in 0 .. NumLayers
        /\ Bank(d).layers \in Seq({"succeeded", "failed"}) /\ Bank(d).complete \in BOOLEAN
        /\ manifest[d] = NoFile => Bank(d).current = 0
    BY <1>2, <2>1, BankType
  <2>3. made[d] /\ Bank(d).current = Done(d) + 1
    BY <1>2, <2>1 DEF PlaceOK, AtLayer
  <2>4. ~Bank(d).complete /\ ~Bank(d).ready
    BY <2>1, <2>2, <2>3 DEF BankOK
  <2> QED BY <2>1, <2>2, <2>3, <2>4, HomeFacts DEF Layers
<1>4. /\ m \in Manifests /\ m.current = 0 /\ m.layers = Append(Bank(d).layers, o)
      /\ m.complete = Bank(d).complete /\ m.ready = Bank(d).ready
  <2>1. Bank(d) \in Manifests /\ o \in {"succeeded", "failed"}
    BY <1>3
  <2> QED BY ONLY <2>1, WithOutcome, Zenon
<1>5. manifest' = [manifest EXCEPT ![d] = m]
  BY <1>1
<1> HIDE DEF m, d
<1>6. PICK c \in Layers : c = Done(d) + 1
  BY <1>3
<1>7. Bank(d)' = m /\ manifest'[d] # NoFile
  BY <1>2, <1>3, <1>4, <1>5, PublishedBank
<1>8. /\ Done(d)' = c /\ Bank(d)'.layers[c] = o
      /\ \A l \in Layers : l <= Done(d) => Bank(d)'.layers[l] = Bank(d).layers[l]
  BY <1>3, <1>4, <1>6, <1>7 DEF Done, Layers
<1>9. pc'[p] = "layer" /\ shards[d] = "complete"
  BY <1>2, <1>3 DEF Typed, BankOK
<1>10. o = "succeeded" => Whole(d, c) /\ fits[d][c] > 0
  BY <1>1, <1>3, <1>6 DEF PlaceOK
<1>11. \A l \in Layers : /\ l <= c <=> l <= Done(d) \/ l = c
                         /\ l > c <=> l > Done(d) /\ l # c
  BY <1>3, <1>6 DEF Layers
<1>12. BankOK(d)'
  <2>1. \A l \in Layers : l <= c /\ Bank(d)'.layers[l] = "succeeded" =>
                Whole(d, l) /\ (fits[d][l] > 0 \/ Copied(d))
    BY <1>3, <1>8, <1>10, <1>11 DEF BankOK
  <2>2. \A l \in Layers : l > c => checkpoint[d][l] = "none" /\ fits[d][l] = 0
    BY <1>3, <1>6, <1>11 DEF BankOK
  <2>3. c <= NumLayers /\ ~Bank(d)'.complete /\ ~Bank(d)'.ready /\ Bank(d)'.current = 0
    BY <1>3, <1>4, <1>7 DEF Layers
  <2> QED BY <1>2, <1>3, <1>7, <1>8, <1>9, <2>1, <2>2, <2>3 DEF BankOK, Whole, Copied
<1>13. PlaceOK(p, d)'
  BY <1>2, <1>3, <1>4, <1>7, <1>9 DEF PlaceOK, AtLayer
<1>14. \A l \in Layers : Whole(d, l)' = Whole(d, l) /\ fits'[d][l] = fits[d][l]
  BY <1>2 DEF Whole
<1>15. \A l \in Layers \ {c} : Accepted(d, l)' = Accepted(d, l) /\ Phase(d, l)' = Phase(d, l)
  <2> TAKE l \in Layers \ {c}
  <2>1. Accepted(d, l)' = Accepted(d, l)
    BY <1>8, <1>11 DEF Accepted
  <2>2. (Bank(d)'.current = l \/ l <= c) <=> (Bank(d).current = l \/ l <= Done(d))
    BY <1>3, <1>4, <1>6, <1>7, <1>11 DEF Layers
  <2> QED BY <1>8, <1>14, <2>1, <2>2 DEF Phase
<1>16. ~Accepted(d, c) /\ (Accepted(d, c)' <=> o = "succeeded")
  BY <1>3, <1>6, <1>8 DEF Accepted
<1>17. BankStep(d)
  <2>1. Ready(d)' = Ready(d) /\ fits'[d] = fits[d]
    BY <1>2, <1>3, <1>4, <1>7 DEF Ready
  <2>2. CASE o = "succeeded"
    <3>1. Phase(d, c) = "evidenced" /\ Phase(d, c)' = "accepted"
      BY <1>10, <1>14, <1>16, <2>2 DEF Phase
    <3> QED BY <1>15, <2>1, <3>1 DEF BankStep, Moves
  <2>3. CASE o = "failed"
    <3>1. Phase(d, c)' = Phase(d, c)
      <4>1. Bank(d).current = c /\ c <= Done(d)'
        BY <1>3, <1>6, <1>8
      <4>2. ~Accepted(d, c) /\ ~Accepted(d, c)' /\ fits[d][c] \in Nat /\ fits'[d][c] = fits[d][c]
        BY <1>2, <1>3, <1>14, <1>16, <2>3 DEF Typed
      <4> QED BY <1>14, <4>1, <4>2 DEF Phase
    <3> QED BY <1>15, <2>1, <3>1 DEF BankStep, SamePhases
  <2> QED BY <2>2, <2>3
<1>18. Ready(d) => Ready(d)'
  BY <1>3 DEF Ready
<1> QED BY <1>2, <1>3, <1>4, <1>5, <1>12, <1>13, <1>17, <1>18, PublishKeeps DEF d

LEMMA FinishKeeps ==
    ASSUME Inv, NEW p \in Processes, Finish(p)
    PROVE  Inv' /\ \A e \in Banks : BankStep(e)
<1> DEFINE d == Home(p)
           r == Passed(Bank(d)) /\ SourcesUnchanged(d)
           m == [Bank(d) EXCEPT !.complete = TRUE, !.ready = r]
<1>1. /\ d \in Banks /\ pc[p] = "layer" /\ ~(p = Publisher /\ Installing) /\ Done(d) = NumLayers
      /\ pc' = [pc EXCEPT ![p] = "trained"] /\ manifest' = [manifest EXCEPT ![d] = m]
      /\ UNCHANGED <<receipts, installed, altered, checkpoint, fits, shards, recorded, made>>
  BY HomeFacts DEF Finish, Publish, Rest, Goto, Installing
<1>2. /\ Typed /\ BankOK(d) /\ PlaceOK(p, d) /\ Bank(d) \in Manifests /\ Done(d) \in Nat
      /\ Bank(d).layers \in Seq({"succeeded", "failed"}) /\ made[d] /\ shards[d] = "complete"
      /\ Bank(d).current = 0 /\ ~Bank(d).complete /\ ~Bank(d).ready /\ r \in BOOLEAN
  BY <1>1, BankType, HomeFacts DEF Inv, WorkOK, PlaceOK, BankOK, Passed, SourcesUnchanged
<1>3. r => recorded[d] = Content /\ Passed(Bank(d))
  BY DEF SourcesUnchanged
<1> HIDE DEF r
<1>4. /\ m \in Manifests /\ m.current = 0 /\ m.layers = Bank(d).layers
      /\ m.complete = TRUE /\ m.ready = r
  BY <1>2, WithCompletion
<1> HIDE DEF m, d
<1>5. Bank(d)' = m /\ manifest'[d] # NoFile
  BY <1>1, <1>2, <1>4, PublishedBank
<1>6. /\ Done(d)' = Done(d) /\ Bank(d)'.layers = Bank(d).layers
      /\ Bank(d)'.complete /\ Bank(d)'.ready = r /\ Bank(d)'.current = 0
  BY <1>4, <1>5 DEF Done
<1>7. r => \A l \in Layers : Accepted(d, l) /\ Whole(d, l) /\ checkpoint[d][l] = recorded[d]
  <2> SUFFICES ASSUME r, NEW l \in Layers
               PROVE  Accepted(d, l) /\ Whole(d, l) /\ checkpoint[d][l] = recorded[d]
    OBVIOUS
  <2>1. l \in DOMAIN Bank(d).layers /\ l <= Done(d)
    BY <1>1, <1>2 DEF Layers, Done
  <2>2. Accepted(d, l)
    BY <1>3, <2>1 DEF Passed, Accepted
  <2>3. /\ Whole(d, l) /\ (checkpoint[d][l] = "altered" => altered)
        /\ recorded[d] = "altered" => checkpoint[d][l] # "collected"
    BY <1>2, <2>1, <2>2 DEF BankOK, Accepted
  <2>4. checkpoint[d][l] \in Contents
    BY <1>1, <1>2, <2>3 DEF Typed, Whole
  <2> QED BY <1>3, <2>2, <2>3, <2>4 DEF Content, Contents
<1>8. pc'[p] = "trained"
  BY <1>1, <1>2 DEF Typed
<1>9. BankOK(d)'
  BY <1>1, <1>2, <1>3, <1>5, <1>6, <1>7 DEF BankOK, Whole, Passed, Copied
<1>10. PlaceOK(p, d)'
  BY <1>1, <1>2, <1>8 DEF PlaceOK, AtLayer
<1>11. SamePhases(d)
  <2>1. \A l \in Layers : Accepted(d, l)' = Accepted(d, l) /\ Whole(d, l)' = Whole(d, l)
    BY <1>1, <1>6 DEF Accepted, Whole
  <2> QED BY <1>1, <1>2, <1>6, <2>1 DEF SamePhases, Phase
<1>12. BankStep(d)
  <2>1. ~Ready(d) /\ Ready(d) \in BOOLEAN /\ Ready(d)' = r
    BY <1>2, <1>6 DEF Ready
  <2>2. r => \A l \in Layers : Phase(d, l) = "accepted"
    BY <1>1, <1>2, <1>7, PhaseFacts
  <2>3. fits'[d] = fits[d]
    BY <1>1
  <2> QED BY <1>2, <1>11, <2>1, <2>2, <2>3 DEF BankStep
<1>13. Ready(d) => Ready(d)'
  BY <1>2 DEF Ready
<1> QED BY <1>1, <1>2, <1>4, <1>9, <1>10, <1>12, <1>13, PublishKeeps DEF d

-----------------------------------------------------------------------------
(* The publisher *)

\* A step of the publisher behind its training, before it copies anything.
LEMMA PublisherOnly ==
    ASSUME Inv, NEW w \in {"off", "install", "copying"}, pc[Publisher] \in {"trained", "install", "installed"},
           pc' = [pc EXCEPT ![Publisher] = w], UNCHANGED <<directory, altered>>, receipt' = receipt,
           validated' => Genuine(External), imported' => Genuine(Core),
           w = "install" => Genuine(External),
           w = "copying" => Genuine(External) /\ pc[Stage] = "off" /\ ~made[Core]
    PROVE  Inv' /\ \A e \in Banks : BankStep(e)
<1>1. /\ UNCHANGED <<installed, altered, manifest, checkpoint, fits, shards, recorded, made>>
      /\ w \in Places /\ Publisher \in Processes /\ Stage \in Processes /\ Publisher # Stage
      /\ External \in Banks /\ Core \in Banks /\ Home(Stage) = Core /\ Home(Publisher) = External
  BY HomeFacts DEF directory, Places, Processes, Banks
<1>2. pc'[Publisher] = w /\ pc'[Stage] = pc[Stage] /\ Typed'
  BY <1>1 DEF Inv, Typed
<1>3. \A d \in Banks : Bank(d)' = Bank(d) /\ Done(d)' = Done(d) /\ Ready(d)' = Ready(d) /\ BankStep(d) /\ Still(d)
  BY <1>1, StillBank DEF Still
<1>4. WorkOK(Stage)'
  BY <1>1, <1>2, <1>3, StillBankOK, StillPlaceOK DEF Inv, WorkOK, Copied
<1>5. WorkOK(Publisher)'
  <2>1. BankOK(External)'
    BY <1>1, <1>3, StillBankOK DEF Inv, WorkOK, Copied
  <2>2. PlaceOK(Publisher, External)'
    BY <1>1, <1>2 DEF PlaceOK, AtLayer, Inv, WorkOK
  <2> QED BY <1>1, <2>1, <2>2 DEF WorkOK
<1>6. SharedOK'
  <2>1. installed => Genuine(Core) /\ made[Core]
    <3>1. Ready(Core) => made[Core]
      BY <1>1, BankType DEF Inv, WorkOK, BankOK, Ready
    <3> QED BY <3>1 DEF Inv, SharedOK, Genuine
  <2>2. Genuine(External)' = Genuine(External) /\ Genuine(Core)' = Genuine(Core)
    BY <1>1, <1>3 DEF Genuine
  <2> QED BY <1>1, <1>2, <1>3, <2>1, <2>2 DEF Inv, SharedOK, Installing
<1> QED BY <1>1, <1>2, <1>3, <1>4, <1>5, <1>6 DEF Inv, Processes

LEMMA ValidateKeeps ==
    ASSUME Inv, Validate
    PROVE  Inv' /\ \A e \in Banks : BankStep(e)
<1>1. PICK w \in {"off", "install"} :
         /\ pc' = [pc EXCEPT ![Publisher] = w]
         /\ w = "install" => Ready(External) /\ ~altered
         /\ validated' => validated \/ (Ready(External) /\ ~altered)
  BY DEF Validate, Provenance, Goto, Raise
<1>2. /\ UNCHANGED <<directory, altered>> /\ receipt' = receipt /\ imported' = imported
      /\ pc[Publisher] \in {"trained", "install", "installed"} /\ w \in {"off", "install", "copying"}
  BY <1>1 DEF Validate, Publishing
\* The shards are checked against the collections once more.
<1>3. Ready(External) /\ ~altered => Genuine(External)
  <2>1. /\ BankOK(External) /\ recorded[External] \in Contents \cup {"none"}
        /\ 1 \in Layers /\ checkpoint[External][1] \in Contents \cup {"none"}
    <3>1. External \in Banks /\ Publisher \in Processes /\ 1 \in Layers
      BY HomeFacts DEF Processes, Banks, Layers
    <3> QED BY <3>1, HomeFacts DEF Inv, WorkOK, Typed
  <2> QED BY <2>1 DEF BankOK, Ready, Genuine, Whole, Contents
<1>4. (validated' => Genuine(External)) /\ (imported' => Genuine(Core)) /\ w # "copying"
      /\ (w = "install" => Genuine(External))
  BY <1>1, <1>2, <1>3 DEF Inv, SharedOK
<1> QED BY <1>1, <1>2, <1>4, PublisherOnly

LEMMA BeginInstallKeeps ==
    ASSUME Inv, BeginInstall
    PROVE  Inv' /\ \A e \in Banks : BankStep(e)
<1>1. PICK w \in {"off", "copying"} :
         /\ pc' = [pc EXCEPT ![Publisher] = w]
         /\ w = "copying" => ~made[Core]
  BY DEF BeginInstall, Goto, Raise
<1>2. /\ UNCHANGED <<directory, altered>> /\ receipt' = receipt /\ imported' = imported /\ validated' = validated
      /\ pc[Publisher] = "install" /\ pc[Stage] = "off" /\ w \in {"off", "install", "copying"}
  BY <1>1 DEF BeginInstall, Publishing
<1>3. (validated' => Genuine(External)) /\ (imported' => Genuine(Core)) /\ Genuine(External) /\ w # "install"
  BY <1>1, <1>2 DEF Inv, SharedOK, Installing
<1> QED BY <1>1, <1>2, <1>3, PublisherOnly

LEMMA EndInstallKeeps ==
    ASSUME Inv, EndInstall
    PROVE  Inv' /\ \A e \in Banks : BankStep(e)
<1>1. /\ pc' = [pc EXCEPT ![Publisher] = "off"] /\ pc[Publisher] = "installed"
      /\ UNCHANGED <<directory, altered>> /\ receipt' = receipt /\ validated' = validated
  BY DEF EndInstall, Raise, Goto, Publishing
<1>2. (validated' => Genuine(External)) /\ Genuine(Core)
  BY <1>1 DEF Inv, SharedOK
<1> QED BY <1>1, <1>2, PublisherOnly

\* The one step from bank to bank.
LEMMA RenameInstallKeeps ==
    ASSUME Inv, RenameInstall
    PROVE  /\ Inv' /\ BankStep(External)
           /\ installed' /\ ~installed /\ fits' = fits
           /\ ~Ready(Core) /\ \A l \in Layers : Phase(Core, l) = "open"
<1>1. /\ pc[Publisher] = "copying" /\ pc' = [pc EXCEPT ![Publisher] = "installed"]
      /\ made' = [made EXCEPT ![Core] = TRUE] /\ installed' = TRUE
      /\ manifest' = [manifest EXCEPT ![Core] = manifest[External]]
      /\ checkpoint' = [checkpoint EXCEPT ![Core] = checkpoint[External]]
      /\ shards' = [shards EXCEPT ![Core] = shards[External]]
      /\ recorded' = [recorded EXCEPT ![Core] = recorded[External]]
      /\ UNCHANGED <<altered, fits, validated, imported, receipt>>
  BY DEF RenameInstall, Goto, Publishing
<1>2. /\ Publisher \in Processes /\ Stage \in Processes /\ Publisher # Stage
      /\ External \in Banks /\ Core \in Banks /\ External # Core /\ "installed" \in Places
      /\ Home(Stage) = Core /\ Home(Publisher) = External
  BY HomeFacts DEF Processes, Banks, Places
<1>3. /\ Typed /\ Genuine(External) /\ Ready(External) /\ pc[Stage] = "off" /\ ~made[Core] /\ ~installed
      /\ BankOK(External) /\ BankOK(Core) /\ PlaceOK(Publisher, External) /\ PlaceOK(Stage, Core)
  BY <1>1, <1>2 DEF Inv, SharedOK, WorkOK, Installing, Genuine
<1>4. pc'[Publisher] = "installed" /\ pc'[Stage] = "off" /\ Typed'
  BY <1>1, <1>2, <1>3 DEF Typed
<1>5. manifest[Core] = NoFile /\ ~Ready(Core) /\ Done(Core) = 0 /\ Bank(Core).current = 0
  BY <1>2, <1>3, BankType DEF BankOK, Ready
<1>6. \A l \in Layers : checkpoint[Core][l] = "none" /\ fits[Core][l] = 0 /\ Phase(Core, l) = "open"
  BY <1>2, <1>3, <1>5, PhaseFacts DEF BankOK, Layers, Accepted
<1>7. Still(External) /\ BankStep(External) /\ Bank(External)' = Bank(External)
      /\ Done(External)' = Done(External) /\ Ready(External)'
  <2>1. Still(External)
    BY <1>1, <1>2, <1>3 DEF Still, Typed
  <2> QED BY <1>2, <1>3, <2>1, StillBank DEF Still
<1>8. BankOK(External)' /\ PlaceOK(Publisher, External)'
  <2>1. BankOK(External)'
    BY <1>1, <1>2, <1>3, <1>7, StillBankOK DEF Copied
  <2>2. made[External]
    BY <1>1, <1>3 DEF PlaceOK
  <2> QED BY <1>4, <1>7, <2>1, <2>2 DEF PlaceOK, AtLayer, Still
<1>9. Bank(Core)' = Bank(External) /\ Done(Core)' = Done(External) /\ Ready(Core)'
      /\ manifest'[Core] # NoFile /\ checkpoint'[Core] = checkpoint[External]
      /\ shards'[Core] = shards[External] /\ recorded'[Core] = recorded[External] /\ made'[Core]
  <2>1. manifest'[Core] = manifest[External] /\ checkpoint'[Core] = checkpoint[External]
        /\ shards'[Core] = shards[External] /\ recorded'[Core] = recorded[External] /\ made'[Core]
    BY <1>1, <1>2, <1>3 DEF Typed
  <2>2. Bank(Core)' = Bank(External)
    BY <2>1 DEF Bank
  <2>3. manifest[External] # NoFile
    BY <1>2, <1>3, BankType DEF Ready
  <2> QED BY <1>3, <2>1, <2>2, <2>3 DEF Done, Ready
<1>10. BankOK(Core)'
  <2>1. Copied(Core)' /\ ~Copied(External)
    BY <1>1, <1>2 DEF Copied
  <2>2. Done(External) = NumLayers /\ \A l \in Layers : ~(l > Done(External))
    BY <1>3, HomeFacts DEF BankOK, Ready, Layers
  <2> QED BY <1>1, <1>3, <1>9, <2>1, <2>2 DEF BankOK, Whole, Passed
<1>11. PlaceOK(Stage, Core)'
  BY <1>4 DEF PlaceOK, AtLayer
<1>12. SharedOK'
  <2>1. Genuine(External)' /\ Genuine(Core)'
    BY <1>3, <1>7, <1>9 DEF Genuine, Still
  <2> QED BY <1>1, <1>3, <1>4, <1>9, <2>1 DEF Inv, SharedOK, Installing
<1> QED BY <1>1, <1>2, <1>3, <1>4, <1>5, <1>6, <1>7, <1>8, <1>10, <1>11, <1>12 DEF Inv, WorkOK, Processes, Home

LEMMA OpenKeeps ==
    ASSUME Inv, NEW p \in Processes, pc[p] = "off", pc' = [pc EXCEPT ![p] = "enter"],
           p = Stage => ~Installing, UNCHANGED <<directory, altered>>, UNCHANGED receipts
    PROVE  Inv' /\ \A e \in Banks : BankStep(e)
<1> DEFINE d == Home(p)
<1>1. /\ d \in Banks /\ "enter" \in Places
      /\ UNCHANGED <<installed, altered, manifest, checkpoint, fits, shards, recorded, made, validated, receipt, imported>>
  BY HomeFacts DEF directory, Places, receipts
<1>2. pc'[p] = "enter" /\ Typed' /\ \A q \in Processes : q # p => pc'[q] = pc[q]
  BY <1>1 DEF Inv, Typed
<1>3. \A e \in Banks : Still(e) /\ BankStep(e) /\ Ready(e)' = Ready(e)
  BY <1>1, StillBank DEF Still
<1>4. \A q \in Processes : BankOK(Home(q))'
  BY <1>1, <1>3, HomeFacts, StillBankOK DEF Inv, WorkOK, Copied
<1>5. ASSUME NEW q \in Processes PROVE PlaceOK(q, Home(q))'
  <2>1. CASE q = p
    BY <1>2, <2>1 DEF PlaceOK, AtLayer
  <2>2. CASE q # p
    BY <1>2, <1>3, <2>2, HomeFacts, StillPlaceOK DEF Inv, WorkOK, Home
  <2> QED BY <2>1, <2>2
<1>6. SharedOK'
  <2>1. /\ Ready(Core)' = Ready(Core)
        /\ Genuine(Core)' = Genuine(Core) /\ Genuine(External)' = Genuine(External)
    BY <1>1, <1>3 DEF Banks, Genuine
  <2> QED BY <1>1, <1>2, <2>1, HomeFacts DEF Inv, SharedOK, Installing, Processes
<1> QED BY <1>2, <1>3, <1>4, <1>5, <1>6 DEF Inv, WorkOK, Home

-----------------------------------------------------------------------------
(* Everything else, and the theorems *)

LEMMA InitInv == Init => Inv
<1> SUFFICES ASSUME Init PROVE Inv
  OBVIOUS
<1>1. Typed
  BY DEF Init, Typed, Places, Contents
<1>2. \A d \in Banks : /\ Bank(d).current = 0 /\ Done(d) = 0 /\ ~Bank(d).complete /\ ~Bank(d).ready
                       /\ manifest[d] = NoFile /\ ~Ready(d)
  <2> TAKE d \in Banks
  <2>1. manifest[d] = NoFile
    BY DEF Init
  <2> QED BY <1>1, <2>1, BankType DEF Ready
<1>3. \A d \in Banks : BankOK(d)
  BY <1>2, HomeFacts DEF Init, BankOK, Layers
<1>4. \A p \in Processes : WorkOK(p)
  BY <1>3, HomeFacts DEF Init, WorkOK, PlaceOK, AtLayer
<1>5. SharedOK
  BY DEF Init, SharedOK, Installing, Processes
<1> QED BY <1>1, <1>4, <1>5 DEF Inv

LEMMA AlterKeeps ==
    ASSUME Inv, altered => altered', altered' \in BOOLEAN,
           UNCHANGED <<directory, pc, validated, imported, receipt>>
    PROVE  Inv' /\ \A e \in Banks : BankStep(e)
<1>1. UNCHANGED <<installed, manifest, checkpoint, fits, shards, recorded, made>>
  BY DEF directory
<1>2. \A e \in Banks : Still(e) /\ BankStep(e) /\ Ready(e)' = Ready(e)
  BY <1>1, StillBank DEF Still
<1>3. Typed'
  BY <1>1 DEF Inv, Typed
<1>4. \A q \in Processes : BankOK(Home(q))' /\ PlaceOK(q, Home(q))'
  BY <1>1, <1>2, HomeFacts, StillBankOK, StillPlaceOK DEF Inv, WorkOK, Copied
<1>5. SharedOK'
  BY <1>1, <1>2 DEF Inv, SharedOK, Installing, Banks, Genuine
<1> QED BY <1>2, <1>3, <1>4, <1>5 DEF Inv, WorkOK, Home

\* The stage ends with a receipt or without one.
LEMMA PublishStageKeeps ==
    ASSUME Inv, PublishStage
    PROVE  Inv' /\ \A e \in Banks : BankStep(e)
<1>1. /\ receipt' = Ready(Core) /\ pc' = [pc EXCEPT ![Stage] = "off"] /\ pc[Stage] = "trained"
      /\ UNCHANGED <<installed, altered, manifest, checkpoint, fits, shards, recorded, made, validated, imported>>
  BY DEF PublishStage, Raise, Goto, directory
<1>2. /\ Publisher \in Processes /\ Stage \in Processes /\ Publisher # Stage
      /\ Home(Stage) = Core /\ Home(Publisher) = External /\ Core \in Banks /\ External \in Banks
  BY HomeFacts DEF Processes, Banks
<1>3. pc'[Stage] = "off" /\ pc'[Publisher] = pc[Publisher] /\ Typed'
  BY <1>1, <1>2 DEF Inv, Typed, Places
<1>4. \A e \in Banks : Still(e) /\ BankStep(e) /\ Ready(e)' = Ready(e)
  BY <1>1, StillBank DEF Still
<1>5. \A q \in Processes : BankOK(Home(q))'
  BY <1>1, <1>4, HomeFacts, StillBankOK DEF Inv, WorkOK, Copied
<1>6. PlaceOK(Stage, Core)' /\ PlaceOK(Publisher, External)'
  BY <1>2, <1>3, <1>4, StillPlaceOK DEF Inv, WorkOK, PlaceOK, AtLayer
<1>7. SharedOK'
  BY <1>1, <1>2, <1>3, <1>4 DEF Inv, SharedOK, Installing, Genuine
<1> QED BY <1>2, <1>3, <1>4, <1>5, <1>6, <1>7 DEF Inv, WorkOK, Processes, Home

LEMMA DieKeeps ==
    ASSUME Inv, NEW p \in Processes, Die(p)
    PROVE  Inv' /\ \A e \in Banks : BankStep(e)
<1>1. /\ pc' = [pc EXCEPT ![p] = "off"] /\ pc[p] # "off"
      /\ UNCHANGED <<installed, altered, manifest, checkpoint, fits, shards, recorded, made, validated, imported, receipt>>
  BY DEF Die, Raise, Goto, receipts
<1>2. pc'[p] = "off" /\ Typed' /\ \A q \in Processes : q # p => pc'[q] = pc[q]
  BY <1>1 DEF Inv, Typed, Places
<1>3. \A e \in Banks : Still(e) /\ BankStep(e) /\ Ready(e)' = Ready(e)
  BY <1>1, StillBank DEF Still
<1>4. \A q \in Processes : BankOK(Home(q))'
  BY <1>1, <1>3, HomeFacts, StillBankOK DEF Inv, WorkOK, Copied
<1>5. ASSUME NEW q \in Processes PROVE PlaceOK(q, Home(q))'
  <2>1. CASE q = p
    BY <1>2, <2>1 DEF PlaceOK, AtLayer
  <2>2. CASE q # p
    BY <1>2, <1>3, <2>2, HomeFacts, StillPlaceOK DEF Inv, WorkOK, Home
  <2> QED BY <2>1, <2>2
<1>6. SharedOK'
  <2>1. /\ Ready(Core)' = Ready(Core)
        /\ Genuine(Core)' = Genuine(Core) /\ Genuine(External)' = Genuine(External)
    BY <1>1, <1>3 DEF Banks, Genuine
  <2>2. CASE p = Stage
    BY <1>1, <1>2, <2>1, <2>2, HomeFacts DEF Inv, SharedOK, Installing, Processes
  <2>3. CASE p = Publisher
    BY <1>1, <1>2, <2>1, <2>3, HomeFacts DEF Inv, SharedOK, Installing, Processes
  <2> QED BY <2>2, <2>3 DEF Processes
<1> QED BY <1>2, <1>3, <1>4, <1>5, <1>6 DEF Inv, WorkOK, Home

LEMMA CoordinateStep ==
    ASSUME Inv, NEW p \in Processes, Coordinate(p)
    PROVE  Inv' /\ \A e \in Banks : BankStep(e)
<1>1. CASE Reverify(p)
  <2>1. PICK w \in {"off", IF Bank(Home(p)).complete THEN "trained" ELSE "layer"} : pc' = [pc EXCEPT ![p] = w]
    BY <1>1 DEF Reverify, Goto, Raise
  <2>2. /\ pc[p] = "reverify" /\ UNCHANGED <<directory, altered>> /\ UNCHANGED receipts
        /\ ~(p = Publisher /\ Installing)
    BY <1>1 DEF Reverify, Rest, Installing
  <2> QED BY <2>1, <2>2, GoOnKeeps
<1>2. CASE FitRaises(p)
  <2>1. /\ pc' = [pc EXCEPT ![p] = "unfitted"] /\ pc[p] \in {"train", "fitting"}
        /\ UNCHANGED <<directory, altered>> /\ UNCHANGED receipts /\ ~(p = Publisher /\ Installing)
    BY <1>2 DEF FitRaises, Goto, Rest, Installing
  <2> QED BY <2>1, GoOnKeeps
<1> QED BY <1>1, <1>2, EnterKeeps, CheckKeeps, RecordKeeps, BeginLayerKeeps, SaveFitKeeps, EndLayerKeeps, FinishKeeps
        DEF Coordinate

LEMMA OthersStep ==
    ASSUME Inv, Next, ~RenameInstall
    PROVE  Inv' /\ \A e \in Banks : BankStep(e)
<1> USE HomeFacts
<1>0. Publisher \in Processes /\ Stage \in Processes
  BY DEF Processes
<1>1. CASE OpenStage
  BY <1>0, <1>1, OpenKeeps DEF OpenStage, Goto
<1>2. CASE StageStep
  <2>1. CASE Train
    BY <1>0, <2>1, BeginFitKeeps DEF Train
  <2> QED BY <1>0, <1>2, <2>1, CoordinateStep, PublishStageKeeps DEF StageStep
<1>3. CASE OpenPublisher
  BY <1>0, <1>3, OpenKeeps DEF OpenPublisher, Goto, receipts, Publishing
<1>4. CASE PublisherStep
  <2>1. CASE Adopt
    BY <1>0, <2>1, BeginFitKeeps DEF Adopt
  <2>2. CASE Select
    <3>1. /\ UNCHANGED <<directory, altered>> /\ UNCHANGED receipts /\ pc[Publisher] = "train"
          /\ \/ pc' = [pc EXCEPT ![Publisher] = "selecting"]
             \/ pc' = pc
      BY <2>2 DEF Select, Goto, Publishing, receipts
    <3>2. CASE pc' = [pc EXCEPT ![Publisher] = "selecting"]
      BY <1>0, <3>1, <3>2, GoOnKeeps DEF Installing
    <3>3. CASE pc' = pc
      BY <3>1, <3>3, AlterKeeps DEF receipts, Inv, Typed
    <3> QED BY <3>1, <3>2, <3>3
  <2>3. CASE EndSelect
    <3>1. /\ UNCHANGED <<directory, altered>> /\ UNCHANGED receipts /\ pc[Publisher] = "selecting"
          /\ pc' = [pc EXCEPT ![Publisher] = "train"]
      BY <2>3 DEF EndSelect, Goto, Publishing, receipts
    <3> QED BY <1>0, <3>1, GoOnKeeps DEF Installing
  <2> QED BY <1>0, <1>4, <2>1, <2>2, <2>3, CoordinateStep, ValidateKeeps, BeginInstallKeeps, EndInstallKeeps
          DEF PublisherStep
<1>5. CASE Alter
  BY <1>5, AlterKeeps DEF Alter, receipts
<1>6. ASSUME NEW p \in Processes, Die(p) PROVE Inv' /\ \A e \in Banks : BankStep(e)
  BY <1>6, DieKeeps
<1>7. ASSUME NEW l \in Layers, Precompute(l) PROVE Inv' /\ \A e \in Banks : BankStep(e)
  <2>1. altered' = altered /\ UNCHANGED <<directory, pc, validated, imported, receipt>>
    BY <1>7 DEF Precompute, receipts
  <2> QED BY <2>1, AlterKeeps DEF Inv, Typed
<1> QED BY <1>1, <1>2, <1>3, <1>4, <1>5, <1>6, <1>7 DEF Next

LEMMA NextInv == Inv /\ [Next]_vars => Inv'
<1> SUFFICES ASSUME Inv, [Next]_vars PROVE Inv'
  OBVIOUS
<1>1. CASE UNCHANGED vars
  <2>1. altered' = altered /\ UNCHANGED <<directory, pc, validated, imported, receipt>>
    BY <1>1 DEF vars, receipts
  <2> QED BY <2>1, AlterKeeps DEF Inv, Typed
<1> QED BY <1>1, OthersStep, RenameInstallKeeps

THEOREM BanksKeepInv == Spec => []Inv
<1>1. Init => Inv
  BY InitInv
<1>2. Inv /\ [Next]_vars => Inv'
  BY NextInv
<1> QED BY <1>1, <1>2, PTL DEF Spec

\* A bank is ready only when every layer of it is there, has passed and was
\* fitted to the shards it records; what is validated or imported is of shards
\* as they were collected.
THEOREM ReadyBanksAreSound == Spec => []ReadyIsSound
<1>1. Inv => ReadyIsSound
  <2> SUFFICES ASSUME Inv PROVE ReadyIsSound
    OBVIOUS
  <2>1. \A d \in Banks : BankOK(d) /\ (Ready(d) => manifest[d] # NoFile)
    BY HomeFacts, BankType DEF Inv, WorkOK, Ready
  <2> QED BY <2>1 DEF ReadyIsSound, Inv, SharedOK, BankOK, Ready, Whole
<1> QED BY <1>1, BanksKeepInv, PTL

-----------------------------------------------------------------------------
(* The banks implement JobAcceptance *)

Phases(d) == [l \in Layers |-> Phase(d, l)]

\* A step of a bank as one of three relations between functions.
LEMMA MoveOfPhases ==
    ASSUME NEW d \in Banks, NEW l \in Layers, NEW from, NEW to, Moves(d, l, from, to)
    PROVE  /\ Phases(d)[l] = from /\ Phases(d)' = [Phases(d) EXCEPT ![l] = to]
           /\ Ready(d)' = Ready(d)
BY DEF Moves, Phases

LEMMA BankStepCases ==
    ASSUME NEW d \in Banks, BankStep(d)
    PROVE  \/ Phases(d)' = Phases(d) /\ fits'[d] = fits[d] /\ Ready(d)' = Ready(d)
           \/ /\ Phases(d)' = Phases(d) /\ fits'[d] = fits[d] /\ Ready(d)' = TRUE
              /\ \A l \in Layers : Phases(d)[l] = "accepted"
           \/ \E l \in Layers :
                 /\ Ready(d)' = Ready(d) /\ fits'[d] = fits[d]
                 /\ \/ Phases(d)[l] = "open" /\ Phases(d)' = [Phases(d) EXCEPT ![l] = "reserved"]
                    \/ Phases(d)[l] = "spent" /\ Phases(d)' = [Phases(d) EXCEPT ![l] = "evidenced"]
                    \/ Phases(d)[l] = "evidenced" /\ Phases(d)' = [Phases(d) EXCEPT ![l] = "accepted"]
           \/ \E l \in Layers :
                 /\ Ready(d)' = Ready(d) /\ fits'[d] = [fits[d] EXCEPT ![l] = @ + 1]
                 /\ Phases(d)[l] = "reserved" /\ Phases(d)' = [Phases(d) EXCEPT ![l] = "spent"]
<1>1. CASE SamePhases(d)
  <2>1. Phases(d)' = Phases(d) /\ \A l \in Layers : Phases(d)[l] = Phase(d, l)
    BY <1>1 DEF SamePhases, Phases
  <2>2. ASSUME NEW l \in Layers, NEW from, NEW to, Moves(d, l, from, to) PROVE from = to
    BY <1>1, <2>2 DEF SamePhases, Moves
  <2>3. \A l \in Layers : ~Moves(d, l, "open", "reserved") /\ ~Moves(d, l, "spent", "evidenced")
                         /\ ~Moves(d, l, "evidenced", "accepted") /\ ~Moves(d, l, "reserved", "spent")
    BY <2>2
  <2> QED BY <2>1, <2>3 DEF BankStep
<1>2. ASSUME NEW l \in Layers, fits'[d] = fits[d],
             \/ Moves(d, l, "open", "reserved")
             \/ Moves(d, l, "spent", "evidenced")
             \/ Moves(d, l, "evidenced", "accepted")
      PROVE  /\ Ready(d)' = Ready(d) /\ fits'[d] = fits[d]
             /\ \/ Phases(d)[l] = "open" /\ Phases(d)' = [Phases(d) EXCEPT ![l] = "reserved"]
                \/ Phases(d)[l] = "spent" /\ Phases(d)' = [Phases(d) EXCEPT ![l] = "evidenced"]
                \/ Phases(d)[l] = "evidenced" /\ Phases(d)' = [Phases(d) EXCEPT ![l] = "accepted"]
  BY <1>2, MoveOfPhases
<1>3. ASSUME NEW l \in Layers, Moves(d, l, "reserved", "spent")
      PROVE  /\ Ready(d)' = Ready(d)
             /\ Phases(d)[l] = "reserved" /\ Phases(d)' = [Phases(d) EXCEPT ![l] = "spent"]
  BY <1>3, MoveOfPhases
<1> QED BY <1>1, <1>2, <1>3 DEF BankStep

LEMMA ExternalInit == Init => ExternalPromise!Init
<1> SUFFICES ASSUME Init PROVE ExternalPromise!Init
  OBVIOUS
<1>1. Inv /\ External \in Banks
  BY InitInv DEF Banks
<1>2. Bank(External).current = 0 /\ Done(External) = 0 /\ Ready(External) = FALSE
  BY <1>1, BankType DEF Init, Inv, Ready
<1>3. \A l \in Layers : Phase(External, l) = "open"
  BY <1>1, <1>2, PhaseFacts DEF Init, Inv, Accepted, Layers
<1>4. fits[External] = [l \in Layers |-> 0]
  BY <1>1 DEF Init
<1> QED BY <1>2, <1>3, <1>4 DEF ExternalPromise!Init

LEMMA ExternalStep ==
    ASSUME BankStep(External)
    PROVE  [ExternalPromise!Next]_ExternalPromise!vars
<1> DEFINE f == Phases(External)
           g == [l \in Layers |-> Phase(External, l)]
<1>1. External \in Banks /\ f = g /\ f' = g'
  BY DEF Banks, Phases
<1>2. CASE f' = f /\ fits'[External] = fits[External] /\ Ready(External)' = Ready(External)
  BY <1>1, <1>2 DEF ExternalPromise!vars
<1>3. CASE /\ f' = f /\ fits'[External] = fits[External] /\ Ready(External)' = TRUE
           /\ \A l \in Layers : f[l] = "accepted"
  BY <1>1, <1>3 DEF ExternalPromise!Next, ExternalPromise!Publish
<1>4. ASSUME NEW l \in Layers, Ready(External)' = Ready(External), fits'[External] = fits[External],
             \/ f[l] = "open" /\ f' = [f EXCEPT ![l] = "reserved"]
             \/ f[l] = "spent" /\ f' = [f EXCEPT ![l] = "evidenced"]
             \/ f[l] = "evidenced" /\ f' = [f EXCEPT ![l] = "accepted"]
      PROVE  ExternalPromise!Next
  BY <1>1, <1>4 DEF ExternalPromise!Next, ExternalPromise!Reserve, ExternalPromise!Evidence,
                    ExternalPromise!Accept, ExternalPromise!Move
<1>5. ASSUME NEW l \in Layers, Ready(External)' = Ready(External),
             fits'[External] = [fits[External] EXCEPT ![l] = @ + 1],
             f[l] = "reserved", f' = [f EXCEPT ![l] = "spent"]
      PROVE  ExternalPromise!Next
  BY <1>1, <1>5 DEF ExternalPromise!Next, ExternalPromise!Execute, ExternalPromise!Move
<1> QED BY <1>1, <1>2, <1>3, <1>4, <1>5, BankStepCases

LEMMA CoreInit == Init => CorePromise!Init
<1> SUFFICES ASSUME Init PROVE CorePromise!Init
  OBVIOUS
<1>1. Inv /\ Core \in Banks /\ installed = FALSE
  BY InitInv DEF Init, Banks
<1>2. Bank(Core).current = 0 /\ Done(Core) = 0 /\ Ready(Core) = FALSE
  BY <1>1, BankType DEF Init, Inv, Ready
<1>3. \A l \in Layers : Own(l) = "open"
  BY <1>1, <1>2, PhaseFacts DEF Init, Inv, Accepted, Layers, Own
<1>4. fits[Core] = [l \in Layers |-> 0] /\ (Ready(Core) /\ ~installed) = FALSE
  BY <1>1, <1>2 DEF Init
<1> QED BY <1>3, <1>4 DEF CorePromise!Init

\* Until something is installed.
LEMMA CoreStep ==
    ASSUME BankStep(Core), ~installed, ~installed', Typed, Typed'
    PROVE  [CorePromise!Next]_CorePromise!vars
<1> DEFINE f == Phases(Core)
           g == [l \in Layers |-> Own(l)]
<1>1. Core \in Banks /\ f = g /\ f' = g'
  BY DEF Banks, Phases, Own
<1>2. Ready(Core) = (Ready(Core) /\ ~installed) /\ Ready(Core)' = (Ready(Core) /\ ~installed)'
  <2>1. Ready(Core) \in BOOLEAN /\ Ready(Core)' \in BOOLEAN
    BY DEF Ready
  <2> QED BY <2>1
<1>3. CASE f' = f /\ fits'[Core] = fits[Core] /\ Ready(Core)' = Ready(Core)
  BY <1>1, <1>2, <1>3 DEF CorePromise!vars
<1>4. CASE /\ f' = f /\ fits'[Core] = fits[Core] /\ Ready(Core)' = TRUE
           /\ \A l \in Layers : f[l] = "accepted"
  BY <1>1, <1>2, <1>4 DEF CorePromise!Next, CorePromise!Publish
<1>5. ASSUME NEW l \in Layers, Ready(Core)' = Ready(Core), fits'[Core] = fits[Core],
             \/ f[l] = "open" /\ f' = [f EXCEPT ![l] = "reserved"]
             \/ f[l] = "spent" /\ f' = [f EXCEPT ![l] = "evidenced"]
             \/ f[l] = "evidenced" /\ f' = [f EXCEPT ![l] = "accepted"]
      PROVE  CorePromise!Next
  BY <1>1, <1>2, <1>5 DEF CorePromise!Next, CorePromise!Reserve, CorePromise!Evidence,
                    CorePromise!Accept, CorePromise!Move
<1>6. ASSUME NEW l \in Layers, Ready(Core)' = Ready(Core),
             fits'[Core] = [fits[Core] EXCEPT ![l] = @ + 1],
             f[l] = "reserved", f' = [f EXCEPT ![l] = "spent"]
      PROVE  CorePromise!Next
  BY <1>1, <1>2, <1>6 DEF CorePromise!Next, CorePromise!Execute, CorePromise!Move
<1> QED BY <1>1, <1>3, <1>4, <1>5, <1>6, BankStepCases

\* Nobody trains in a bank that was installed.
LEMMA InstalledStays ==
    ASSUME Inv, [Next]_vars, installed
    PROVE  installed' /\ fits'[Core] = fits[Core]
<1>1. ~RenameInstall
  BY RenameInstallKeeps
<1>2. /\ Ready(Core) /\ BankOK(Core) /\ PlaceOK(Stage, Core) /\ Home(Stage) = Core /\ Home(Publisher) = External
      /\ External # Core /\ Core \in Banks /\ Typed /\ Publisher # Stage /\ Processes = {Publisher, Stage}
  BY HomeFacts DEF Inv, SharedOK, WorkOK, Processes, Banks, Genuine
<1>3. pc[Stage] # "train"
  BY <1>2, BankType DEF PlaceOK, BankOK, Ready, AtLayer
<1>4. installed' = installed
  BY <1>1 DEF Next, vars, directory, OpenStage, StageStep, OpenPublisher, PublisherStep, Coordinate, Alter, Die, Precompute,
              Enter, Check, Record, Reverify, BeginLayer, SaveFit, FitRaises, EndLayer, Finish, Train, PublishStage, Adopt,
              Select, EndSelect, Validate, BeginInstall, EndInstall, Rest, Publish
<1>5. fits' = fits \/ fits' = [fits EXCEPT ![External][Current(Publisher)] = @ + 1]
  BY <1>1, <1>2, <1>3 DEF Next, vars, directory, OpenStage, StageStep, OpenPublisher, PublisherStep, Coordinate, Alter, Die,
              Precompute, Enter, Check, Record, Reverify, BeginLayer, SaveFit, FitRaises, EndLayer, Finish, Train, BeginFit,
              PublishStage, Adopt, Select, EndSelect, Validate, BeginInstall, EndInstall
<1> QED BY <1>2, <1>4, <1>5 DEF Typed

\* No layer of either directory is fitted twice, or accepted after it was
\* interrupted or failed, and a bank that was installed is not trained in.
THEOREM Refinement == Spec => KeepsPromise
<1>1. Inv /\ Inv' /\ [Next]_vars => [ExternalPromise!Next]_ExternalPromise!vars
  <2> SUFFICES ASSUME Inv, [Next]_vars PROVE BankStep(External)
    BY ExternalStep
  <2>1. CASE UNCHANGED vars
    BY <2>1, StillBank DEF vars, directory, Banks
  <2>2. CASE Next
    BY <2>2, OthersStep, RenameInstallKeeps DEF Banks
  <2> QED BY <2>1, <2>2
<1>2. Inv /\ Inv' /\ [Next]_vars => [CorePromise!Next]_CorePromise!vars
  <2> SUFFICES ASSUME Inv, Inv', [Next]_vars PROVE [CorePromise!Next]_CorePromise!vars
    OBVIOUS
  <2>1. CASE installed
    <3>1. installed' /\ fits'[Core] = fits[Core]
      BY <2>1, InstalledStays
    <3>2. [l \in Layers |-> Own(l)]' = [l \in Layers |-> Own(l)]
      BY <2>1, <3>1 DEF Own
    <3>3. (Ready(Core) /\ ~installed)' = (Ready(Core) /\ ~installed)
      BY <2>1, <3>1
    <3> QED BY <3>1, <3>2, <3>3 DEF CorePromise!vars
  <2>2. CASE RenameInstall
    <3>1. installed' /\ ~installed /\ fits' = fits /\ ~Ready(Core) /\ \A l \in Layers : Phase(Core, l) = "open"
      BY <2>2, RenameInstallKeeps
    <3>2. [l \in Layers |-> Own(l)]' = [l \in Layers |-> Own(l)]
      BY <3>1 DEF Own
    <3>3. (Ready(Core) /\ ~installed)' = (Ready(Core) /\ ~installed)
      BY <3>1
    <3> QED BY <3>1, <3>2, <3>3 DEF CorePromise!vars
  <2>3. CASE ~installed /\ ~RenameInstall
    <3>1. BankStep(Core)
      <4>1. CASE UNCHANGED vars
        BY <4>1, StillBank DEF vars, directory, Banks
      <4>2. CASE Next
        BY <2>3, <4>2, OthersStep DEF Banks
      <4> QED BY <4>1, <4>2
    <3>2. installed' = installed
      BY <2>3 DEF Next, vars, directory, OpenStage, StageStep, OpenPublisher, PublisherStep, Coordinate, Alter, Die, Precompute,
              Enter, Check, Record, Reverify, BeginLayer, SaveFit, FitRaises, EndLayer, Finish, Train, PublishStage, Adopt,
              Select, EndSelect, Validate, BeginInstall, EndInstall, Rest, Publish
    <3> QED BY <2>3, <3>1, <3>2, CoreStep DEF Inv
  <2> QED BY <2>1, <2>2, <2>3
<1> QED BY <1>1, <1>2, ExternalInit, CoreInit, BanksKeepInv, PTL DEF Spec, KeepsPromise, ExternalPromise!Spec, CorePromise!Spec

=============================================================================
