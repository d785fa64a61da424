---------------------------- MODULE FusionEngine ----------------------------
(***************************************************************************)
(* The native fusion of a metadata batch: FusionEngine::process of         *)
(* deepstream/fusion/src/core.cpp, the transaction around it in            *)
(* deepsafe_fusion_process_gst_buffer_v1 of deepstream_adapter.cpp, and    *)
(* the pad probe that drops a buffer whose batch failed.                   *)
(*                                                                         *)
(* What a frame shows matters to the links of its people only, and these   *)
(* are a function of the frame: Links, over every scene of two tracks and  *)
(* two poses.  The state is the order of frames and batches.               *)
(***************************************************************************)
EXTENDS Naturals, FiniteSets, Sequences

CONSTANTS
  Source,           \* source ids
  MaxFrame,         \* bound: frame numbers
  MaxPts,           \* bound: time stamps
  MaxBatch,         \* bound: frames of a batch
  AmbiguityMargin   \* pose_ambiguity_margin

ASSUME FusionAssumption == {MaxFrame, MaxPts, MaxBatch, AmbiguityMargin} \subseteq Nat

VARIABLES
  watermark,        \* watermarks_ of the engine of the handle
  sent,             \* the frames of the last batch that were passed on as ok
  dropped,          \* the last batch was dropped
  errorPosted       \* GST_ELEMENT_ERROR was posted, which is done once

fusionVars == <<watermark, sent, dropped, errorPosted>>

Unseen == [frame |-> 0, pts |-> 0]   \* watermark.initialized is false

-----------------------------------------------------------------------------
(* The links of one frame                                                  *)

FusedTrack == {1, 2}
Pose == {1, 2}

\* The score of every pose for every track (0: no match), the occluded tracks, and for one
\* kind of equipment the tracks with evidence and the candidates of an ambiguous
\* observation, as the association cores report them.
Scenes ==
  [score : [Pose -> [FusedTrack -> 0 .. 3]], occluded : SUBSET FusedTrack,
   evident : SUBSET FusedTrack, unclear : SUBSET FusedTrack]

\* The candidates of a pose are the tracks in sight.
Candidates(scene, p) == {t \in FusedTrack \ scene.occluded : scene.score[p][t] > 0}

\* Mutant: the best candidate, however close the second.
BestCandidate(scene, p) ==
  {t \in Candidates(scene, p) :
     \A u \in Candidates(scene, p) \ {t} :
        \/ scene.score[p][t] > scene.score[p][u]
        \/ scene.score[p][t] = scene.score[p][u] /\ t < u}

\* The best candidate, unless the second is too close.
Proposed(scene, p) ==
  {t \in Candidates(scene, p) :
     \A u \in Candidates(scene, p) \ {t} :
        scene.score[p][t] > scene.score[p][u] + AmbiguityMargin}

\* Mutant: a track takes every pose that proposes it.
AllProposals(scene, t) == {p \in Pose : t \in Proposed(scene, p)}

\* Of the poses that propose a track the best one gets it, then the first.
PosesOf(scene, t) ==
  {p \in Pose :
     /\ t \in Proposed(scene, p)
     /\ \A q \in Pose \ {p} : t \in Proposed(scene, q) =>
          \/ scene.score[q][t] < scene.score[p][t]
          \/ scene.score[q][t] = scene.score[p][t] /\ p < q}

\* An occluded person has no evidence, and an ambiguous observation takes nothing from a
\* link that is matched.
EquipmentOf(scene, t) ==
  CASE t \in scene.occluded -> [status |-> "occluded", evidence |-> FALSE]
    [] t \in scene.evident \ scene.occluded -> [status |-> "matched", evidence |-> TRUE]
    [] t \in scene.unclear \ (scene.occluded \cup scene.evident) ->
         [status |-> "ambiguous", evidence |-> FALSE]
    [] OTHER -> [status |-> "no observation", evidence |-> FALSE]

-----------------------------------------------------------------------------
(* FusionEngine::process: the watermark                                    *)

\* Faults: the checks of limits, tracks and metadata come before the watermark is looked
\* at, the association cores may reject the frame after that.
FrameInputs ==
  [source : Source, frame : 1 .. MaxFrame, pts : 1 .. MaxPts,
   fault : {"none", "input", "association"}]

\* Mutant: a frame is old when both its number and its time are.
BothAreOld(marks, input) ==
  /\ marks[input.source] # Unseen
  /\ input.frame <= marks[input.source].frame /\ input.pts <= marks[input.source].pts

\* Number and time have to be strictly greater than the watermark's.
IsStale(marks, input) ==
  /\ marks[input.source] # Unseen
  /\ input.frame <= marks[input.source].frame \/ input.pts <= marks[input.source].pts

FrameStatus(marks, input) ==
  CASE input.fault = "input" -> "rejected"
    [] input.fault # "input" /\ IsStale(marks, input) -> "stale"
    [] input.fault = "association" /\ ~IsStale(marks, input) -> "rejected"
    [] OTHER -> "ok"

\* Mutant: the watermark is moved before the association is made.
AdvancesEarly(marks, input) ==
  IF input.fault = "input" \/ IsStale(marks, input) THEN marks
  ELSE [marks EXCEPT ![input.source] = [frame |-> input.frame, pts |-> input.pts]]

\* "Invalid/stale frames do not mutate the watermark."
Processed(marks, input) ==
  IF FrameStatus(marks, input) # "ok" THEN marks
  ELSE [marks EXCEPT ![input.source] = [frame |-> input.frame, pts |-> input.pts]]

\* The watermarks of the candidate engine after the first n frames of a batch.
Engine(batch) ==
  LET after[n \in 0 .. Len(batch)] ==
        IF n = 0 THEN watermark ELSE Processed(after[n - 1], batch[n])
  IN  after

EngineAfter(batch) == Engine(batch)[Len(batch)]

\* The frames of a batch whose metadata says ok; the others carry unknown links only.
OkFrames(batch) ==
  LET ok == {i \in DOMAIN batch : FrameStatus(Engine(batch)[i - 1], batch[i]) = "ok"}
  IN  [k \in 1 .. Cardinality(ok) |->
         batch[CHOOSE i \in ok : Cardinality({j \in ok : j <= i}) = k]]

-----------------------------------------------------------------------------
(* deepsafe_fusion_process_gst_buffer_v1 and fusion_probe                  *)

FusionInit ==
  /\ watermark = [s \in Source |-> Unseen]
  /\ sent = <<>>
  /\ dropped = FALSE
  /\ errorPosted = FALSE

\* The outputs are attached and the candidate becomes the engine of the handle.
Commit(batch) ==
  /\ watermark' = EngineAfter(batch)
  /\ sent' = OkFrames(batch)
  /\ dropped' = FALSE
  /\ UNCHANGED errorPosted

\* Mutant: the frames are processed on the engine of the handle.
ProcessedInPlace(batch) ==
  /\ watermark' = EngineAfter(batch)
  /\ sent' = <<>>
  /\ dropped' = TRUE
  /\ errorPosted' = TRUE

\* The batch is refused before it is processed, or the pool of user metadata is exhausted
\* while the outputs are attached: the probe drops the buffer with what is attached.
DropBatch(batch) ==
  /\ sent' = <<>>
  /\ dropped' = TRUE
  /\ errorPosted' = TRUE
  /\ UNCHANGED watermark

\* Everything happens under the mutex of the handle: one step.
FusionNext ==
  \E batch \in UNION {[1 .. n -> FrameInputs] : n \in 1 .. MaxBatch} :
    Commit(batch) \/ DropBatch(batch)

FusionSpec == FusionInit /\ [][FusionNext]_fusionVars

-----------------------------------------------------------------------------
\* The links of a frame: a pose belongs to one person and a person has one pose, a pose
\* that could be of two people belongs to nobody, and nobody who is occluded or whose link
\* is unknown shows evidence.
LinksAreSound ==
  \A scene \in Scenes :
    /\ \A p \in Pose : Cardinality({t \in FusedTrack : p \in PosesOf(scene, t)}) <= 1
    /\ \A t \in FusedTrack : Cardinality(PosesOf(scene, t)) <= 1
    /\ \A t \in FusedTrack : \A p \in PosesOf(scene, t) : \A u \in FusedTrack \ ({t} \cup scene.occluded) :
         scene.score[p][u] > 0 => scene.score[p][u] + AmbiguityMargin < scene.score[p][t]
    /\ \A t \in FusedTrack :
         /\ t \in scene.occluded => PosesOf(scene, t) = {}
         /\ EquipmentOf(scene, t).evidence <=> EquipmentOf(scene, t).status = "matched"

Later(a, b) == a.frame > b.frame /\ a.pts > b.pts

\* What downstream sees of a source with status ok is strictly ordered by number and by
\* time, within a batch and across batches, whatever is rejected, stale or dropped in
\* between; and the watermark is the last frame that was sent as ok.
SentInOrder ==
  [][LET of(s) == {i \in DOMAIN sent' : sent'[i].source = s}
     IN  \A s \in Source :
           /\ \A i \in of(s) : Later(sent'[i], watermark[s]) /\ ~Later(sent'[i], watermark'[s])
           /\ \A i, j \in of(s) : i < j => Later(sent'[j], sent'[i])
           /\ watermark'[s] # watermark[s] => \E i \in of(s) :
                watermark'[s] = [frame |-> sent'[i].frame, pts |-> sent'[i].pts]]_fusionVars
=============================================================================
