----------------------------- MODULE CaviarRuns -----------------------------
(***************************************************************************)
(* validation/run_caviar.py: one evaluation run in its run root, with the  *)
(* guarded container that writes a KITTI file per frame, the conversion of *)
(* these files by validation/kitti_to_jsonl.py, and the receipt of a batch *)
(* job.  A run may be killed and leave its container behind, the next one  *)
(* may be forced into the same root, and inputs are edited meanwhile.      *)
(*                                                                         *)
(* The batch driver, which is not in this repository, starts one job after *)
(* another: at most one run of a root is alive.                            *)
(***************************************************************************)
EXTENDS Naturals, FiniteSets

CONSTANTS
  MaxCaviarRuns,  \* bound: runs in the root
  MaxInputEdits   \* bound: edits of the inputs

ASSUME CaviarAssumption == {MaxCaviarRuns, MaxInputEdits} \subseteq Nat

VARIABLES
  inputs,      \* per input: the pinned revision, or an edited one
  inputEdits,
  caviar,      \* the run that is alive
  runRoot,     \* the files of the run root
  boxes        \* the containers that run

caviarVars == <<inputs, inputEdits, caviar, runRoot, boxes>>

\* The video, the ground truth, and the quality policy with its pins of all inputs.
Input == {"video", "truth", "policy"}
Revision == {"pinned", "edited"}

\* nb_frames of the two revisions of the video.
FramesOf(video) == IF video = "pinned" THEN {0, 1} ELSE {0}

\* caviar_frame_indices: the frames that the two revisions of the ground truth annotate.
Annotated(truth) == IF truth = "pinned" THEN {0} ELSE {1}

NoManifest == [run |-> 0, status |-> "none", truth |-> FALSE, frames |-> {}]
\* A run root without files; the incarnation tells a directory that was made anew from the one
\* that was removed, where a container has it mounted.
EmptyRoot(incarnation) ==
  [incarnation |-> incarnation, configs |-> 0, kitti |-> <<>>, log |-> 0,
   predictions |-> <<>>, evaluation |-> "none", manifest |-> NoManifest,
   receipt |-> [state |-> "none", manifest |-> NoManifest]]

\* kind: "plain", "batch" with --batch-manifest, or "dry" with --dry-run.
NoCaviarRun ==
  [n |-> 0, pc |-> "idle", kind |-> "plain", truth |-> FALSE, frames |-> {}]

CaviarInit ==
  /\ inputs = [i \in Input |-> "pinned"] /\ inputEdits = 0
  /\ caviar = NoCaviarRun /\ runRoot = EmptyRoot(1) /\ boxes = {}

Manifest(status) ==
  [run |-> caviar.n, status |-> status, truth |-> caviar.truth, frames |-> caviar.frames]

CaviarGoes(pc) == caviar' = [caviar EXCEPT !.pc = pc]

-----------------------------------------------------------------------------
(* The run                                                                 *)

\* _load_batch_binding: the quality policy is still the one of the batch plan.
BatchBinds == inputs["policy"] = "pinned"

\* main up to the run root.  A root with files needs --force.  ffprobe may not know the
\* number of frames.
StartCaviar(kind, truth, force) ==
  /\ caviar.pc = "idle" /\ caviar.n < MaxCaviarRuns
  /\ kind = "batch" => BatchBinds
  /\ runRoot = EmptyRoot(runRoot.incarnation) \/ force
  /\ \E frames \in {{}, FramesOf(inputs["video"])} :
       caviar' = [n |-> caviar.n + 1, kind |-> kind, truth |-> truth, frames |-> frames,
                  pc |-> IF runRoot = EmptyRoot(runRoot.incarnation)
                           THEN "prepare" ELSE "clear"]
  /\ UNCHANGED <<inputs, inputEdits, runRoot, boxes>>

\* Mutant: the files are removed and the directory is kept.
KeepsDirectory == runRoot' = EmptyRoot(runRoot.incarnation) /\ CaviarGoes("prepare")
\* shutil.rmtree of the root, which fails at a directory that a container has written a file
\* into meanwhile.
Cleared ==
  \/ runRoot' = EmptyRoot(runRoot.incarnation + 1) /\ CaviarGoes("prepare")
  \/ /\ \E b \in boxes : b.incarnation = runRoot.incarnation
     /\ DOMAIN runRoot.kitti # {}
     /\ runRoot' = [EmptyRoot(runRoot.incarnation) EXCEPT !.kitti = runRoot.kitti]
     /\ CaviarGoes("idle")
ClearRoot ==
  /\ caviar.pc = "clear" /\ Cleared
  /\ UNCHANGED <<inputs, inputEdits, boxes>>

\* The two configurations, which name the files of the root.
WrittenConfigs == [runRoot EXCEPT !.configs = caviar.n]

\* The directories are made and the configurations written.
Prepare ==
  /\ caviar.pc = "prepare"
  /\ runRoot' = WrittenConfigs
  /\ CaviarGoes("preflight")
  /\ UNCHANGED <<inputs, inputEdits, boxes>>

\* _live_pin_map: the live video and ground truth are the pinned ones.
LivePins == \A i \in {"video", "truth"} : inputs[i] = "pinned"

\* A batch job pins its inputs before there is a manifest to tell of a failure.
Preflight ==
  /\ caviar.pc = "preflight"
  /\ IF caviar.kind = "batch" /\ ~LivePins
       THEN CaviarGoes("idle") /\ UNCHANGED runRoot
       ELSE /\ runRoot' = [runRoot EXCEPT !.manifest =
                 Manifest(IF caviar.kind = "dry" THEN "dry-run" ELSE "running")]
            /\ CaviarGoes(IF caviar.kind = "dry" THEN "idle" ELSE "guard")
  /\ UNCHANGED <<inputs, inputEdits, boxes>>

\* The handler of an exception: the manifest tells of it, unless it cannot be written.
Told(root, status) ==
  {root, [root EXCEPT !.manifest = Manifest(status)]}
FailCaviar(status) == runRoot' \in Told(runRoot, status) /\ CaviarGoes("idle")

\* run_guarded_docker refuses, or starts the container on the root's directory of now.
GuardCaviar ==
  /\ caviar.pc = "guard"
  /\ \/ FailCaviar("safety_abort") /\ UNCHANGED boxes
     \/ /\ boxes' = boxes \cup {[run |-> caviar.n, incarnation |-> runRoot.incarnation,
                                 video |-> inputs["video"], next |-> 0]}
        /\ runRoot' = [runRoot EXCEPT !.log = caviar.n]
        /\ CaviarGoes("wait")
  /\ UNCHANGED <<inputs, inputEdits>>

\* The guard returns when the container is gone: complete if it ended with success, which
\* deepstream-app may do before the last frame, or it raises, whatever the reason, and the
\* manifest says safety_abort.
GuardReturns ==
  /\ caviar.pc = "wait"
  /\ \E b \in boxes :
       /\ b.run = caviar.n /\ boxes' = boxes \ {b}
       /\ \/ FailCaviar("safety_abort")
          \/ b.next > 0 /\ CaviarGoes("postflight") /\ UNCHANGED runRoot
  /\ UNCHANGED <<inputs, inputEdits>>

\* Mutant: the inputs are not compared again.
Unchecked == CaviarGoes("convert") /\ UNCHANGED runRoot
\* A batch job compares its inputs once more; the log attests the engine.
Postflight ==
  \/ (caviar.kind = "batch" => LivePins) /\ CaviarGoes("convert") /\ UNCHANGED runRoot
  \/ FailCaviar("failed")
CheckAgain ==
  /\ caviar.pc = "postflight" /\ Postflight
  /\ UNCHANGED <<inputs, inputEdits, boxes>>

\* Mutant: the frames that are there are taken.
TakesWhatIsThere(frames) == DOMAIN runRoot.kitti # {}
\* _expected_indices: the files are exactly the frames that ffprobe counted, or without a
\* count all up to the last one.
Expected(frames) ==
  /\ DOMAIN runRoot.kitti # {}
  /\ DOMAIN runRoot.kitti =
       IF frames # {} THEN frames
       ELSE {f \in {0, 1} : \E last \in DOMAIN runRoot.kitti : f <= last}

\* Mutant: annotated frames that were not decoded are left out.
LeavesOut == IF caviar.truth THEN Annotated(inputs["truth"]) \intersect DOMAIN runRoot.kitti
             ELSE DOMAIN runRoot.kitti
\* exported_frames: with a ground truth, as it is then, the frames that it annotates.
Exported == IF caviar.truth THEN Annotated(inputs["truth"]) ELSE DOMAIN runRoot.kitti

\* convert_kitti_directory writes a temporary file and renames it.  An annotated frame that
\* was not decoded raises.
Convert ==
  /\ caviar.pc = "convert"
  /\ \/ FailCaviar("failed")
     \/ /\ Expected(caviar.frames) /\ Exported \subseteq DOMAIN runRoot.kitti
        /\ runRoot' = [runRoot EXCEPT !.predictions = [f \in Exported |-> runRoot.kitti[f]]]
        /\ CaviarGoes("evaluate")
  /\ UNCHANGED <<inputs, inputEdits, boxes>>

\* The evaluation reads the ground truth as it is then.
Evaluate ==
  /\ caviar.pc = "evaluate"
  /\ \/ FailCaviar("failed")
     \/ /\ runRoot' = [runRoot EXCEPT
             !.evaluation = IF caviar.truth THEN inputs["truth"] ELSE @,
             !.manifest = Manifest("complete")]
        /\ CaviarGoes(IF caviar.kind = "batch" THEN "receipt" ELSE "idle")
  /\ UNCHANGED <<inputs, inputEdits, boxes>>

\* The receipt of a batch job pins every file, the evaluation among them, and is written
\* exclusively, whole or in part; after an error the manifest is written anew.
WriteJobReceipt ==
  /\ caviar.pc = "receipt"
  /\ LET Pinned(state) ==
           [runRoot EXCEPT !.receipt = [state |-> state, manifest |-> runRoot.manifest]]
     IN  runRoot' \in
           (IF runRoot.evaluation = "none" \/ runRoot.receipt.state # "none" THEN {}
              ELSE {Pinned("whole")} \cup UNION {Told(Pinned(s), "failed") : s \in {"whole", "partial"}})
             \cup Told(runRoot, "failed")
  /\ CaviarGoes("idle")
  /\ UNCHANGED <<inputs, inputEdits, boxes>>

-----------------------------------------------------------------------------
(* The container and the world                                             *)

\* The next frame's file, in the directory that was mounted: it is the root only as long as
\* nobody removed it.
WriteFrame(b) ==
  /\ b.next \in FramesOf(b.video)
  /\ boxes' = (boxes \ {b}) \cup {[b EXCEPT !.next = @ + 1]}
  /\ runRoot' = IF b.incarnation # runRoot.incarnation THEN runRoot
                ELSE [runRoot EXCEPT !.kitti = [f \in DOMAIN @ \cup {b.next} |->
                       IF f = b.next THEN [run |-> b.run, video |-> b.video] ELSE @[f]]]
  /\ UNCHANGED <<inputs, inputEdits, caviar>>

\* The run is killed wherever it is; a container of a dead run ends by itself.
KillCaviar ==
  /\ caviar.pc # "idle" /\ CaviarGoes("idle")
  /\ UNCHANGED <<inputs, inputEdits, runRoot, boxes>>

LeftBoxEnds(b) ==
  /\ b.run # caviar.n \/ caviar.pc = "idle"
  /\ boxes' = boxes \ {b}
  /\ UNCHANGED <<inputs, inputEdits, caviar, runRoot>>

EditInput(i) ==
  /\ inputEdits < MaxInputEdits /\ inputEdits' = inputEdits + 1
  /\ \E r \in Revision \ {inputs[i]} : inputs' = [inputs EXCEPT ![i] = r]
  /\ UNCHANGED <<caviar, runRoot, boxes>>

CaviarNext ==
  \/ \E kind \in {"plain", "batch", "dry"}, truth, force \in BOOLEAN :
       StartCaviar(kind, truth, force)
  \/ ClearRoot \/ Prepare \/ Preflight \/ GuardCaviar \/ GuardReturns \/ CheckAgain
  \/ Convert \/ Evaluate \/ WriteJobReceipt
  \/ \E b \in boxes : WriteFrame(b) \/ LeftBoxEnds(b)
  \/ KillCaviar
  \/ \E i \in Input : EditInput(i)

CaviarSpec == CaviarInit /\ [][CaviarNext]_caviarVars

-----------------------------------------------------------------------------
(* Properties                                                              *)

\* What a run with a ground truth exports are the frames that one revision of it annotates,
\* and without one the frames that ffprobe counted, where it could.
ExportedAll(files, truth, frames) ==
  /\ truth => \E t \in Revision : DOMAIN files = Annotated(t)
  /\ frames # {} => IF truth THEN DOMAIN files \subseteq frames ELSE DOMAIN files = frames

\* The predictions of a completed run are frames of its own container, all from one revision
\* of the video: no container of a killed run adds one, and none that it is to export is
\* missing.
CompletedIsOfOneRun ==
  LET m == runRoot.manifest
  IN  m.status = "complete" =>
        /\ \E video \in Revision : \A f \in DOMAIN runRoot.predictions :
             runRoot.predictions[f] = [run |-> m.run, video |-> video]
        /\ ExportedAll(runRoot.predictions, m.truth, m.frames)

\* A job receipt that still pins its manifest tells of a completed run over the video of the
\* quality policy, with an evaluation.  One edit of the inputs never escapes; an edit that is
\* taken back before the second comparison does, and takes two.
ValidReceipt ==
  runRoot.receipt.state = "whole" /\ runRoot.receipt.manifest = runRoot.manifest
JobReceiptIsEarned ==
  ValidReceipt =>
    /\ runRoot.manifest.status = "complete"
    /\ runRoot.evaluation # "none"
    /\ \/ \A f \in DOMAIN runRoot.predictions : runRoot.predictions[f].video = "pinned"
       \/ inputEdits > 1

CaviarIsSound == CompletedIsOfOneRun /\ JobReceiptIsEarned
=============================================================================
