---------------------------- MODULE SelectionRun ----------------------------
(***************************************************************************)
(* SelectionProcessor.execute of video_selector/process_selection.py: a    *)
(* worker process runs the jobs of a plan stage by stage (inference in a   *)
(* container, pose, render, publish) and leaves files behind; whoever runs *)
(* next resumes from what the files say.                                   *)
(*                                                                         *)
(* Workers are processes that contend for a flock, which the kernel frees  *)
(* when its owner dies.  A killed worker leaves its container and renderer *)
(* running; a power loss takes everything but the files.  An action is a   *)
(* stretch of the program between two writes.  A tracker dump is counted   *)
(* in frame files: the last container has named files one after the other, *)
(* and whole of them were written out and closed.  The first of them may   *)
(* have been removed under it, and the rest of the directory, its last     *)
(* files, may be left from the container before.  take tells the container *)
(* executions of a job apart: two of them need not detect the same.        *)
(***************************************************************************)
EXTENDS Naturals

CONSTANTS
  Worker,           \* processes that an operator starts
  NoWorker,         \* nobody holds the lock
  Plan,             \* execution plans of the selection, catalogs differ in time
  NoPlan,           \* no execution manifest yet
  JobCount,         \* the jobs of a plan are 1 .. JobCount
  Frames,           \* frame count of every video
  MaxKills,         \* bound: killed workers and power losses
  MaxFailures       \* bound: stages that raise

ASSUME SelectionAssumption ==
  /\ NoWorker \notin Worker
  /\ NoPlan \notin Plan
  /\ JobCount \in Nat \ {0} /\ Frames \in Nat \ {0}
  /\ {MaxKills, MaxFailures} \subseteq Nat

VARIABLES
  worker,           \* per process: step, job and plan
  lock,             \* owner of the flock on worker.lock
  manifest,         \* execution-manifest.json
  status,           \* execution-status.json: state and one state per job
  dump,             \* per job: the tracker_kitti directory
  container,        \* per job: take of the running container, 0 if none runs
  predictions,      \* per job: take and completeness of predictions.jsonl
  receipt,          \* per job: take that the inference manifest pins, plan it copies
  pose,             \* per job: outputs of the pose plan
  fused,            \* per job: take of the fused file and of its receipt
  render,           \* per job: the delivery directory
  orphan,           \* per job: a killed worker's renderer still writes
  deliverable,      \* per job: take shown by the published video, 0 if none
  kills, failures   \* the bounded counts

files == <<manifest, status, dump, predictions, receipt, pose, fused, render, deliverable>>
processes == <<container, orphan>>
selectionVars == <<worker, lock, files, processes, kills, failures>>

-----------------------------------------------------------------------------
SelectionJobs == 1 .. JobCount

Off == [pc |-> "off", job |-> 1, plan |-> NoPlan]

NoDump(take) == [take |-> take, named |-> 0, whole |-> 0, first |-> 0, rest |-> 0]

NoReceipt == [take |-> 0, plan |-> NoPlan]

NoPredictions == [take |-> 0, whole |-> FALSE]

NoRender == [stage |-> "none", of |-> 0]

NoStatus == [state |-> "none", rows |-> [j \in SelectionJobs |-> "pending"]]

SelectionInit ==
  /\ worker = [w \in Worker |-> Off]
  /\ lock = NoWorker
  /\ manifest = NoPlan
  /\ status = NoStatus
  /\ dump = [j \in SelectionJobs |-> NoDump(0)]
  /\ container = [j \in SelectionJobs |-> 0]
  /\ predictions = [j \in SelectionJobs |-> NoPredictions]
  /\ receipt = [j \in SelectionJobs |-> NoReceipt]
  /\ pose = [j \in SelectionJobs |-> "none"]
  /\ fused = [j \in SelectionJobs |-> [file |-> 0, receipt |-> 0]]
  /\ render = [j \in SelectionJobs |-> NoRender]
  /\ orphan = [j \in SelectionJobs |-> FALSE]
  /\ deliverable = [j \in SelectionJobs |-> 0]
  /\ kills = 0
  /\ failures = 0

Step(w, from, to) ==
  /\ worker[w].pc = from
  /\ worker' = [worker EXCEPT ![w].pc = to]

-----------------------------------------------------------------------------
(* WorkerLock, _write_or_verify_plan and the first status                  *)

Acquire(w, p) ==
  /\ worker[w].pc = "off"
  /\ lock = NoWorker
  /\ lock' = w
  /\ worker' = [worker EXCEPT ![w] = [pc |-> "plan", job |-> 1, plan |-> p]]
  /\ UNCHANGED <<files, processes, kills, failures>>

\* Mutant: any plan of the selection may continue.
TakesAnyPlan(w) ==
  /\ Step(w, "plan", "status")
  /\ manifest' = worker[w].plan
  /\ UNCHANGED <<lock, status, dump, predictions, receipt, pose, fused, render,
                 deliverable, processes, kills, failures>>

WritePlan(w) ==
  /\ manifest \in {NoPlan, worker[w].plan}
  /\ Step(w, "plan", "status")
  /\ manifest' = worker[w].plan
  /\ UNCHANGED <<lock, status, dump, predictions, receipt, pose, fused, render,
                 deliverable, processes, kills, failures>>

\* An existing manifest differs: raised before any status is written.
RefusePlan(w) ==
  /\ worker[w].pc = "plan"
  /\ manifest \notin {NoPlan, worker[w].plan}
  /\ worker' = [worker EXCEPT ![w] = Off]
  /\ lock' = NoWorker
  /\ UNCHANGED <<files, processes, kills, failures>>

\* Mutant: the rows of the previous execution stay.
KeepsOldRows(w) ==
  /\ Step(w, "status", "next")
  /\ status' = [status EXCEPT !.state = "running"]
  /\ UNCHANGED <<lock, manifest, dump, predictions, receipt, pose, fused, render,
                 deliverable, processes, kills, failures>>

NewStatus(w) ==
  /\ Step(w, "status", "next")
  /\ status' = [state |-> "running", rows |-> NoStatus.rows]
  /\ UNCHANGED <<lock, manifest, dump, predictions, receipt, pose, fused, render,
                 deliverable, processes, kills, failures>>

\* The loop of execute comes to the next job.
NextRow(w) ==
  /\ Step(w, "next", "inference")
  /\ status' = [status EXCEPT !.rows[worker[w].job] = "running"]
  /\ UNCHANGED <<lock, manifest, dump, predictions, receipt, pose, fused, render,
                 deliverable, processes, kills, failures>>

-----------------------------------------------------------------------------
(* _ensure_inference                                                       *)

\* _kitti_complete: the names of the frame files are all there.
KittiComplete(j) == dump[j].first = 0 /\ dump[j].named + dump[j].rest >= Frames

\* Mutant: predictions without a manifest count as an inference that is done.
PredictionsSuffice(j) == predictions[j].take # 0

\* _predictions_complete and _direct_manifest_complete.
InferenceComplete(j) == predictions[j].take # 0 /\ receipt[j].take # 0

ResumeInference(w) ==
  /\ InferenceComplete(worker[w].job)
  /\ Step(w, "inference", "pose")
  /\ UNCHANGED <<lock, files, processes, kills, failures>>

\* Mutant: a tracker dump is converted whenever it is there.
ConvertsFirst(w) ==
  /\ KittiComplete(worker[w].job)
  /\ Step(w, "inference", "convert")
  /\ UNCHANGED <<lock, files, processes, kills, failures>>

ReuseKitti(w) ==
  /\ ~InferenceComplete(worker[w].job)
  /\ KittiComplete(worker[w].job)
  /\ Step(w, "inference", "convert")
  /\ UNCHANGED <<lock, files, processes, kills, failures>>

\* The directories are removed and the predictions unlinked before the launch, also
\* under a killed worker's container, which writes only the frames that remain.
Wipe(w) ==
  LET j == worker[w].job
  IN  /\ ~InferenceComplete(j) /\ ~KittiComplete(j)
      /\ Step(w, "inference", "launch")
      /\ dump' = [dump EXCEPT ![j] =
           IF container[j] # 0 THEN [@ EXCEPT !.first = dump[j].named, !.rest = 0]
           ELSE NoDump(dump[j].take)]
      /\ predictions' = [predictions EXCEPT ![j] = NoPredictions]
      /\ UNCHANGED <<lock, manifest, status, receipt, pose, fused, render,
                     deliverable, processes, kills, failures>>

\* docker run; the name is taken while a killed worker's container runs.  What that one
\* wrote since the directory was emptied is still there.
Launch(w) ==
  LET j == worker[w].job
  IN  /\ container[j] = 0
      /\ Step(w, "launch", "wait")
      /\ container' = [container EXCEPT ![j] = dump[j].take + 1]
      /\ dump' = [dump EXCEPT ![j] =
           [NoDump(@.take + 1) EXCEPT !.rest = dump[j].named - dump[j].first]]
      /\ UNCHANGED <<lock, manifest, status, predictions, receipt, pose, fused, render,
                     deliverable, orphan, kills, failures>>

\* The command returned 0 and the engine is attested in its log.
Waited(w) ==
  LET j == worker[w].job
  IN  /\ container[j] = 0
      /\ dump[j].whole = Frames
      /\ Step(w, "wait", "convert")
      /\ UNCHANGED <<lock, files, processes, kills, failures>>

\* _convert_kitti: a file that was never written out reads as a frame without
\* detections, one of the container before as a frame of this one.
Convert(w) ==
  LET j == worker[w].job
  IN  /\ KittiComplete(j)
      /\ Step(w, "convert", "receipt")
      /\ predictions' = [predictions EXCEPT ![j] =
                           [take |-> dump[j].take, whole |-> dump[j].whole = Frames]]
      /\ UNCHANGED <<lock, manifest, status, dump, receipt, pose, fused, render,
                     deliverable, processes, kills, failures>>

\* _write_inference_manifest pins the predictions.
WriteReceipt(w) ==
  LET j == worker[w].job
  IN  /\ Step(w, "receipt", "pose")
      /\ receipt' = [receipt EXCEPT ![j] = [take |-> predictions[j].take,
                                            plan |-> worker[w].plan]]
      /\ UNCHANGED <<lock, manifest, status, dump, predictions, pose, fused, render,
                     deliverable, processes, kills, failures>>

-----------------------------------------------------------------------------
(* _ensure_pose, with execute_plan of process_pose_selection.py            *)

\* Its outputs exist only completely or are refused.
RunPose(w) ==
  LET j == worker[w].job
  IN  /\ pose[j] = "none"
      /\ Step(w, "pose", "transcode")
      /\ pose' = [pose EXCEPT ![j] = "partial"]
      /\ UNCHANGED <<lock, manifest, status, dump, predictions, receipt, fused, render,
                     deliverable, processes, kills, failures>>

FinishPose(w) ==
  LET j == worker[w].job
  IN  /\ Step(w, "transcode", "fuse")
      /\ pose' = [pose EXCEPT ![j] = "complete"]
      /\ UNCHANGED <<lock, manifest, status, dump, predictions, receipt, fused, render,
                     deliverable, processes, kills, failures>>

ResumePose(w) ==
  /\ pose[worker[w].job] = "complete"
  /\ Step(w, "pose", "fuse")
  /\ UNCHANGED <<lock, files, processes, kills, failures>>

\* _pose_fusion_complete: the receipt pins input and output.
FusionComplete(j) ==
  /\ fused[j].file # 0
  /\ fused[j].receipt = fused[j].file
  /\ fused[j].file = predictions[j].take

ResumeFusion(w) ==
  /\ FusionComplete(worker[w].job)
  /\ Step(w, "fuse", "render")
  /\ UNCHANGED <<lock, files, processes, kills, failures>>

\* The old pair is unlinked, the new file written.
Fuse(w) ==
  LET j == worker[w].job
  IN  /\ ~FusionComplete(j)
      /\ Step(w, "fuse", "fuse receipt")
      /\ fused' = [fused EXCEPT ![j] = [file |-> predictions[j].take, receipt |-> 0]]
      /\ UNCHANGED <<lock, manifest, status, dump, predictions, receipt, pose, render,
                     deliverable, processes, kills, failures>>

WriteFusionReceipt(w) ==
  LET j == worker[w].job
  IN  /\ Step(w, "fuse receipt", "render")
      /\ fused' = [fused EXCEPT ![j] = [file |-> fused[j].file, receipt |-> fused[j].file]]
      /\ UNCHANGED <<lock, manifest, status, dump, predictions, receipt, pose, render,
                     deliverable, processes, kills, failures>>

-----------------------------------------------------------------------------
(* _ensure_render and _publish_deliverable                                 *)

\* _render_complete: the manifest pins the video.
RenderComplete(j) == render[j].stage = "rendered"

\* Mutant: a render that is complete counts as published.
ResumeUnpublished(w) ==
  /\ RenderComplete(worker[w].job)
  /\ Step(w, "render", "row")
  /\ UNCHANGED <<lock, files, processes, kills, failures>>

ResumeRender(w) ==
  /\ RenderComplete(worker[w].job)
  /\ Step(w, "render", "publish")
  /\ UNCHANGED <<lock, files, processes, kills, failures>>

StartRender(w) ==
  LET j == worker[w].job
  IN  /\ ~RenderComplete(j)
      /\ Step(w, "render", "rendering")
      /\ render' = [render EXCEPT ![j] = NoRender]
      /\ UNCHANGED <<lock, manifest, status, dump, predictions, receipt, pose, fused,
                     deliverable, processes, kills, failures>>

Rendered(w) ==
  /\ RenderComplete(worker[w].job)
  /\ Step(w, "rendering", "publish")
  /\ UNCHANGED <<lock, files, processes, kills, failures>>

Publish(w) ==
  LET j == worker[w].job
  IN  /\ Step(w, "publish", "row")
      /\ deliverable' = [deliverable EXCEPT ![j] = render[j].of]
      /\ UNCHANGED <<lock, manifest, status, dump, predictions, receipt, pose, fused,
                     render, processes, kills, failures>>

\* Mutant: the last job has a successor.
CompleteRowOffByOne(w) ==
  /\ worker[w].pc = "row"
  /\ worker' = [worker EXCEPT ![w].pc = "next", ![w].job = @ + 1]
  /\ status' = [status EXCEPT !.rows[worker[w].job] = "complete"]
  /\ UNCHANGED <<lock, manifest, dump, predictions, receipt, pose, fused, render,
                 deliverable, processes, kills, failures>>

\* The row is complete; the next one comes, or none is left.
CompleteRow(w) ==
  LET j == worker[w].job
  IN  /\ worker[w].pc = "row"
      /\ worker' = [worker EXCEPT ![w] =
           IF j < JobCount THEN [worker[w] EXCEPT !.pc = "next", !.job = j + 1]
           ELSE [worker[w] EXCEPT !.pc = "done"]]
      /\ status' = [status EXCEPT !.rows[j] = "complete"]
      /\ UNCHANGED <<lock, manifest, dump, predictions, receipt, pose, fused, render,
                     deliverable, processes, kills, failures>>

Complete(w) ==
  /\ worker[w].pc = "done"
  /\ worker' = [worker EXCEPT ![w] = Off]
  /\ lock' = NoWorker
  /\ status' = [status EXCEPT !.state = "complete"]
  /\ UNCHANGED <<manifest, dump, predictions, receipt, pose, fused, render,
                 deliverable, processes, kills, failures>>

-----------------------------------------------------------------------------
(* Failures                                                                *)

InJob == {"inference", "launch", "wait", "convert", "receipt", "pose", "transcode",
          "fuse", "fuse receipt", "render", "rendering", "publish"}

Raise(w) ==
  /\ worker' = [worker EXCEPT ![w] = Off]
  /\ lock' = NoWorker
  /\ status' = [state |-> "failed",
                rows |-> [j \in SelectionJobs |->
                            IF status.rows[j] = "running" THEN "failed" ELSE status.rows[j]]]
  /\ UNCHANGED <<manifest, dump, predictions, receipt, pose, fused, render, deliverable,
                 orphan>>

\* Any stage may raise: a probe that differs, a command's exit code, an engine that
\* is not attested, a conversion, an interrupt.  A docker client that fails or is
\* interrupted may leave its container.
Fail(w) ==
  /\ worker[w].pc \in InJob \cup {"next"}
  /\ failures < MaxFailures
  /\ failures' = failures + 1
  /\ container' \in {container} \cup
       IF worker[w].pc = "wait" THEN {[container EXCEPT ![worker[w].job] = 0]} ELSE {}
  /\ Raise(w)
  /\ UNCHANGED kills

\* Mutant: partial pose outputs are retried from the start of the job.
RetriesPose(w) ==
  \/ worker[w].pc = "launch" /\ container[worker[w].job] # 0 /\ Raise(w)
     /\ UNCHANGED <<container, kills, failures>>
  \/ pose[worker[w].job] = "partial" /\ Step(w, "pose", "inference")
     /\ UNCHANGED <<lock, files, processes, kills, failures>>

\* What must fail: the container's name is taken, or the pose outputs are partial.
Refused(w) ==
  /\ \/ worker[w].pc = "launch" /\ container[worker[w].job] # 0
     \/ worker[w].pc = "pose" /\ pose[worker[w].job] = "partial"
  /\ Raise(w)
  /\ UNCHANGED <<container, kills, failures>>

Kill(w) ==
  /\ worker[w].pc # "off"
  /\ kills < MaxKills
  /\ kills' = kills + 1
  /\ worker' = [worker EXCEPT ![w] = Off]
  /\ lock' = NoWorker
  /\ orphan' = IF worker[w].pc = "rendering" THEN [orphan EXCEPT ![worker[w].job] = TRUE]
               ELSE orphan
  /\ UNCHANGED <<files, container, failures>>

PowerLoss ==
  /\ kills < MaxKills
  /\ kills' = kills + 1
  /\ worker' = [w \in Worker |-> Off]
  /\ lock' = NoWorker
  /\ container' = [j \in SelectionJobs |-> 0]
  /\ orphan' = [j \in SelectionJobs |-> FALSE]
  /\ UNCHANGED <<files, failures>>

-----------------------------------------------------------------------------
(* External: the container of deepstream-app and content.roi_demo          *)

\* A frame file is created, then written out; the container ends after the last.
DumpFrame(j) ==
  /\ container[j] # 0
  /\ \/ /\ dump[j].named = dump[j].whole
        /\ dump[j].named < Frames
        /\ dump' = [dump EXCEPT ![j].named = @ + 1]
        /\ UNCHANGED container
     \/ /\ dump[j].whole < dump[j].named
        /\ dump' = [dump EXCEPT ![j].whole = @ + 1]
        /\ UNCHANGED container
     \/ /\ dump[j].whole = Frames
        /\ container' = [container EXCEPT ![j] = 0]
        /\ UNCHANGED dump
  /\ UNCHANGED <<worker, lock, manifest, status, predictions, receipt, pose, fused,
                 render, deliverable, orphan, kills, failures>>

RenderedBy(j) == \E w \in Worker : worker[w].pc = "rendering" /\ worker[w].job = j

\* The renderer reads the fused file and writes the video, then the manifest.
RenderFrame(j) ==
  /\ orphan[j] \/ RenderedBy(j)
  /\ \/ /\ render[j].stage = "none"
        /\ render' = [render EXCEPT ![j] = [stage |-> "video", of |-> fused[j].file]]
     \/ /\ render[j].stage = "video"
        /\ render' = [render EXCEPT ![j].stage = "rendered"]
  /\ UNCHANGED <<worker, lock, manifest, status, dump, predictions, receipt, pose, fused,
                 deliverable, processes, kills, failures>>

OrphanEnds(j) ==
  /\ orphan[j]
  /\ orphan' = [orphan EXCEPT ![j] = FALSE]
  /\ UNCHANGED <<worker, lock, files, container, kills, failures>>

-----------------------------------------------------------------------------
WorkerStep(w) ==
  \/ WritePlan(w) \/ RefusePlan(w) \/ NewStatus(w) \/ NextRow(w)
  \/ ResumeInference(w) \/ ReuseKitti(w) \/ Wipe(w) \/ Launch(w) \/ Waited(w)
  \/ Convert(w) \/ WriteReceipt(w)
  \/ RunPose(w) \/ FinishPose(w) \/ ResumePose(w)
  \/ ResumeFusion(w) \/ Fuse(w) \/ WriteFusionReceipt(w)
  \/ ResumeRender(w) \/ StartRender(w) \/ Rendered(w) \/ Publish(w)
  \/ CompleteRow(w) \/ Complete(w) \/ Refused(w)

ExternalStep(j) == DumpFrame(j) \/ RenderFrame(j) \/ OrphanEnds(j)

SelectionNext ==
  \/ \E w \in Worker : WorkerStep(w) \/ Fail(w) \/ Kill(w)
  \/ \E w \in Worker, p \in Plan : Acquire(w, p)
  \/ \E j \in SelectionJobs : ExternalStep(j)
  \/ PowerLoss

SelectionFairness ==
  /\ \A w \in Worker : WF_selectionVars(WorkerStep(w))
  /\ \A j \in SelectionJobs : WF_selectionVars(ExternalStep(j))

SelectionSpec == SelectionInit /\ [][SelectionNext]_selectionVars /\ SelectionFairness

-----------------------------------------------------------------------------
Takes == 0 .. MaxKills + MaxFailures + 1

\* Type correctness; a kill or a failure pays for every further container of a job, and
\* frames are named before they are whole.
SelectionTypeOK ==
  /\ worker \in [Worker -> [pc : InJob \cup {"off", "plan", "status", "next", "row", "done"},
                            job : SelectionJobs, plan : Plan \cup {NoPlan}]]
  /\ lock \in Worker \cup {NoWorker}
  /\ manifest \in Plan \cup {NoPlan}
  /\ status \in [state : {"none", "running", "complete", "failed"},
                 rows : [SelectionJobs -> {"pending", "running", "complete", "failed"}]]
  /\ dump \in [SelectionJobs -> [take : Takes, named : 0 .. Frames,
                                 whole : 0 .. Frames, first : 0 .. Frames,
                                 rest : 0 .. Frames]]
  /\ container \in [SelectionJobs -> Takes]
  /\ predictions \in [SelectionJobs -> [take : Takes, whole : BOOLEAN]]
  /\ receipt \in [SelectionJobs -> [take : Takes, plan : Plan \cup {NoPlan}]]
  /\ pose \in [SelectionJobs -> {"none", "partial", "complete"}]
  /\ fused \in [SelectionJobs -> [file : Takes, receipt : Takes]]
  /\ render \in [SelectionJobs -> [stage : {"none", "video", "rendered"}, of : Takes]]
  /\ orphan \in [SelectionJobs -> BOOLEAN]
  /\ deliverable \in [SelectionJobs -> Takes]
  /\ kills \in 0 .. MaxKills /\ failures \in 0 .. MaxFailures
  /\ \A j \in SelectionJobs : dump[j].whole <= dump[j].named /\ dump[j].first <= dump[j].named

\* The status file is the lock owner's: while a worker is in its jobs, the state is
\* running, the rows before its job are complete, its own is running once it came to it,
\* and the rows after it are pending, whatever an earlier execution left in the file.
StatusFollowsOwner ==
  \A w \in Worker : worker[w].pc \in InJob \cup {"next"} =>
    /\ lock = w
    /\ status.state = "running"
    /\ \A j \in SelectionJobs :
         status.rows[j] = IF j < worker[w].job THEN "complete"
                          ELSE IF j = worker[w].job /\ worker[w].pc # "next" THEN "running"
                          ELSE "pending"

\* A published video shows the predictions that the inference manifest of its job pins
\* (execute: inference, pose, render, publish), whatever was killed, failed, resumed
\* or left running before.
DeliveredIsReceipted ==
  \A j \in SelectionJobs : deliverable[j] # 0 =>
    deliverable[j] = receipt[j].take /\ receipt[j].take = predictions[j].take

\* The jobs of a selection are inferred under one plan, the recorded one, although the
\* resume check of a job does not compare plans (_write_or_verify_plan).
OnePlanPerSelection ==
  \A j \in SelectionJobs : receipt[j].take # 0 => receipt[j].plan = manifest

\* A row that the status calls complete has its published video, also after a worker
\* died between rendering and publishing and another one resumed.
CompleteIsDelivered ==
  \A j \in SelectionJobs : status.rows[j] = "complete" => deliverable[j] # 0

\* A receipt is final: no later execution replaces it or the predictions it pins.
ReceiptIsFinal ==
  [][\A j \in SelectionJobs : receipt[j].take # 0 =>
       receipt'[j] = receipt[j] /\ predictions'[j] = predictions[j]]_selectionVars

\* A worker ends and frees the lock: with complete outputs, or because it raised;
\* what a dead worker left behind makes it fail, never wait for ever.
WorkersEnd == \A w \in Worker : worker[w].pc # "off" ~> worker[w].pc = "off"

\* Docstring: "It does, however, require a complete frame-for-frame NvDCF KITTI dump
\* before an inference stage can be receipted."
ReceiptedDumpIsWhole ==
  \A j \in SelectionJobs : receipt[j].take # 0 => predictions[j].whole
=============================================================================
