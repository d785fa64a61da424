# Verification of the DeepStream 9 PPE pipeline

TLA+ models of the stateful logic of this repository, TLC configurations that
check them on small instances, and TLAPS proofs of the results that hold for
every configuration. The models are written from the source; each definition
that stands for code is listed with its lines in `PROJECT.json` ("map").

## The system

A camera stream passes these stages; every stage reads and writes a JSONL file
with one record per frame.

| stage | code | state it keeps |
|---|---|---|
| person detection and tracking | DeepStream containers, started by `validation/run_*_deepstream*.py` | none here |
| native fusion metadata | `deepstream/fusion/` (C++) | per-source watermark and pose tracks; one call per batch |
| person-PPE fusion | `content/person_ppe_fusion.py` | tracks, per equipment a debounced decision, next id |
| vehicle fallback | `content/forklift_driver_rules.py` (`merge_raw_vehicle_detector_fallback`) | vehicle id links across tracker gaps |
| forklift-driver suppression | `content/forklift_driver_rules.py` | operator terms per person, qualified vehicles, effective alarms |
| walkway and fence rules | `content/person_zone_rules.py` | per person and rule a debounced alarm, fence states |
| events and video | `content/ppe_video.py` | event contracts over the whole stream |

Around the stages are services, batch commands, and what has to be true before a
container may use the GPU.

| component | code | state and operations | hard behaviour |
|---|---|---|---|
| ROI render jobs | `admin/roi_render_jobs.py` | job files, one executor thread, one renderer process | enqueue and spawn racing shutdown, crash and restart |
| settings and pipeline | `admin/store.py`, `admin/app.py`, `admin/pipeline.py` | one JSON file, one process; handlers in a thread pool | load, check and save without a lock |
| manual review | `admin/manual_review.py` | SQLite decisions, append-only audit, exports | concurrent revisions, export after commit |
| PPE human QA | `admin/ppe_human_qa.py` | SQLite decisions and policy, audit verified as a whole | the clock is read before the transaction |
| ROI editor | `admin/roi_editor.py` | plan files | rounding of clips, shapes of polygons |
| video selector | `video_selector/app.py` | selections and queues in files | four files written one by one, catalog replaced |
| selection processing | `video_selector/process_selection.py` | staged outputs, manifests, receipts, a flock | crash between stages, resume, two workers |
| PPE selection processing | `video_selector/process_ppe_selection.py`, `validation/run_ppe_deepstream.py`, `run_person_deepstream_direct.py` | write-once outputs, delivery manifest | rerun after a failure, processes that outlive a killed runner |
| runtime builders | `deepstream/parallel_runtime.py`, `fusion_runtime*.py` | directories published by one rename | racing builders, edits between probe and rename |
| full-stack plan | `deepstream/full_stack.py` | plan and rendered files, replayed at launch | files change between plan and launch |
| scene matrix | `validation/scene_benchmark/run_matrix.py` | status, samples and archive per cell, a lock per GPU | killed runner, stale status, skipping of complete cells |
| GPU guard | `validation/gpu_guarded_process.py` | container, monitor thread, report and receipt | late starts, failing cleanup, who stops first |
| GPU re-entry evidence | `validation/gpu_reentry_evidence.py` | a bundle of readings, a declaration | the machine changes between readings and use |
| GPU smoke | `validation/ds9_gpu_smoke.py` | raw evidence, replayed on the host | a worker that is believed instead of measured |
| DS9 qualification | `validation/ds9_parser_bootstrap.py`, `ds9_runtime_compatibility.py`, `ds9_gpu_smoke.py` | images, receipts, one-time claims | retags, expiry and edits between any two steps |
| CAVIAR runner | `validation/run_caviar.py`, `kitti_to_jsonl.py` | run root, manifest, job receipt | a killed run whose container writes on, forced reruns |
| validation page | `admin/validation.py` | none; one request reads dozens of files | files of a campaign change between two reads |
| evidence cards | `admin/*_status.py` | none; one loader reads its pinned files one by one | writes, renames and mode changes while a file is read |
| converters, summaries | `validation/...` | none | none |

What makes them correct, in one sentence each: *stages* - the decision about a
person is a function of what was observed, and every alarm that starts ends once
and for the documented reason; *suppression* - a new operator is alone in the
vehicle, and suppressing hides exactly the operators' alarms; *jobs and runs* - a
job ends in one terminal state, `complete` means a verified output of one run,
and what a crash leaves can be resumed or is refused; *stores* - no acknowledged
decision is lost and what is stored can be read back; *publications and plans* -
what is published is what was probed, and a launch uses what the plan pins;
*guard and evidence* - a receipt never claims more than was measured, recently
enough, of the same files and image; *page* - finalized or accepted is shown
only beside documents that belong together, with the decision of the receipt; *cards* - what is shown as available rests on
files that were what their pins say.
`PROJECT.json` lists the hazards line by line, with the properties that cover
them and a note for those that no property covers.

## Modules

```
AlarmLedger            abstract: what a stream of alarm events promises
  PersonPpeFusion      person_ppe_fusion.py, one action per frame
    PersonPpeHistory     + what was observed, to state what the filter computes
    PersonPpeFusion_proofs
  ForkliftDriver       ForkliftDriverRuleEngine, step by step inside a frame
  EffectiveAlarms      the alarms re-derived for people who are not driving
  PersonZoneRules      person_zone_rules.py, one action per frame
    PersonZoneHistory    + what was seen, to state what an alarm rests on
    PersonZoneRules_proofs
VehicleFallback        ids of vehicles across tracker gaps
FusionEngine           core.cpp and its probe, one action per batch
JobLifecycle           abstract: the status of a job as a client sees it
  RoiRenderJobs          roi_render_jobs.py, threads, shutdown, kill and restart
    RoiRenderJobs_proofs
ManualReview  AdminState  PpeHumanQa  RoiEditor  SelectionStore
SelectionRun  PpeSelectionRun
RuntimePublication  FullStackPlan  MatrixRuns  ValidationStatus  EvidenceCards
GpuGuard  ReentryEvidence  SmokeRuns  DsQualification  CaviarRuns

StreamStages    = FusionEngine, VehicleFallback, PersonZoneHistory, ForkliftDriver, EffectiveAlarms
  StreamStages_proofs
WebServices     = RoiRenderJobs, AdminState, ManualReview, PpeHumanQa, RoiEditor, SelectionStore
  WebServices_proofs
BatchRuns       = SelectionRun, PpeSelectionRun
  BatchRuns_proofs
LaunchRuns      = RuntimePublication, FullStackPlan, MatrixRuns, ValidationStatus, EvidenceCards
  MCLaunchRuns           + the symmetry of the processes, for TLC
  LaunchRuns_proofs
GpuAdmission    = GpuGuard, ReentryEvidence, SmokeRuns, DsQualification, CaviarRuns
  GpuAdmission_proofs
```

These five modules check several components in one run. The components of a
group hand over files and share no variables, so a product of their state spaces
would show nothing that each does not show alone. The variable `part` is chosen in
`Init` and says which of them a behaviour runs; the others stay in one fixed
initial state. Every behaviour of a component, with every interleaving of its own
threads and processes, is a behaviour of the group, and an invariant or property
of the group is a conjunction of those of its components. `Init` also narrows a
component's initial states while another part runs (`part # "status" => ...`), which
removes no behaviour of the part that runs. Where components do
meet in the code, the meeting is inside a module: PpeSelectionRun holds the runners
and the file writers it starts, SelectionStore both planners that read what it saves,
DsQualification the build, the probe, the smoke's host side and the entry points,
ValidationStatus the page and everyone who rewrites its files. EffectiveAlarms takes
its raw stream to be any AlarmLedger, which PersonPpeFusion is proved to be.

**AlarmLedger** is the promise that `ppe_video.transition_event_contract` and
`_safety_event_contract` verify when they fold a stream: an end closes an open
alarm, a start opens a closed one for a person that the frame shows. `Spec`
allows an alarm to end and start again in one frame, `SettledSpec` does not.
The event producers are shown to implement it with `INSTANCE ... WITH`.

**PersonPpeFusion**. `tracks`, `nextTrackId` are `_tracks`, `_next_track_id`;
`started`, `ended` are the events of the last `process_frame`. `Frame` is a
whole call: association, aging, expiry, evidence, debounce, events. The geometry
is replaced by its outcome: which ids the tracker supplied, which live tracks
the other detections continue, how many need a new id, and for every visible
person and equipment one of five observations (a positive or a negative
detection won, conflict, body zone visible without detection, nothing). `Reject`
is the exception for a duplicate tracker id, which leaves the tracks created so
far. The loop of `_allocate_track_id` that skips live ids is not modelled: it
never runs, which is `IdsBelowNext`. Confidences do not influence decisions and
are left out. A streak saturates at `StreakCap`, above every threshold.

**PersonPpeHistory** records, independently of the code's streaks, the current
run of equal observations and the decision in force when it began, and states
the decision as a function of these (`Decided`).

**ForkliftDriver**. `process_frame` visits people in the order of their ids and a
visit changes the tracks of others, so the frame is modelled in steps:
`BeginFrame` (qualification, matching, expiry), one `Visit` per person,
`EndFrame` (what the frame publishes). Frame indices are ages relative to the
current frame. The greedy matching is an arbitrary one-to-one matching.

**EffectiveAlarms** is the second half of
`augment_person_ppe_with_tracked_vehicles`: the raw stream is any settled ledger
and which people are eligible is arbitrary, so it composes with PersonPpeFusion
(which implements that ledger) and with ForkliftDriver (which decides who is
eligible) without repeating them.

**PersonZoneRules**. `tracks` is `_tracks`, `eligible` the persons of the last
frame with their `zone_alert_eligible`, the other variables the two event lists.
`ProcessFrame` is a whole call. One operator, `Debounced`, is `_update_rule` and
`update_climb`, which run the same debounce on different evidence. `Anchor` says
what decides the restricted zone: the foot point, pose key points, or the fence
with its stages; in fence mode `ZoneEnter` and `ZoneExit` are the breach
thresholds. Streaks saturate at the threshold they are compared with. Which
poses show a climb (contact of the wrists, rise of hip and knees against the
history) is an arbitrary outcome per frame. An exception in the middle of a
frame ends the stream in every caller and is not an action.

**PersonZoneHistory** records climbing sightings since the last alarm,
suppression or expiry, and the run of sightings outside the zone, without the
engine's streaks.

**RoiRenderJobs**. `file` is the job files on disk, `output` the output
directories, `session`, `active`, `worker`, `queue` the memory of the service;
`phase` stands for the executor reference and the stop event, which are set
together under the lock, and for the step of `shutdown`. A request, the worker
and shutdown interleave between their locked sections; one job file update is
one step (`_update_job` holds the lock over load and replace). `Save` may raise
an I/O error before or after the replace. `Crash` kills the service at any step;
the renderers die with it (the Dockerfiles run uvicorn as the init process of a
container) or live on in their own session (no container). What the renderer does is external: video, then manifest, then any exit code, at any
time.

**JobLifecycle** is the promise to a client that polls: none, queued, running,
complete or error, only forward, and only accepted jobs run.

**VehicleFallback**. A box is its place on a line, overlap is nearness; raw boxes
come in any order. `vehicleTracks` holds, per id, the last box and the frames since,
`nextSynthetic` the next id for a box without a tracker id; `vehicleRows` are
the vehicles that the last frame wrote, `vehicleOutput` is the output file. One action is one frame of
`merge_raw_vehicle_detector_fallback`. The native rows of a frame have different ids.

**FusionEngine**. The links of a frame are a function of its scene and are checked
over every scene of two tracks and two poses; the state is the order of batches:
the watermark of every source, a candidate engine per batch that is committed or
dropped as a whole, and the probe that drops a buffer whose batch failed.

**AdminState**. Handlers of `app.py` load, check and save in separate steps, since the
store locks each call only; the manager's lock covers start and stop with its
wait of ten seconds and the kill. A process may ignore the signal, the service
may be killed. `SavedStateFits`: what is saved always fits the engine's batch limit
at the time of the check; `RunningHasItsConfig` and `UntrackedAreEnding`: the
pipeline that runs is the one that was configured, and no process is forgotten
that was not told to end.

**ManualReview**, **PpeHumanQa**. A transaction is one step; the context that is read
before it, the clock that is read before it and the files that are exported after
it are steps of their own. Revisions are the code's optimistic locks.

**RoiEditor** is mostly functions: the polygon test of the code against a reference
definition of a simple polygon over every polygon of a small grid, and the
rounding of a clip to frames.

**SelectionStore**. A save checks, clamps and writes queue, selection and the two
`latest` files in this order under a lock; it may be killed or fail between any two.
The planners are operators over what is on disk, so that "saved" is compared with
"accepted by the planner".

**SelectionRun**. A worker takes the flock or is refused, resumes from receipts, and
runs inference, pose, render and publication job by job; power loss takes the
container, a kill of the worker leaves it, and a failure may leave it too. `named` and
`whole` count the files of a tracker dump that a listing shows and those that were
written out; a worker empties the directory also below a container that was left
running, so `first` counts the files that are gone and `rest` those that the container
before has left behind when the next one starts.

**PpeSelectionRun**. The file system is a function from paths to who wrote them from
what. An action is a stretch of the program between two writes, the runners'
processes outlive a killed runner, and `--force` is a choice of every run.

**RuntimePublication**. Builders copy, probe and rename; processes race for one
target, are killed, fail to remove their stage without a word, and the pinned inputs,
the builder or the published directory are edited below them. An inspection re-reads what it accepts. The binary is probed
by path and read again afterwards: only a file that is changed and changed back in
between slips through, which `PublishedIsProbed` says (`spent.changes > 1`). An edit
of a builder is a new revision, never an old one again.

**FullStackPlan**. The planner probes the artifacts, writes files and then the plan,
or removes both; the replay recomputes every pin and the gate decides from the
replay. All writers are atomic per file and none is locked.

**MatrixRuns**. A campaign under the lock of its GPU, with its gates, the archive of
earlier evidence, the poll loop that counts steady rows, the verdict and the
summary. A run has a warm-up or none (`warms`), which decides what the first row in
the log begins. `--generate-only` and blocked runs write beside it without a lock.

**ValidationStatus**. A request is the sequence of its reads, through the cache of
the request. The supervisor, two finalizers and people rewrite the files; these
writers are not in `src/` and are modelled from the lock contract that the
receipts and the tests state: reports first, the receipt last. The history variable
`together` holds the receipts that lay on disk with all that they pin at some moment
since the request began. A committed receipt was true at such a moment and not always
when it was read: the outputs that the v2 receipt pins may be in the cache since the v1
receipt was verified, and the file of one may be replaced before the v2 receipt is
read. A deployment is found with a finished campaign, a rehearsed one, or one that
the v1 receipt finalized already. A campaign report says three things apart: whether the
endurance run is accepted, which the receipt requires, what is decided for the whole
campaign (`accepted`), for or against, which the receipt must only state as it is, and
whether it claims acceptance otherwise (`claims`: its status or its final claim). A
finalized campaign may therefore be shown as not accepted, as
`tests/test_finalize_validation.py` finalizes one.

**EvidenceCards**. One loader at a time reads the files that its card pins, in two
halves each, compares them with their pins, validates the documents - with literals of
the source, so a validator finds what it expects or not - and shows the card or an
unavailable one, while anybody writes, renames and changes modes
(`MaxCardEdits`). Two changes never leave the same times, which is what the loaders
trust. The native build card looks at the digest only; of the others every file was,
at one moment while it was open, what its pin says. That all of them were so at the
same time is not promised and not claimed.

**GpuGuard**. The guard, its monitor thread, the attached client, the container and
the files of one artifact root. A sample of the GPU is what the monitor does with
it (good, signal, slow, bad, error). The daemon takes its time: a container is asked
for, created and started in steps, so that one may appear when the client is gone and
the last `docker rm -f` has found nothing (it is left, never started). `docker
inspect` has no time limit and may hang, `docker rm -f` has one and then raises before
SIGKILL is sent, and the stop is tried a second time by the `finally`. What nobody
catches (`Unhandled`) leaves the report at `checking` or `running`.

**ReentryEvidence**. Facts of the machine are read one after another; time passes
and facts change between readings and until the bundle is used, under the strict
and the workstation policy.

**SmokeRuns**. The worker runs both parsers and samples file descriptors while they
run; the host replays the raw evidence and does not believe the conclusions of the
worker.

**DsQualification**. Two-pass build, static probe with its receipt, contract,
authorization, one-time claim, guarded smoke, evidence, production receipt, and
the check that every GPU entry point makes. An image id stands for what it was
built from and its labels. The receipts of the bootstrap compare the build inputs and
the manifest only; the other controls reach them through the manifest, which the
entry points compare with the live files. `live` stands for the controls: what else the
Dockerfile copies (`admin`, `deepstream`) is pinned nowhere and is not modelled. Every
edit is a new revision, so a control that is changed while docker build copies it and
restored before the next look is outside of the model and of its property.

**CaviarRuns**. One live run per run root (the batch driver, which is not in the
repository, starts one job after another); containers of killed runs live on in
the same directory. The video has two frames, of which the ground truth annotates one:
with a ground truth only that one is exported.

## Runs

| run | question | result | instance |
|---|---|---|---|
| `ppe_fusion` | Do events pair up, are ids fresh, are present people spared by misses? | holds | 2 ids, 1 channel with inference, thresholds 2 (unknown 3, inferred absence 1), ttl 2 |
| `ppe_debounce` | Is every decision the function of the observed run that the configuration describes? | holds | 1 id, one inferring and one other channel, thresholds all different |
| `stream_stages` | Do links, vehicle ids, operator terms, zone and fence alarms and effective alarms tell what the frames showed? | holds | 2 sources; 3 places; 2 people in 2 vehicles; 1 person at a fence with climb 3, enter 2, exit 3; 2 wearers with 2 kinds |
| `web_services` | Is no job forgotten, no decision lost, every saved thing readable and plannable, and every lock given back? | holds | 2 threads or jobs, 1 kill and 1 fault per service, 2 revisions of index or catalog, polygons of 4 corners on a 3 x 3 grid |
| `batch_runs` | Do statuses, receipts and deliveries agree with the files after kills and failures, and does every worker end? | holds | 2 workers, 2 plans, 2 jobs of 2 frames; 2 variants, 2 videos, 3 runs; 1 kill and 1 failure each |
| `launch_runs` | Is what is published, planned, measured or shown as final what was probed, pinned, steady and whole? | holds | 2 processes, 2 builds or plans, 3 commands over one cell or 2 over two (inputs are edited where it is one), 4 rows, 1 kill and 1 edit each; 1 campaign with 3 reports, decided for or against, 2 writes during a request or a card |
| `gpu_admission` | Does only what was measured, recently and of the same files, let a container onto the GPU, and does the guard stop it? | holds | 2 samples per phase, clock 3, receipts that live 2, 1 change of the machine, 2 executors, 2 CAVIAR runs |
| `ppe_unknown_hold` | Do `unknown_after_frames` unknown frames clear a decision? | violated | as `ppe_debounce` |
| `forklift_occupancy` | Is there at most one active operator per vehicle? | violated | 2 people, 2 vehicles |
| `roi_single` | Is there one renderer at a time? | violated | 2 jobs, 1 kill |
| `selection_dump` | Is a receipted tracker dump whole? | violated | 2 jobs, 2 kills |
| `selection_clip` | Is every saved clip nonempty? | violated | 1 save of a clip behind the end of the video |

The sizes of the sets, the thresholds and the bounds are constants with values in
the `.cfg` of the run. What bounds a counter that the code does not bound is named
`Max...` and is a guard of the action that counts. Why these bounds suffice:

* *Stages.* The properties relate two people at most (one displaces or inherits from
  the other), a threshold of 2 separates "first" from "enough", and different
  thresholds in `ppe_debounce` separate every pair of counters. With a ttl of 2 a
  track can be missed, kept and lost. People are visited in the order of their ids,
  so ids are numbers and not symmetric. The fence is checked because it is the only
  anchor with stages; the proofs cover every anchor and any number of people.
* *Services.* Two requests are the one that checks and the one that commits in
  between; a third repeats the second. One kill or fault hits every step once, and
  a restart follows it. The grid of the editor holds every kind of contact between
  four edges.
* *Batch and launch.* One kill puts a rerun after every step, and one more failure
  hits the rerun. Two processes are one that acts and one that comes in between.
  `MaxChanges = 1` excludes edits that are undone again before the code looks a second
  time; the code does not claim to notice these, and the theorem about publications
  names the escape. `MaxInputEdits = 2` lets an input of CAVIAR be edited and restored:
  what such a run may then say is part of the property. The steps of the writers while a
  page is made are two (`MaxDuring`): one before and one after a look; the theorem is
  for any number.
* *Admission.* A receipt is fresh, at its limit and expired within the clock; two
  samples are one good and one bad one in either order.

`launch_runs` declares the two processes symmetric, in a module of its own
(`MCLaunchRuns`) so that the module that is proved about needs nothing of TLC: no
action distinguishes them and its properties are invariants and action properties. Deadlock is checked where a
component has no bound on its life (fusion, forklift, ROI jobs, the selection
worker). In the groups a part whose bounds are used up has no step left, and most
components really stop (a command ends), so their configurations say
`CHECK_DEADLOCK FALSE`; what must go on is stated as a liveness property.

### Liveness and fairness

* `JobsEnd` (RoiRenderJobs: `ShutdownEnds`, `AcceptedJobsEnd`): every thread that can
  take a step takes one, and a service that is down is started (`restart:
  unless-stopped` in `docker-compose.yml`). `AcceptedJobsEnd` also names its
  own premises: that renderers exit, because a clip is finite and the code has no
  timeout for them, and that no update fails.
* `WebLocksAreReleased`: a stop that waits comes back (`wait(timeout=10)`), a reviewer's
  `put` and a client's `save` are threads that go on; their `finally` releases.
* `BatchEnds`: the worker and the runner go on, and the containers, renderers and
  processes they wait for end (clips are finite, waits have timeouts).
* `GuardStops`: the guard's thread goes on; nothing is assumed of its monitor thread, of
  the client or the container. Every command the guard runs has a time limit but for the
  `docker inspect` after the launch, so the property says: whatever the guard does, it
  comes to its end, to the poll of a client without a blocking event, or to an inspection
  that hangs. The last is a limit of the code: no blocking event is acted upon while the
  daemon does not answer.

The stages, the launch group and the rest of the admission group have no liveness
property and assume no fairness: they are functions of a frame, or commands that a
person may or may not start.

### Disagreements found

* `ppe_unknown_hold`: the help of `--unknown-after-frames` says that so many
  unknown frames clear the state. The streak also requires an unchanged source,
  so unknown frames that alternate between conflicting and missing observations
  hold a decision, for instance an alarm, without limit.
* `forklift_occupancy`: the comment in `process_frame` announces one occupant
  per vehicle across the active state. Only a person who becomes active clears
  the others; an operator whose match moves to another vehicle joins the
  operator that hysteresis keeps there.
* `roi_single`: the docstring calls the queue single-concurrency. A renderer runs
  in a session of its own; if the service is killed outside a container, it runs
  on, the next start marks only its job file, and the next job spawns a second
  renderer. In a container the renderer ends with the service.
* `selection_dump`: the docstring demands a complete tracker dump before an inference
  stage is receipted. The recovery of a dump looks at the names of its files only;
  one whose last file was never written out is converted and receipted, and so is one
  that two containers wrote: the next worker empties the directory while the container
  that was left behind goes on, and finds its last frames there.
* `selection_clip`: the validator demands an end after the start. The save clamps the
  end to the duration afterwards and does not compare again.

## Proofs

TLAPS proves, for every value of the constants that the named assumptions of the
modules allow (positive thresholds; ids that are naturals; a cap above the
thresholds):

* `PersonPpeFusion_proofs`: `TypeCorrect`, `FreshIds`, `MissesSparePresent`
  (action property) and `FusionImplementsLedger` (refinement of the abstract
  ledger). The inductive invariant adds `GraceInForce` to the type invariant and
  `IdsBelowNext`: a present decision in its grace has used less than the whole
  grace. Without it a present channel with a used-up grace would be a
  counterexample to induction: the next miss would count as inferred absence.
  `GraceInForce` holds because the miss that completes the grace makes the
  decision unknown in the same update. `FrameCases` reduces a frame to `FrameOf`,
  the facts about it that all later proofs use. `DecisionsMatchRuns` proves
  `DecisionMatchesRun` over the specification with the recorded history. The decision
  alone is not inductive; `HistoryInvariance` states the whole channel (decision,
  evidence, source, streak) as a function of the current run of equal observations
  and of the decision that run found (`ChannelOfRun`), grace, inferred absence and the
  saturated streak included. `HistoryObserves` is that recording adds no behaviour:
  the history specification implies the fusion's.
* `StreamStages_proofs`, about EffectiveAlarms: `EffectiveIsRaw`,
  `EffectiveImplementsLedger` and `RawIsLedger`. The characterisation of the open alarms is inductive with the
  type invariant; it is what makes a raw end close an effective alarm.
* `PersonZoneRules_proofs`: `TypeCorrect`, `StageTruth`, `ZoneImplementsLedger`,
  `FenceImplementsLedger`, `BreachesAreClimbed`, `EndsAreSeen`. The type invariant
  with `StageTellsTheState` is inductive; for the last two it is extended by
  `Recorded`: the streaks of the engine never exceed what the record holds, and a
  qualified climb is always recorded. That needs `StageTellsTheState`, because
  the record restarts with an alarm and the engine's climb must have been reset
  behind it. `Lift` carries the facts about one person to the sets of a frame.
* `RoiRenderJobs_proofs`: `TypeCorrect`, `CompleteMeansRendered`,
  `NoUnwatchedRenderer`, `NoForgottenJob` and `ServiceImplementsLifecycle`, for any
  number of jobs, kills and I/O errors. The safety invariants are not inductive
  alone; `Inv` adds what each step leaves for the next: `Quiet` (shutdown empties
  the executor before it waits, waits before it marks, and marks the whole
  session), `Unsubmitted` (a file before its submission follows its request),
  `Queueing` (a job is in the executor once and not at the worker), `Working` (the
  file follows the worker). The refinement uses them to show which status every
  update replaces.

* `StreamStages_proofs`, about ForkliftDriver: `DriversTypeCorrect`, `NewOperatorAlone`, `DriversImplementLedger`,
  `TermsHaveReasons` and, of the last two together, `TermsAreKept`, for any number of
  people and vehicles and any matching. A frame is many steps, so the inductive
  invariant says what holds between two visits: `Tables` (the matching is one to one
  and a visited person is not visited again), `Accounts` (the log holds exactly the
  difference between the operators published last and the operators now), `StartsSettled`
  (whoever was started in this frame was visited, is in the vehicle it is matched to
  and is alone there) and `EndsExplained` (every logged end has its reason already). `StartsSettled`
  is kept by later visits because they are matched to other vehicles; it fails for
  operators of earlier frames, which is what `forklift_occupancy` shows.
* `StreamStages_proofs`, about the other stages and the group: `StreamTracksAreSound`,
  `IdentitiesAreKept`, `StagesRunAlone` and `StreamEpisodes`.
  * *Fallback.* `GreedyFacts` is what the greedy loop gives for any set of pairs: no raw
    box and no track is used twice, and a pair that is left out has a raw box or a track
    in common with one that is taken. The latter is why a raw box is never linked to a
    vehicle of its own frame: had they overlapped, one of them would be taken
    (`LinkedFacts`). `NewIdFacts` says that the search for new ids ends, above the last
    id and outside the living ones.
  * *Fusion.* `EngineGrows` and `EngineMoves` follow the watermark of a source through
    the frames of a batch of any length: it only grows, and where it moved it is that of
    an ok frame. `LinksHold` is the soundness of the links, a fact about every scene.
  * *Group.* A behaviour of the group is a behaviour of every stage (`StagesRunAlone`), so
    the theorems of the stages are theorems of the group.

  TLAPS cannot instantiate the induction theorems of its library, which take an operator.
  Those about least elements take sets: `LeastNatural` and `LeastSubset`, derived from
  `WFMin`, let these proofs and those of the smoke look at a least counterexample instead.
* `WebServices_proofs`: the services together, one inductive invariant each, for any
  number of threads, clients, requests, faults and kills. `SettingsAreSafe` rests on
  `Tracking` (who holds the manager's lock knows the process) and `CopiesFit` (what a
  handler read and checked still fits when it is saved). `ReviewsAreSafe` rests on
  `RowsHeld` (whoever exports holds no fewer events than the files, and all of them
  unless another put waits for the lock) and `ExportPending` (an event that the files
  lack is missed or on its way): the snapshot is taken under the lock. `QaIsSafe`
  rests on `AuditInOrder`, which the replay before the commit keeps although the clock
  is read before it and may go back. `SavedSelectionsAreSafe` rests on `Saves` and
  `LatestPending`, what the four writes of a save have put on disk so far.
  `WrittenPlansAreSound` rests on `ValidPolygonsAreSimple`: two segments with a point in
  common satisfy one of the tests of `SegmentsIntersect` (`MeetingVectors`: the weights
  of the point cancel the orientations, which then have opposite signs or vanish), and
  an edge that turns back on the one before it (`MeetingNeighbours`) is touched by the
  edge before or behind, or is a triangle without area; the numbers are any integers, so
  that the grid of the run is no bound. `RenderJobsAreSafe` and `WebTypesAreCorrect`
  carry the rest to the group, `WebStepsAreFinal` is the action property: exports go
  forward, a complete QA stays, and a plan keeps its catalog.
* `GpuAdmission_proofs`: `GuardingIsSafe`, `AdmissionIsEarned`, `QualificationSound`,
  `SmokesAreSound` and `ImagesAreQualified`, for any limits of the monitor, any clock,
  any number of sessions, receipts, nonces, processes and CAVIAR runs, and any devices,
  samples, tolerance and detections of a smoke. For the guard, `Stopping` says
  that a run whose container is taken away has a reason to fail already and that its
  client is gone before the last removal, `Clean` that
  what the failure reasons did not find stays absent while the receipt is written,
  `Reporting` that status, receipt and report follow in this order. For the re-entry
  evidence, `Bundle` says that every reading after the stamp leaves a trace at or after
  it. For the qualification the chain is `Builds` (no image is older than its
  manifest says, and none is newer than the live files),
  `Receipts`, `Runs` (a contract's raw directory is made once, so it runs once) and
  `Processes`; the revision of the live files only grows, without which equal
  fingerprints would not say that nothing happened in between. For CAVIAR, `RootIsNew`
  and `Waited` say that the root of a run that did not end belongs to its container
  alone, and `EditsTraced` that a restored video was edited twice. For the smoke,
  `SamplesAreKept` says that the first error ends the sampling and is pending, counted
  or terminal. `ParityMatches` says that every matched detection takes one that is left
  and nothing comes back, and `SameDetectionsMatch` that two runs with the same
  detections pass, since every place keeps as many CPU detections to come as there are
  CUDA detections left.
* `LaunchRuns_proofs`: `PublicationsAreSafe`, `NothingGetsReplaced` (action property),
  `LaunchesAreSafe`, `MatrixRunsAreSafe` and `PagesAreHonest`, for any number of
  builders, planners, runners, cells, rows, campaigns, reports, edits and kills.
  * `RuntimeInv`: `Built` says what a process has established at each of its steps,
    `Bound` what is published, touched or not.
  * `PlanInv`: what a replay that nobody disturbed has seen is still so (`StillSo`),
    and unless two planners wrote at once a file goes only behind a plan that names a
    blocker (`WriterOK`).
  * `MatrixInv`: the lock has one holder and only the holder works on cells
    (`LockHeld`), the directory of its cell holds the files of its attempt alone
    (`CellOK`), the steady rows lie behind every cold one (`WindowOK`), and every
    container that somebody still means to stop is the holder's.
  * `CardsInv`: a file that passes the second look was what its pin says when it was
    opened (`ReadAsThere`), because a time of the open file cannot be that of a change
    to come.
  * `StatusInv`: the heart is `Honest`. A receipt that is being verified was true at
    some moment of the request (`together`), or the request will still meet a file that
    makes it wrong (`Found`): an input that is still to be hashed, or an output that
    is in the cache with another content. That survives every step of the writers
    because a pinned file that differs never comes back (`PinsLast`: runs, revisions
    and report numbers only grow), and every step of the request because only a file
    that agrees is dropped from what it waits for. When the last output agrees nothing
    can still be found, so the receipt was true.
* `BatchRuns_proofs`: `BatchTypesAreCorrect`, `SelectionsAreSafe`, `PpeRunsAreSafe` and
  `BatchStepsAreFinal` (action property), for any number of workers, plans, jobs,
  frames, profiles, videos, kills, power losses and failures.
  * `SelectionInv`: `WorkerOK` says what a worker that is not off knows: it has the
    lock, the recorded plan is its own, and its step tells how far the files of its job
    are. `JobOK` says of the files, whoever wrote them, that everything behind the
    inference shows the take of its receipt. A killed worker is off at once and its
    renderer goes on, so `JobOK` holds without a worker to speak for the files.
    `TakeOK` is why the takes are bounded: every further container of a job costs a
    kill or a failure. It needs to know whether one was started since (`Started`).
  * `PpeInv`: `FileOK` says what a file tells of others (a manifest pins its rows,
    evidence is derived from rows with a manifest, a delivery pins complete files of
    one run), `RootOK` that a complete root has the rows of one run for every profile,
    `RunnerOK` what the runner made in this run and from what, `ProcessesOK` that what
    still writes was left by a runner. The argument turns on what a step may still
    replace (`Loose`): the rows of a root that is not complete, rows without a
    manifest, a video that no delivery pins. What is not loose stays (`FilesKept`), and
    nothing a delivery pins is loose (`PinnedIsFirm`).

Each group theorem is proved from the lemmas of its components: a step of the group is
a step of a component or leaves its variables alone (`StepsOfParts`).

The assumptions are the named `ASSUME`s of the modules; TLC evaluates them in every run.
Besides bounds that are naturals they say that a mark is not a value: `NoPlanner` and
`NoRunner` are no process, and no file contains what stands for a missing or an unread
one (`StatusMarks`). A theorem that is listed with a property proves the formula that a
run checks, and for the groups over the specification that the run checks. Every
invariant that a passing run checks is stated by a theorem.

Only model-checked, and why:

* Liveness (`JobsEnd`, `WebLocksAreReleased`, `BatchEnds`, `GuardStops`), which is out of
  TLAPS's reach.

## Observations beside the properties

What was met while modelling and is not a finding of a run:

* *Forklift and zones.* A person visited early in a frame and then displaced is
  still published as suppressed in that frame (`forklift_driver_rules.py:617`,
  docstring 11-13). Suppression ends an active zone alarm in its first frame
  instead of advancing the exit debounce (`person_zone_rules.py:1699`, comment
  1646-1648).
* *Planners.* They accept ROI names up to 40 characters and ids of their own regular
  expression, the service saves up to 80.
* *Pipeline.* `status` reads the process twice without the lock.
* *Runtime.* The receipt of r3 claims `canonical_path_reopened` and
  `post_rename_inode_verified` before the rename (`fusion_runtime_r3.py:388-391`),
  and `full_stack.py:788-817` relies on the fields. A write that fails before the
  stage's identity is taken leaves the stage behind. An artifact that is changed
  and changed back between two reads is not noticed.
* *Matrix.* The lock is per GPU and not per output root. A killed runner leaves its
  container and no preflight looks for it; where docker cannot remove a container
  the campaign goes on. `--generate-only` and blocked runs write shared files with
  one fixed temporary name and without the lock. What `run_one` does not catch ends
  the campaign through its summary (`RunRaises`); a summary that cannot be written is
  not modelled, and the statuses for one are read in one step.
* *Guard.* `run_guarded_docker` does not take the GPU's advisory lock that its
  docstring speaks of; two artifact roots can use one GPU. The limit of the wait for the
  container is looked at between two `docker inspect`, which have none of their own
  (`gpu_guarded_process.py:150`). A container that the daemon creates after the last
  removal stays behind, created and not started; the run has failed by then.
* *Page.* After a v2 commit rewrites the objective and product reports the v1 bundle
  shows `output_mismatch` and the campaign report is no longer finalized.
  `index.html:247` speaks of all six output pins, the v2 receipt finalizes with its
  own four. `_gpu_reentry` shows "endurance pending" even with erroneous v1
  artifacts; `_scene_benchmark` counts completed runs without their lineage; the
  acceptance of a heartbeat compares the floor's fingerprint only.
* *Qualification.* The bootstrap pins its inputs after the build. A label mismatch in
  pass 2 leaves the tag on an image without a receipt. The smoke's evidence names
  the re-entry bundle by path, so collecting it again invalidates the evidence and
  the receipts on it. Build, smoke and use must lie within 24 hours of pass 1. The
  message of the idle gate says 15 minutes where the constant is four hours; a
  bundle from before a reboot is accepted within that time. A claim is consumed by
  failures after it. Receipts are exclusive but not written atomically.
* *CAVIAR.* `--force`, also with `--dry-run`, removes a completed run before the
  pins are compared; a failed preflight leaves a root that only `--force` can use.
  Labels and ground truth are read again after the postflight pins. Any guard
  error is recorded as a safety abort. Where ffprobe has no frame count a
  truncated dump is not noticed. No lock covers a run root.

## Not modelled

* Geometry (overlap, zones, poses, distances of detections) is reduced to its
  outcome; drawing, encoding, command lines, configuration text, hashes and
  formatting are left out.
* The converters and summaries read files and keep nothing.
* The sections of `admin/validation.py` that compare one file with literals pinned in
  the source, and most of its checks of single fields: nothing interleaves there.
* The static facts that the in-container probe reports (ELF, PTX, symbols, labels)
  are part of the identity of an image. DsQualification leaves out the base
  reference, `docker rmi`, a re-issued authorization and build thermals.
* Programs that are not in `src/`: the containers' contents, the renderer's internals,
  the endurance supervisor and finalizers, the batch driver of CAVIAR. They appear
  as external actions, as far as the code in `src/` depends on what they do.
* Edits that are undone again between two looks (ABA), except where a property names
  them (publications, CAVIAR's inputs); two live runs of one CAVIAR root, two PPE
  runners at once: excluded by the bounds or by the operator's procedure, and stated
  above.
* Faults that are in the models and that no property can hold against the code: an id that
  the tracker supplies after the allocator gave it away, the jobs that a failed shutdown
  leaves to the next start, an update of the settings that a concurrent request undoes, and
  reviews that cannot be read after the asset index was packaged again. The hazards in
  `PROJECT.json` say for each of them what the nearest property covers instead.
