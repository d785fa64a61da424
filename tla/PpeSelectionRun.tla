--------------------------- MODULE PpeSelectionRun ---------------------------
(***************************************************************************)
(* execute_plan of video_selector/process_ppe_selection.py with the two    *)
(* DeepStream runners it calls (validation/run_ppe_deepstream.py and       *)
(* run_person_deepstream_direct.py) and the writers of content/: a runner  *)
(* works through jobs and profiles, every derived file is written once and *)
(* refused if it is there already, and only the delivery manifest lets a   *)
(* later run skip a job.                                                   *)
(*                                                                         *)
(* The file system is a function from the paths that exist to the run that *)
(* wrote the file and the versions it was made from.  An action is a       *)
(* stretch of the program between two writes.  One runner at a time: the   *)
(* operator starts them by hand and nothing in the code excludes two.      *)
(***************************************************************************)
EXTENDS Naturals, Sequences, Functions

CONSTANTS
  Slug,             \* profile selections, each a sequence of distinct profiles
  Variant,          \* other arguments of build_plan: video filter, gpu, threshold
  NoVariant,        \* no plan file
  Videos,           \* the PPE jobs of the selection are 1 .. Videos
  ForkliftVideos,   \* jobs whose alert policy suppresses forklift drivers
  MaxRuns,          \* bound: started runners
  MaxRunnerKills,   \* bound: killed runners
  MaxRunnerErrors   \* bound: stages that raise

ASSUME PpeSelectionAssumption ==
  /\ Slug \subseteq Seq(Nat \ {0}) \ {<<>>}
  /\ NoVariant \notin Variant
  /\ Videos \in Nat \ {0} /\ ForkliftVideos \subseteq 1 .. Videos
  /\ {MaxRuns, MaxRunnerKills, MaxRunnerErrors} \subseteq Nat

VARIABLES
  runner,           \* step, run number, arguments and position of the one process
  runs,             \* how many were started
  planFile,         \* per slug: the plan, which names neither gpu nor filter
  deepstream,       \* per slug and job: status in manifest.json of the run root
  file,             \* what the paths that exist hold
  partial,          \* files at their final path that are still being written
  busy,             \* names of running containers
  encoding,         \* videos that an ffmpeg process writes
  runnerKills, runnerErrors

ppeVars == <<runner, runs, planFile, deepstream, file, partial, busy, encoding,
             runnerKills, runnerErrors>>

-----------------------------------------------------------------------------
PpeVideos == 1 .. Videos

Profiles == UNION {Range(s) : s \in Slug}

Path(kind, slug, video, profile) ==
  [kind |-> kind, slug |-> slug, video |-> video, profile |-> profile]

Exists(path) == path \in DOMAIN file

Version(path) == <<path, file[path].by>>

Shared == <<>>

Asleep == [pc |-> "off", run |-> 0, slug |-> Shared, variant |-> NoVariant,
           video |-> 1, at |-> 1, force |-> FALSE, loaded |-> FALSE]

\* Paths of the profile that the runner is at.  The slug is part of the two run
\* roots, and of nothing else.
Here(kind) == Path(kind, runner.slug, runner.video, runner.slug[runner.at])
Common(kind) == Path(kind, Shared, runner.video, runner.slug[runner.at])
Engine == Path("engine", Shared, 0, runner.slug[runner.at])
Delivery == Path("delivery", runner.slug, runner.video, 0)
Root == <<runner.slug, runner.video>>

Forklift == runner.video \in ForkliftVideos

PpeSelectionInit ==
  /\ runner = Asleep
  /\ runs = 0
  /\ planFile = [s \in Slug |-> NoVariant]
  /\ deepstream = [root \in Slug \X PpeVideos |-> "none"]
  /\ file = <<>>
  /\ partial = {}
  /\ busy = {}
  /\ encoding = {}
  /\ runnerKills = 0
  /\ runnerErrors = 0

Moves(from, to) ==
  /\ runner.pc = from
  /\ runner' = [runner EXCEPT !.pc = to]

Writes(path, sources) ==
  file' = [x \in DOMAIN file \cup {path} |->
             IF x = path THEN [by |-> runner.run, of |-> {Version(y) : y \in sources}]
             ELSE file[x]]

Removes(paths) == file' = Restrict(file, DOMAIN file \ paths)

Stops == runner' = Asleep

Starts(step, s, variant, video, force) ==
  /\ runner.pc = "off"
  /\ runs < MaxRuns
  /\ runs' = runs + 1
  /\ runner' = [pc |-> step, run |-> runs + 1, slug |-> s, variant |-> variant,
                video |-> video, at |-> 1, force |-> force, loaded |-> FALSE]
  /\ UNCHANGED <<planFile, deepstream, file, partial, busy, encoding, runnerKills,
                 runnerErrors>>

quiet == <<runs, planFile, runnerKills, runnerErrors>>

-----------------------------------------------------------------------------
(* main, persist_plan and the loop over the jobs                           *)

StartRunner(s, v) == Starts("plan", s, v, 1, FALSE)

PersistPlan ==
  /\ Moves("plan", "job")
  /\ planFile[runner.slug] \in {NoVariant, runner.variant}
  /\ planFile' = [planFile EXCEPT ![runner.slug] = runner.variant]
  /\ UNCHANGED <<runs, deepstream, file, partial, busy, encoding, runnerKills,
                 runnerErrors>>

\* The path already contains a different plan.
RefuseDifferentPlan ==
  /\ runner.pc = "plan"
  /\ planFile[runner.slug] \notin {NoVariant, runner.variant}
  /\ Stops
  /\ UNCHANGED <<deepstream, file, partial, busy, encoding, quiet>>

NextVideo(from) ==
  /\ runner.pc = from
  /\ IF runner.video < Videos
       THEN runner' = [runner EXCEPT !.pc = "job", !.video = @ + 1, !.at = 1]
       ELSE Stops

SkipDelivered ==
  /\ Exists(Delivery)
  /\ NextVideo("job")
  /\ UNCHANGED <<deepstream, file, partial, busy, encoding, quiet>>

StartVideo ==
  /\ ~Exists(Delivery)
  /\ Moves("job", "deepstream")
  /\ UNCHANGED <<deepstream, file, partial, busy, encoding, quiet>>

-----------------------------------------------------------------------------
(* run_ppe_deepstream.execute_plan                                         *)

\* The operator repeats an incomplete run root with --force (handoff README).
ForceDeepStream(s, video) ==
  /\ deepstream[<<s, video>>] \in {"running", "failed"}
  /\ Starts("deepstream", s, planFile[s], video, TRUE)

ResumeDeepStream ==
  /\ Moves("deepstream", "profile")
  /\ deepstream[Root] = "complete"
  /\ UNCHANGED <<deepstream, file, partial, busy, encoding, quiet>>

\* An incomplete manifest exists and --force was not given.
RefuseDeepStream ==
  /\ runner.pc = "deepstream"
  /\ ~runner.force
  /\ deepstream[Root] \in {"running", "failed"}
  /\ Stops
  /\ UNCHANGED <<deepstream, file, partial, busy, encoding, quiet>>

\* The manifest says running before the first profile.
StartDeepStream ==
  /\ Moves("deepstream", "clear")
  /\ deepstream[Root] = "none" \/ runner.force
  /\ deepstream' = [deepstream EXCEPT ![Root] = "running"]
  /\ UNCHANGED <<file, partial, busy, encoding, quiet>>

\* _remove_known_outputs; the engine of the profile is built if there is none.
ClearProfile ==
  /\ Moves("clear", IF Exists(Engine) THEN "launch" ELSE "build")
  /\ Removes({Here("ppe")})
  /\ UNCHANGED <<deepstream, partial, busy, encoding, quiet>>

Runs(name, from, to) ==
  /\ Moves(from, to)
  /\ name \notin busy
  /\ busy' = busy \cup {name}

\* trtexec writes the engine at its final path.
BuildEngine ==
  /\ Runs(Engine, "build", "building")
  /\ Writes(Engine, {})
  /\ partial' = partial \cup {Engine}
  /\ UNCHANGED <<deepstream, encoding, quiet>>

EngineBuilt ==
  /\ Moves("building", "launch")
  /\ Engine \notin busy
  /\ UNCHANGED <<deepstream, file, partial, busy, encoding, quiet>>

\* One container name for every job and selection.
PpeContainer == Path("ppe", Shared, 0, runner.slug[runner.at])

\* The engine file is loaded as it is now; if that fails, another one is built.
LaunchPpe ==
  /\ runner.pc = "launch"
  /\ PpeContainer \notin busy
  /\ busy' = busy \cup {PpeContainer}
  /\ runner' = [runner EXCEPT !.pc = "detecting", !.loaded = Engine \notin partial]
  /\ UNCHANGED <<deepstream, file, partial, encoding, quiet>>

\* Mutant: the log is not searched for a rebuilt engine.
AnyEngine == Exists(Engine)

\* attest_engine_load: the engine was deserialized from the file.
Attested == runner.loaded

\* Mutant: the manifest is complete before the last profile.
LastButOne == runner.at + 1 < Len(runner.slug)

\* Mutant: one profile too many.
OneTooMany == runner.at <= Len(runner.slug)

MoreProfiles == runner.at < Len(runner.slug)

\* convert_kitti, the conversion report and the profile in the manifest.
ConvertPpe ==
  /\ runner.pc = "detecting"
  /\ PpeContainer \notin busy
  /\ Attested
  /\ Writes(Here("ppe"), {Engine})
  /\ IF MoreProfiles
       THEN /\ runner' = [runner EXCEPT !.pc = "clear", !.at = @ + 1]
            /\ UNCHANGED deepstream
       ELSE /\ deepstream' = [deepstream EXCEPT ![Root] = "complete"]
            /\ IF runner.force THEN Stops
               ELSE runner' = [runner EXCEPT !.pc = "profile", !.at = 1]
  /\ UNCHANGED <<partial, busy, encoding, quiet>>

-----------------------------------------------------------------------------
(* run_person_deepstream_direct.execute_plan, for people and for vehicles  *)

\* The annotated video of the profile must not exist.
StartProfile ==
  /\ Moves("profile", "person")
  /\ ~Exists(Common("video"))
  /\ UNCHANGED <<deepstream, file, partial, busy, encoding, quiet>>

After(kind) == IF kind = "vehicle" THEN "evidence"
               ELSE IF Forklift THEN "vehicle" ELSE "fused"

ManifestOf(kind) == IF kind = "person" THEN "person manifest" ELSE "vehicle manifest"
LaunchOf(kind) == IF kind = "person" THEN "person launch" ELSE "vehicle launch"
WaitOf(kind) == IF kind = "person" THEN "person wait" ELSE "vehicle wait"

Manifest(kind) == Here(ManifestOf(kind))

\* Mutant: predictions are enough to resume.
RowsSuffice(kind) == Exists(Here(kind))

\* _verify_resume_artifacts and _predictions_complete: the manifest pins the rows.
Verified(kind) == Exists(Manifest(kind))

ResumePerson(kind) ==
  /\ Moves(kind, After(kind))
  /\ Verified(kind)
  /\ UNCHANGED <<deepstream, file, partial, busy, encoding, quiet>>

\* The dumps are removed with the rows, whatever a container still writes there.
ClearPerson(kind) ==
  /\ Moves(kind, LaunchOf(kind))
  /\ ~Verified(kind)
  /\ Removes({Here(kind)})
  /\ UNCHANGED <<deepstream, partial, busy, encoding, quiet>>

LaunchPerson(kind) ==
  /\ Runs(Common(kind), LaunchOf(kind), WaitOf(kind))
  /\ UNCHANGED <<deepstream, file, partial, encoding, quiet>>

ConvertPerson(kind) ==
  /\ Moves(WaitOf(kind), ManifestOf(kind))
  /\ Common(kind) \notin busy
  /\ Writes(Here(kind), {})
  /\ UNCHANGED <<deepstream, partial, busy, encoding, quiet>>

WriteManifest(kind) ==
  /\ Moves(ManifestOf(kind), After(kind))
  /\ Writes(Manifest(kind), {Here(kind)})
  /\ UNCHANGED <<deepstream, partial, busy, encoding, quiet>>

PersonStep(kind) ==
  \/ ResumePerson(kind) \/ ClearPerson(kind) \/ LaunchPerson(kind)
  \/ ConvertPerson(kind) \/ WriteManifest(kind)

-----------------------------------------------------------------------------
(* The derived files of a profile                                          *)

Evidence == Here("evidence")

\* What the video shows.
RenderSource == IF Forklift THEN Common("effective") ELSE Common("fused")

Target(step) ==
  CASE step = "evidence" -> Evidence
    [] step = "fused" -> Common("fused")
    [] step = "effective" -> Common("effective")
    [] step = "video" -> Common("video")

Sources(step) ==
  CASE step = "evidence" -> {Here("vehicle")}
    [] step = "fused" -> {Here("ppe"), Here("person")}
    [] step = "effective" -> {Common("fused"), Evidence}
    [] step = "video" -> {RenderSource}

\* Mutant: an output that exists is replaced.
Overwrites(step, to) ==
  /\ Moves(step, to)
  /\ Writes(Target(step), Sources(step))
  /\ UNCHANGED <<deepstream, busy, quiet>>

Derive(step, to) ==
  /\ Moves(step, to)
  /\ ~Exists(Target(step))
  /\ Writes(Target(step), Sources(step))
  /\ UNCHANGED <<deepstream, busy, quiet>>

\* merge_raw_vehicle_detector_fallback
DeriveEvidence == Derive("evidence", "fused") /\ UNCHANGED <<partial, encoding>>

\* Mutant: an existing fused file is taken as it is.
ReusesFused ==
  /\ Moves("fused", IF Forklift THEN "effective" ELSE "video")
  /\ IF Exists(Common("fused")) THEN UNCHANGED file
     ELSE Writes(Common("fused"), Sources("fused"))
  /\ UNCHANGED <<deepstream, partial, busy, encoding, quiet>>

\* fuse_prediction_streams
DeriveFused ==
  /\ Derive("fused", IF Forklift THEN "effective" ELSE "video")
  /\ UNCHANGED <<partial, encoding>>

\* augment_person_ppe_with_tracked_vehicles
DeriveEffective == Derive("effective", "video") /\ UNCHANGED <<partial, encoding>>

\* render: ffmpeg writes the annotated video at its final path.
StartVideoFile ==
  /\ Derive("video", "encode")
  /\ partial' = partial \cup {Common("video")}
  /\ encoding' = encoding \cup {Common("video")}

\* Mutant: the runner does not wait for ffmpeg.
NotAwaited == Exists(Common("video"))

\* ffmpeg returned 0 and the probe shows a complete video.
Probed == Common("video") \notin partial

VideoProbed ==
  /\ runner.pc = "encode"
  /\ Probed
  /\ runner' = IF MoreProfiles
                 THEN [runner EXCEPT !.pc = "profile", !.at = @ + 1]
                 ELSE [runner EXCEPT !.pc = "deliver"]
  /\ UNCHANGED <<deepstream, file, partial, busy, encoding, quiet>>

\* The delivery manifest pins every file of every profile.
OwnKinds(video) ==
  {"ppe", "person", "person manifest"}
  \cup IF video \in ForkliftVideos THEN {"vehicle", "vehicle manifest", "evidence"} ELSE {}

JointKinds(video) ==
  {"fused", "video"} \cup IF video \in ForkliftVideos THEN {"effective"} ELSE {}

Products(s, video, p) ==
  {Path(kind, s, video, p) : kind \in OwnKinds(video)}
  \cup {Path(kind, Shared, video, p) : kind \in JointKinds(video)}

Delivered(s, video) == UNION {Products(s, video, p) : p \in Range(s)}

Deliver ==
  /\ NextVideo("deliver")
  /\ Delivered(runner.slug, runner.video) \subseteq DOMAIN file
  /\ Writes(Delivery, Delivered(runner.slug, runner.video))
  /\ UNCHANGED <<deepstream, partial, busy, encoding, quiet>>

-----------------------------------------------------------------------------
(* Failures                                                                *)

InDeepStream == {"clear", "build", "building", "launch", "detecting"}

\* except BaseException of run_ppe_deepstream.execute_plan.
FailDeepStream ==
  deepstream' = IF runner.pc \in InDeepStream
                THEN [deepstream EXCEPT ![Root] = "failed"] ELSE deepstream

\* The container that the runner waits for, if any.
Awaited ==
  CASE runner.pc = "building" -> {Engine}
    [] runner.pc = "detecting" -> {PpeContainer}
    [] runner.pc = "person wait" -> {Common("person")}
    [] runner.pc = "vehicle wait" -> {Common("vehicle")}
    [] OTHER -> {}

\* What must raise: a container name that is taken, an engine that was not loaded,
\* an output that exists.
Blocked ==
  \/ runner.pc = "build" /\ Engine \in busy
  \/ runner.pc = "launch" /\ PpeContainer \in busy
  \/ runner.pc = "detecting" /\ PpeContainer \notin busy /\ ~Attested
  \/ \E kind \in {"person", "vehicle"} :
       runner.pc = LaunchOf(kind) /\ Common(kind) \in busy
  \/ runner.pc = "profile" /\ Exists(Common("video"))
  \/ runner.pc \in {"evidence", "fused", "effective"} /\ Exists(Target(runner.pc))

RefuseBlocked ==
  /\ Blocked
  /\ FailDeepStream
  /\ Stops
  /\ UNCHANGED <<file, partial, busy, encoding, quiet>>

\* A command's exit code or a conversion.  The video of a failed ffmpeg stays, one
\* with a wrong probe is unlinked.
RunnerFails ==
  /\ runner.pc \notin {"off", "plan", "job", "deepstream", "profile", "deliver"}
  /\ runnerErrors < MaxRunnerErrors
  /\ runnerErrors' = runnerErrors + 1
  /\ FailDeepStream
  /\ Stops
  /\ busy' = busy \ Awaited
  /\ \/ /\ runner.pc = "encode"
        /\ Removes({Common("video")})
        /\ partial' = partial \ {Common("video")}
        /\ encoding' = encoding \ {Common("video")}
     \/ /\ encoding' = IF runner.pc = "encode" THEN encoding \ {Common("video")}
                       ELSE encoding
        /\ UNCHANGED <<file, partial>>
  /\ UNCHANGED <<runs, planFile, runnerKills>>

\* Containers and ffmpeg outlive the runner.
KillRunner ==
  /\ runner.pc # "off"
  /\ runnerKills < MaxRunnerKills
  /\ runnerKills' = runnerKills + 1
  /\ Stops
  /\ UNCHANGED <<runs, planFile, deepstream, file, partial, busy, encoding, runnerErrors>>

\* External: a container ends; trtexec has then written the engine.
ContainerEnds(name) ==
  /\ name \in busy
  /\ busy' = busy \ {name}
  /\ partial' = partial \ {name}
  /\ UNCHANGED <<runner, runs, planFile, deepstream, file, encoding, runnerKills,
                 runnerErrors>>

\* External: a container is removed and with it what it was writing.
ContainerDies(name) ==
  /\ name \in busy \ Awaited
  /\ busy' = busy \ {name}
  /\ UNCHANGED <<runner, runs, planFile, deepstream, file, partial, encoding, runnerKills,
                 runnerErrors>>

\* External: ffmpeg writes the video to its end, or is killed without its runner.
EncodingEnds(path) ==
  /\ path \in encoding
  /\ encoding' = encoding \ {path}
  /\ \/ partial' = partial \ {path}
     \/ runner.pc # "encode" /\ UNCHANGED partial
  /\ UNCHANGED <<runner, runs, planFile, deepstream, file, busy, runnerKills,
                 runnerErrors>>

-----------------------------------------------------------------------------
RunnerStep ==
  \/ PersistPlan \/ RefuseDifferentPlan \/ SkipDelivered \/ StartVideo
  \/ ResumeDeepStream \/ RefuseDeepStream \/ StartDeepStream \/ ClearProfile
  \/ BuildEngine \/ EngineBuilt \/ LaunchPpe \/ ConvertPpe
  \/ StartProfile \/ PersonStep("person") \/ PersonStep("vehicle")
  \/ DeriveEvidence \/ DeriveFused \/ DeriveEffective
  \/ StartVideoFile \/ VideoProbed \/ Deliver \/ RefuseBlocked

ProcessEnds ==
  \/ \E name \in busy : ContainerEnds(name)
  \/ \E path \in encoding : EncodingEnds(path)

PpeSelectionNext ==
  \/ \E s \in Slug, v \in Variant : StartRunner(s, v)
  \/ \E s \in Slug, video \in PpeVideos : ForceDeepStream(s, video)
  \/ RunnerStep \/ RunnerFails \/ KillRunner
  \/ ProcessEnds
  \/ \E name \in busy : ContainerDies(name)

PpeSelectionFairness == WF_ppeVars(RunnerStep) /\ WF_ppeVars(ProcessEnds)

PpeSelectionSpec ==
  PpeSelectionInit /\ [][PpeSelectionNext]_ppeVars /\ PpeSelectionFairness

-----------------------------------------------------------------------------
DerivedKinds == {"evidence", "fused", "effective", "video"}

Deliveries == {d \in DOMAIN file : d.kind = "delivery"}

PinnedPaths(d) == {version[1] : version \in file[d].of}

\* Type correctness, and what is partial or encoded exists.
PpeTypeOK ==
  /\ runner.run \in 0 .. runs /\ runs \in 0 .. MaxRuns
  /\ runner.slug \in Slug \cup {Shared} /\ runner.video \in PpeVideos
  /\ runner.pc = "off" \/ runner.at \in DOMAIN runner.slug
  /\ planFile \in [Slug -> Variant \cup {NoVariant}]
  /\ deepstream \in [Slug \X PpeVideos -> {"none", "running", "failed", "complete"}]
  /\ \A path \in DOMAIN file : file[path].by \in 1 .. runs
  /\ encoding \subseteq partial /\ partial \subseteq DOMAIN file
  /\ runnerKills \in 0 .. MaxRunnerKills /\ runnerErrors \in 0 .. MaxRunnerErrors

\* A complete terminal manifest speaks of predictions of every profile, made by one
\* run, however often the run root failed and was forced before.
CompleteIsConverted ==
  \A s \in Slug, video \in PpeVideos : deepstream[<<s, video>>] = "complete" =>
    \E run \in 1 .. runs : \A p \in Range(s) :
      LET rows == Path("ppe", s, video, p)
      IN  Exists(rows) /\ file[rows].by = run

\* No predictions come from an engine file that a killed or failed build left partial:
\* the file is there, so it is never rebuilt, and the attestation has to refuse it.
EnginesAreWhole ==
  \A path \in DOMAIN file :
    path.kind = "ppe" => Path("engine", Shared, 0, path.profile) \notin partial

\* What a delivery manifest pins is what the files hold now; each pinned file was made
\* from pinned files, and no pinned video was cut short.
DeliveredIsWhole ==
  \A d \in Deliveries :
    /\ \A version \in file[d].of :
         Exists(version[1]) /\ file[version[1]].by = version[2]
    /\ \A path \in PinnedPaths(d) : path.kind # "ppe" => file[path].of \subseteq file[d].of
    /\ PinnedPaths(d) \cap partial = {}

\* The derived files of a delivery were all written by the run that delivered them: a
\* second run, for the same or for other profiles, never mixes in what it finds.
DeliveredByOneRun ==
  \A d \in Deliveries : \A path \in PinnedPaths(d) :
    path.kind \in DerivedKinds => file[path].by = file[d].by

\* A derived file is only ever changed by the run that wrote it; what a failed run left
\* makes every later run refuse the profile.
WriteOnce ==
  [][\A path \in DOMAIN file :
       path.kind \in DerivedKinds /\ file[path].by # runner.run =>
         path \in DOMAIN file' /\ file'[path] = file[path]]_ppeVars

\* A started runner ends, with deliveries or because something was in its way.
RunnersEnd == runner.pc # "off" ~> runner.pc = "off"
=============================================================================
