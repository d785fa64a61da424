------------------------- MODULE RuntimePublication -------------------------
(***************************************************************************)
(* The builders of deepstream/: parallel_runtime.py, fusion_runtime.py and *)
(* fusion_runtime_r2.py build in a container, fusion_runtime_r3.py         *)
(* publishes the files of r2 once more, and each publishes one directory   *)
(* once.  Processes build and inspect at the same time; they are killed,   *)
(* the builders and the pinned inputs are edited below them, and a         *)
(* published directory is touched by a stranger.                           *)
(*                                                                         *)
(* A file is an artifact, its digest the artifact itself.  A pinned input  *)
(* is as it was frozen or it has drifted.                                  *)
(***************************************************************************)
EXTENDS Naturals, FiniteSets

CONSTANTS
  Builder,            \* processes
  MaxBuilds,          \* bound: commands that are started
  MaxChanges,         \* bound: edits, drifts and touches of strangers
  MaxBuildKills       \* bound: processes killed, cleanups that fail

ASSUME RuntimeAssumption == MaxBuilds \in Nat /\ MaxChanges \in Nat /\ MaxBuildKills \in Nat

VARIABLES
  build,         \* [Builder -> what the process is doing]
  revision,      \* [Runtime -> the revision of the builder's own source]
  inputs,        \* the pinned things that have drifted
  published,     \* [Runtime -> the directory at the destination]
  leftover,      \* the runtimes whose stage directory nobody removed
  spent          \* the bounds: started, changes, kills (with the cleanups that fail)

runtimeVars == <<build, revision, inputs, published, leftover, spent>>

Runtime == {"parallel", "fusion", "fusion-r2", "fusion-r3"}

\* What the plans pin: themselves, the upstream checkout, the image, the local inputs.
Pinned == {"parallel plan", "fusion plan", "r2 overlay", "r3 plan", "source", "image", "local"}

\* What a container may leave behind: "sound" is the build that the plan of r3 pins,
\* "rebuilt" another one as good, "failed" lacks a success evidence (exit status, mode,
\* six tests, frozen configuration), "unresolved" is not what the probes accept, and
\* "legacy" still registers the probe that r2 removes.
Artifact == {"sound", "rebuilt", "failed", "unresolved", "legacy"}

NoPublication == [inode |-> 0]
NoBuild == [pc |-> "idle", runtime |-> "none", builder |-> 0, inode |-> 0,
            binary |-> "none", file |-> "none", probed |-> 0]

RuntimeInit ==
  /\ build = [b \in Builder |-> NoBuild]
  /\ revision = [r \in Runtime |-> 0]
  /\ inputs = {}
  /\ published = [r \in Runtime |-> NoPublication]
  /\ leftover = {}
  /\ spent = [started |-> 0, changes |-> 0, kills |-> 0]

-----------------------------------------------------------------------------
(* What is verified before anything is built.  A digest of the whole plan  *)
(* is compared before its sections, so a plan that loads is the frozen one *)

Frozen(thing) == thing \notin inputs

PlanLoads == Frozen("parallel plan")
FusionPlanLoads == Frozen("fusion plan")
OverlayLoads == Frozen("r2 overlay")
R3PlanLoads == Frozen("r3 plan")

\* _materialize: the plan of r1 with two inputs replaced.
Materialized == OverlayLoads /\ FusionPlanLoads

SourceVerifies == Frozen("source")
ImageVerifies == Frozen("image")
LocalInputsVerify == Frozen("local")

\* _upstream of the fusion builders.
UpstreamVerifies == PlanLoads /\ SourceVerifies /\ ImageVerifies

Verifies(r) ==
  CASE r = "parallel" -> UpstreamVerifies
    [] r = "fusion" -> FusionPlanLoads /\ LocalInputsVerify /\ UpstreamVerifies
    [] r = "fusion-r2" -> Materialized /\ LocalInputsVerify /\ UpstreamVerifies

\* _static_source_evidence: r2 reads the patched application.
StaticEvidence(a) == a # "legacy"

\* The exit status, the executable bit; the six tests and the frozen configuration.
BuildSucceeds(r, a) ==
  /\ a # "failed"
  /\ r = "fusion-r2" => StaticEvidence(a)

\* The ELF class, the needed libraries and the tokens of the parallel application.
ProbesPass(a) == a # "unresolved"

\* The same of application and plugin, with the exported C ABI.
FusionProbesPass(a) == a # "unresolved"

\* What a builder must never publish.
Rejected(r) ==
  {a \in Artifact : a \in {"failed", "unresolved"} \/ (r \in {"fusion-r2", "fusion-r3"} /\ a = "legacy")}

-----------------------------------------------------------------------------
(* What an inspection binds                                                *)

\* provenance, capability and the current builder.
Binds(binary, papers, builder) == papers.builder = builder /\ papers.artifact = binary

\* inspect_publication of r2, as r3 calls it, and the files that the plan of r3 pins.
SourceFiles ==
  LET source == published["fusion-r2"] IN
  /\ Materialized
  /\ source # NoPublication
  /\ Binds(source.binary, source.papers, revision["fusion-r2"])
  /\ source.binary = "sound"

PlansLoad(r) ==
  CASE r = "parallel" -> PlanLoads
    [] r = "fusion" -> FusionPlanLoads
    [] r = "fusion-r2" -> Materialized
    [] r = "fusion-r3" -> R3PlanLoads /\ SourceFiles

\* The receipt of r3 names the inode of the directory it was staged in.
InodeBound(r, publication) == r = "fusion-r3" => publication.receipt = publication.inode

-----------------------------------------------------------------------------
At(b, pcs) == build[b].pc \in pcs
Goto(b, pc) == build' = [build EXCEPT ![b].pc = pc]
Fail(b) == build' = [build EXCEPT ![b] = NoBuild]

\* A command starts with a snapshot of its own source.
StartBuild(b, r) ==
  /\ At(b, {"idle"})
  /\ spent.started < MaxBuilds
  /\ spent' = [spent EXCEPT !.started = @ + 1]
  /\ build' = [build EXCEPT ![b] =
       [@ EXCEPT !.pc = "started", !.runtime = r, !.builder = revision[r], !.inode = spent.started + 1]]
  /\ UNCHANGED <<revision, inputs, published, leftover>>

\* The plan, the inputs and the image; the inputs are read into memory.
VerifyInputs(b) ==
  /\ At(b, {"started"}) /\ build[b].runtime # "fusion-r3"
  /\ IF Verifies(build[b].runtime) THEN Goto(b, "verified") ELSE Fail(b)
  /\ UNCHANGED <<revision, inputs, published, leftover, spent>>

\* Export, docker run and the first read of what it wrote.
Compile(b) ==
  /\ At(b, {"verified"})
  /\ \E a \in Artifact :
       IF BuildSucceeds(build[b].runtime, a)
       THEN build' = [build EXCEPT ![b] = [@ EXCEPT !.pc = "compiled", !.binary = a, !.file = a]]
       ELSE Fail(b)
  /\ UNCHANGED <<revision, inputs, published, leftover, spent>>

\* The probes look at the file, not at the bytes that were read before.
Probe(b) ==
  LET r == build[b].runtime
      file == build[b].file
  IN
  /\ At(b, {"compiled"})
  /\ IF IF r = "parallel" THEN ProbesPass(file) ELSE FusionProbesPass(file)
     THEN build' = [build EXCEPT ![b] = [@ EXCEPT !.pc = "probed", !.probed = revision[r]]]
     ELSE Fail(b)
  /\ UNCHANGED <<revision, inputs, published, leftover, spent>>

\* Mutant: the artifact is read once.
NoReread(b) ==
  /\ At(b, {"probed"})
  /\ Goto(b, "built")
  /\ UNCHANGED <<revision, inputs, published, leftover, spent>>

Reread(b) ==
  /\ At(b, {"probed"})
  /\ IF build[b].file = build[b].binary THEN Goto(b, "built") ELSE Fail(b)
  /\ UNCHANGED <<revision, inputs, published, leftover, spent>>

\* publish_runtime of r3 takes the files of r2 instead of building.
ReadSource(b) ==
  /\ At(b, {"started"}) /\ build[b].runtime = "fusion-r3"
  /\ IF R3PlanLoads /\ SourceFiles
     THEN build' = [build EXCEPT ![b] =
            [@ EXCEPT !.pc = "built", !.binary = "sound", !.probed = revision["fusion-r3"]]]
     ELSE Fail(b)
  /\ UNCHANGED <<revision, inputs, published, leftover, spent>>

\* Mutant: the builder is not compared with its snapshot.
NoCheckBuilder(b) ==
  /\ At(b, {"built"})
  /\ Goto(b, "checked")
  /\ UNCHANGED <<revision, inputs, published, leftover, spent>>

CheckBuilder(b) ==
  /\ At(b, {"built"})
  /\ IF revision[build[b].runtime] = build[b].builder THEN Goto(b, "checked") ELSE Fail(b)
  /\ UNCHANGED <<revision, inputs, published, leftover, spent>>

-----------------------------------------------------------------------------
(* _publish_directory, and _publish of r1, r2 and r3                       *)

\* mkdtemp, the exclusive writes, the modes and fsync.
StageFiles(b) ==
  /\ At(b, {"checked"})
  /\ Goto(b, "staged")
  /\ UNCHANGED <<revision, inputs, published, leftover, spent>>

\* The stage is removed.  A cleanup says nothing when it fails, and leaves it.
RemoveStage(b) ==
  \/ UNCHANGED <<leftover, spent>>
  \/ /\ spent.kills < MaxBuildKills
     /\ spent' = [spent EXCEPT !.kills = @ + 1]
     /\ leftover' = leftover \cup {build[b].runtime}

\* A write fails.  r3 notes the inode of its stage only after the files, before the receipt,
\* and leaves a stage that it cannot recognise as its own.
StageFails(b) ==
  /\ At(b, {"checked"})
  /\ Fail(b)
  /\ \/ RemoveStage(b)
     \/ /\ build[b].runtime = "fusion-r3"
        /\ leftover' = leftover \cup {"fusion-r3"}
        /\ UNCHANGED spent
  /\ UNCHANGED <<revision, inputs, published>>

\* The stage: the files, and for r3 the receipt with the inode.
Publication(b) ==
  [inode |-> build[b].inode, receipt |-> build[b].inode, binary |-> build[b].binary,
   probed |-> build[b].probed, touched |-> FALSE,
   papers |-> [builder |-> build[b].builder, artifact |-> build[b].binary]]

\* Mutant: rename(2) onto the destination.
RenameReplaces(b) ==
  LET r == build[b].runtime IN
  /\ At(b, {"staged"})
  /\ published' = [published EXCEPT ![r] = Publication(b)]
  /\ IF r = "fusion-r3" THEN Goto(b, "renamed") ELSE Fail(b)
  /\ UNCHANGED <<revision, inputs, leftover, spent>>

\* renameat2(RENAME_NOREPLACE): an existing destination removes the stage and raises.
Rename(b) ==
  LET r == build[b].runtime IN
  /\ At(b, {"staged"})
  /\ IF published[r] = NoPublication
     THEN /\ published' = [published EXCEPT ![r] = Publication(b)]
          /\ IF r = "fusion-r3" THEN Goto(b, "renamed") ELSE Fail(b)
          /\ UNCHANGED <<leftover, spent>>
     ELSE Fail(b) /\ RemoveStage(b) /\ UNCHANGED published
  /\ UNCHANGED <<revision, inputs>>

\* _replay_directory through the descriptor of the destination.
Replays(b) ==
  LET now == published["fusion-r3"] IN
  now.inode = build[b].inode /\ now.binary = build[b].binary

\* The destination opened below the parent that was held.  What fails here stays published.
Replay(b) ==
  /\ At(b, {"renamed"})
  /\ IF Replays(b) THEN Goto(b, "replayed") ELSE Fail(b)
  /\ UNCHANGED <<revision, inputs, published, leftover, spent>>

\* The canonical path opened again from the project root.
Canonical(b) ==
  /\ At(b, {"replayed"})
  /\ Fail(b)
  /\ UNCHANGED <<revision, inputs, published, leftover, spent>>

-----------------------------------------------------------------------------
(* inspect_publication                                                     *)

\* The plans, the directory and the first file; r3 reads its builder here, inspects r2
\* first and keeps the directory open.
InspectOpen(b, r) ==
  /\ At(b, {"idle"})
  /\ PlansLoad(r)
  /\ published[r] # NoPublication
  /\ InodeBound(r, published[r])
  /\ build' = [build EXCEPT ![b] =
       [@ EXCEPT !.pc = "inspecting", !.runtime = r, !.builder = revision[r],
                 !.inode = published[r].inode, !.binary = published[r].binary]]
  /\ UNCHANGED <<revision, inputs, published, leftover, spent>>

\* Mutant: the provenance is not compared with the binary.
InspectLoosely(b) ==
  /\ At(b, {"inspecting"})
  /\ Goto(b, "accepted")
  /\ UNCHANGED <<revision, inputs, published, leftover, spent>>

\* The papers, and for all but r3 the builder, are read after the binary.
InspectBind(b) ==
  LET r == build[b].runtime
      builder == IF r = "fusion-r3" THEN build[b].builder ELSE revision[r]
  IN
  /\ At(b, {"inspecting"})
  /\ IF /\ Binds(build[b].binary, published[r].papers, builder)
        /\ r = "fusion-r3" => published[r].inode = build[b].inode /\ build[b].binary = "sound"
     THEN Goto(b, "accepted")
     ELSE Fail(b)
  /\ UNCHANGED <<revision, inputs, published, leftover, spent>>

InspectReturns(b) ==
  /\ At(b, {"accepted"})
  /\ Fail(b)
  /\ UNCHANGED <<revision, inputs, published, leftover, spent>>

-----------------------------------------------------------------------------
(* Kills and strangers                                                     *)

KillBuild(b) ==
  /\ ~At(b, {"idle"})
  /\ spent.kills < MaxBuildKills
  /\ spent' = [spent EXCEPT !.kills = @ + 1]
  /\ leftover' = IF At(b, {"staged"}) THEN leftover \cup {build[b].runtime} ELSE leftover
  /\ Fail(b)
  /\ UNCHANGED <<revision, inputs, published>>

Changes == spent.changes < MaxChanges /\ spent' = [spent EXCEPT !.changes = @ + 1]

EditBuilder(r) ==
  /\ Changes
  /\ revision' = [revision EXCEPT ![r] = @ + 1]
  /\ UNCHANGED <<build, inputs, published, leftover>>

Drift(thing) ==
  /\ Changes
  /\ inputs' = inputs \cup {thing}
  /\ UNCHANGED <<build, revision, published, leftover>>

\* The container's output changes while it is probed.
OutputChanges(b) ==
  /\ At(b, {"compiled", "probed"})
  /\ Changes
  /\ \E a \in {"rebuilt", "unresolved"} \ {build[b].file} : build' = [build EXCEPT ![b].file = a]
  /\ UNCHANGED <<revision, inputs, published, leftover>>

\* A published binary is replaced, or the directory is restored from a copy.
Touch(r) ==
  /\ published[r] # NoPublication
  /\ Changes
  /\ \/ \E a \in {"sound", "rebuilt"} : published' = [published EXCEPT ![r].binary = a, ![r].touched = TRUE]
     \/ published' =
          [published EXCEPT ![r].inode = MaxBuilds + 1, ![r].touched = TRUE]
  /\ UNCHANGED <<build, revision, inputs, leftover>>

BuilderStep(b) ==
  \/ \E r \in Runtime : StartBuild(b, r) \/ InspectOpen(b, r)
  \/ VerifyInputs(b) \/ Compile(b) \/ Probe(b) \/ Reread(b) \/ ReadSource(b) \/ CheckBuilder(b)
  \/ StageFiles(b) \/ StageFails(b) \/ Rename(b) \/ Replay(b) \/ Canonical(b)
  \/ InspectBind(b) \/ InspectReturns(b)

Stranger ==
  \/ \E r \in Runtime : EditBuilder(r) \/ Touch(r)
  \/ \E thing \in Pinned : Drift(thing)
  \/ \E b \in Builder : OutputChanges(b) \/ KillBuild(b)

RuntimeNext == Stranger \/ \E b \in Builder : BuilderStep(b)

RuntimeSpec == RuntimeInit /\ [][RuntimeNext]_runtimeVars

-----------------------------------------------------------------------------
(* Properties                                                              *)

\* Until a stranger touches the directory, what is published has passed the probes of its
\* builder, and the builder it names is the one that was there when they passed.  Only a
\* file that is another one while it is probed and then the same again escapes the probes.
PublishedIsProbed ==
  \A r \in Runtime :
    LET now == published[r] IN
    now # NoPublication /\ ~now.touched =>
      /\ now.binary \in Rejected(r) => now.binary = "unresolved" /\ spent.changes > 1
      /\ now.papers.builder = now.probed

\* An inspection that accepts has read what was published, whatever was touched while
\* it read.
AcceptedIsPublished ==
  \A b \in Builder :
    At(b, {"accepted"}) =>
      LET now == published[build[b].runtime] IN
      build[b].binary = now.papers.artifact /\ now.papers.builder = now.probed

\* Only a kill, a cleanup that failed, or a failed write of r3 leaves a stage directory.
StagesAreRemoved ==
  leftover # {} => spent.kills > 0 \/ leftover = {"fusion-r3"}

\* A destination is published once: no second builder and no retry replaces it.
PublishedOnce ==
  [][\A r \in Runtime :
       published[r] # NoPublication =>
         published'[r] = published[r] \/ published'[r].touched]_runtimeVars
=============================================================================
