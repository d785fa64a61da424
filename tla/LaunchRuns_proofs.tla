-------------------------- MODULE LaunchRuns_proofs --------------------------
(***************************************************************************)
(* Proofs about what is on disk before and after the GPU is used: for any  *)
(* number of builders, planners, runners, cells and rows, any number of    *)
(* builds, plans, starts and edits, and any number of processes killed.    *)
(***************************************************************************)
EXTENDS LaunchRuns, FiniteSetTheorems, TLAPS

-----------------------------------------------------------------------------
(* The publication of a runtime                                            *)

\* What runs: building, or inspecting.
Building == {"started", "verified", "compiled", "probed", "built", "checked", "staged", "renamed", "replayed"}
Inspecting == {"inspecting", "accepted"}
Builds == [pc : {"idle"} \cup Building \cup Inspecting, runtime : Runtime \cup {"none"}, builder : Nat,
           inode : Nat, binary : Artifact \cup {"none"}, file : Artifact \cup {"none"}, probed : Nat]
Publications == [inode : Nat, receipt : Nat, binary : Artifact, probed : Nat, touched : BOOLEAN,
                 papers : [builder : Nat, artifact : Artifact]]

RuntimeTyped ==
  /\ build \in [Builder -> Builds]
  /\ revision \in [Runtime -> Nat]
  /\ published \in [Runtime -> Publications \cup {NoPublication}]
  /\ spent \in [started : Nat, changes : Nat, kills : Nat]

\* A binary that no builder may publish is the one whose file was another one when it was
\* probed, and the same again when it was read once more.
Slips(a, r) == a \in Rejected(r) => a = "unresolved" /\ spent.changes > 1

\* What a process that builds or inspects has established.
Built(w) ==
  /\ w.pc # "idle" => w.runtime \in Runtime /\ w.builder <= revision[w.runtime]
  /\ w.pc \in {"verified", "compiled", "probed"} => w.runtime # "fusion-r3"
  /\ w.pc \in {"compiled", "probed"} =>
       w.binary \in Artifact /\ BuildSucceeds(w.runtime, w.binary)
  /\ w.pc = "compiled" => w.file = w.binary \/ spent.changes > 0
  /\ w.pc = "probed" /\ w.binary = "unresolved" =>
       spent.changes > 0 /\ (w.file = w.binary => spent.changes > 1)
  /\ w.pc \in {"probed", "built"} => w.builder <= w.probed /\ w.probed <= revision[w.runtime]
  /\ w.pc \in {"built", "checked", "staged"} => w.binary \in Artifact /\ Slips(w.binary, w.runtime)
  /\ w.pc \in {"checked", "staged"} => w.builder = w.probed
  /\ w.pc \in Inspecting => published[w.runtime] # NoPublication
  /\ w.pc = "accepted" => w.binary = published[w.runtime].papers.artifact

\* What is published, touched or not.
Bound(r) ==
  published[r] # NoPublication =>
    /\ published[r].papers.builder = published[r].probed
    /\ ~published[r].touched => Slips(published[r].binary, r)

RuntimeInv ==
  /\ RuntimeTyped
  /\ \A b \in Builder : Built(build[b])
  /\ \A r \in Runtime : Bound(r)
  /\ StagesAreRemoved

-----------------------------------------------------------------------------
\* Time passes: sources are edited, and what is published keeps its papers.
Later ==
  /\ \A r \in Runtime : revision[r] <= revision'[r]
  /\ spent.changes <= spent'.changes /\ spent.kills <= spent'.kills
  /\ \A r \in Runtime : published[r] # NoPublication =>
       published'[r] # NoPublication /\ published'[r].papers = published[r].papers

LEMMA BuiltStays ==
  ASSUME RuntimeTyped, RuntimeTyped', Later, NEW w \in Builds, Built(w)
  PROVE  Built(w)'
<1>1. w.pc # "idle" => w.runtime \in Runtime /\ w.builder <= revision[w.runtime]
  BY DEF Built
<1>2. \A r \in Runtime : revision[r] \in Nat /\ revision'[r] \in Nat /\ revision[r] <= revision'[r]
  BY DEF RuntimeTyped, Later
<1>3. w.builder \in Nat /\ w.probed \in Nat
  BY DEF Builds
<1>4. w.pc # "idle" => w.builder <= revision'[w.runtime]
  BY <1>1, <1>2, <1>3
<1>5. w.pc \in {"probed", "built"} => w.builder <= w.probed /\ w.probed <= revision'[w.runtime]
  BY <1>1, <1>2, <1>3 DEF Built
<1>6. spent.changes \in Nat /\ spent'.changes \in Nat /\ spent.changes <= spent'.changes
  BY DEF RuntimeTyped, Later
<1>7. w.pc \in Inspecting => w.runtime \in Runtime
  BY <1>1 DEF Inspecting
<1>8. \A a, r : Slips(a, r) => Slips(a, r)'
  BY <1>6 DEF Slips
<1>9. /\ w.pc = "compiled" => w.file = w.binary \/ spent'.changes > 0
      /\ w.pc = "probed" /\ w.binary = "unresolved" =>
           spent'.changes > 0 /\ (w.file = w.binary => spent'.changes > 1)
  BY <1>6 DEF Built
<1>10. /\ w.pc \in Inspecting => published'[w.runtime] # NoPublication
       /\ w.pc = "accepted" => w.binary = published'[w.runtime].papers.artifact
  BY <1>7 DEF Built, Later, Inspecting
<1> QED
  BY <1>1, <1>4, <1>5, <1>8, <1>9, <1>10 DEF Built

LEMMA BoundStays ==
  ASSUME RuntimeTyped, RuntimeTyped', Later, NEW r \in Runtime, Bound(r), published'[r] = published[r]
  PROVE  Bound(r)'
<1>1. spent.changes \in Nat /\ spent'.changes \in Nat /\ spent.changes <= spent'.changes
  BY DEF RuntimeTyped, Later
<1> QED
  BY <1>1 DEF Bound, Slips

LEMMA RuntimeStart == RuntimeInit => RuntimeInv
<1> SUFFICES ASSUME RuntimeInit PROVE RuntimeInv
  OBVIOUS
<1>1. \A b \in Builder : build[b] = NoBuild /\ build[b].pc = "idle"
  BY DEF RuntimeInit, NoBuild
<1>2. RuntimeTyped
  BY DEF RuntimeInit, RuntimeTyped, NoBuild, Builds, NoPublication
<1>3. \A b \in Builder : Built(build[b])
  BY <1>1 DEF Built, Inspecting
<1>4. \A r \in Runtime : Bound(r)
  BY DEF RuntimeInit, Bound
<1>5. StagesAreRemoved
  BY DEF RuntimeInit, StagesAreRemoved
<1> QED
  BY <1>2, <1>3, <1>4, <1>5 DEF RuntimeInv

\* A process goes on, and nothing else happens.
LEMMA BuilderGoes ==
  ASSUME RuntimeInv, NEW b \in Builder, NEW x \in Builds, Built(x),
         build' = [build EXCEPT ![b] = x],
         UNCHANGED <<revision, inputs, published, leftover, spent>>
  PROVE  RuntimeInv'
<1>1. RuntimeTyped /\ RuntimeTyped'
  BY DEF RuntimeInv, RuntimeTyped
<1>2. Later
  BY <1>1 DEF Later, RuntimeTyped
<1>3. \A c \in Builder : build'[c] \in Builds /\ Built(build'[c])
  BY DEF RuntimeInv, RuntimeTyped
<1>4. \A c \in Builder : Built(build[c])'
  <2> SUFFICES ASSUME NEW c \in Builder PROVE Built(build[c])'
    OBVIOUS
  <2>1. PICK w \in Builds : w = build'[c] /\ Built(w)
    BY <1>3
  <2>2. Built(w)'
    BY <1>1, <1>2, <2>1, BuiltStays
  <2> QED
    BY <2>1, <2>2
<1>5. \A r \in Runtime : Bound(r)'
  BY <1>1, <1>2, BoundStays DEF RuntimeInv
<1> QED
  BY <1>1, <1>4, <1>5 DEF RuntimeInv, StagesAreRemoved

\* A process ends.
LEMMA BuilderEnds ==
  ASSUME RuntimeInv, NEW b \in Builder, Fail(b),
         UNCHANGED <<revision, inputs, published, leftover, spent>>
  PROVE  RuntimeInv'
<1>1. PICK x \in Builds : x = NoBuild
  BY DEF NoBuild, Builds
<1>2. x.pc = "idle"
  BY <1>1 DEF NoBuild
<1> QED
  BY <1>1, <1>2, BuilderGoes DEF Built, Inspecting, Fail

\* A step below the processes.
LEMMA WorldGoes ==
  ASSUME RuntimeInv, RuntimeTyped', Later,
         \A c \in Builder : build'[c] = build[c] \/ Built(build[c])',
         \A r \in Runtime : published'[r] = published[r] \/ Bound(r)',
         StagesAreRemoved'
  PROVE  RuntimeInv'
<1>1. \A c \in Builder : Built(build[c])'
  <2> SUFFICES ASSUME NEW c \in Builder, build'[c] = build[c] PROVE Built(build[c])'
    OBVIOUS
  <2>1. PICK w \in Builds : w = build[c] /\ Built(w)
    BY DEF RuntimeInv, RuntimeTyped
  <2>2. Built(w)'
    BY <2>1, BuiltStays DEF RuntimeInv
  <2> QED
    BY <2>1, <2>2
<1>2. \A r \in Runtime : Bound(r)'
  BY BoundStays DEF RuntimeInv
<1> QED
  BY <1>1, <1>2 DEF RuntimeInv

LEMMA StartBuildSafe ==
  ASSUME RuntimeInv, NEW b \in Builder, NEW r \in Runtime, StartBuild(b, r)
  PROVE  RuntimeInv'
<1>1. build[b] \in Builds /\ spent \in [started : Nat, changes : Nat, kills : Nat]
  BY DEF RuntimeInv, RuntimeTyped
<1>2. PICK n \in Nat : n = spent.started + 1
  BY <1>1
<1>3. PICK x : x = [build[b] EXCEPT !.pc = "started", !.runtime = r, !.builder = revision[r], !.inode = n]
  OBVIOUS
<1>4. revision[r] \in Nat
  BY DEF RuntimeInv, RuntimeTyped
<1>5. x \in Builds /\ x.pc = "started" /\ x.runtime = r /\ x.builder = revision[r]
  BY <1>1, <1>3, <1>4 DEF Builds, Building
<1>6. build' = [build EXCEPT ![b] = x]
  BY <1>2, <1>3 DEF StartBuild
<1>7. /\ spent' \in [started : Nat, changes : Nat, kills : Nat]
      /\ spent'.changes = spent.changes /\ spent'.kills = spent.kills
  BY <1>1 DEF StartBuild
<1>8. UNCHANGED <<revision, inputs, published, leftover>>
  BY DEF StartBuild
<1>9. RuntimeTyped'
  BY <1>5, <1>6, <1>7, <1>8 DEF RuntimeInv, RuntimeTyped
<1>10. Later
  BY <1>1, <1>7, <1>8 DEF Later, RuntimeInv, RuntimeTyped
<1>11. Built(x)'
  BY <1>4, <1>5, <1>8 DEF Built, Inspecting
<1>12. \A c \in Builder : build'[c] = build[c] \/ (c = b /\ build'[c] = x)
  BY <1>6 DEF RuntimeInv, RuntimeTyped
<1>13. \A c \in Builder : build'[c] = build[c] \/ Built(build[c])'
  BY <1>11, <1>12
<1>14. StagesAreRemoved'
  BY <1>7, <1>8 DEF RuntimeInv, StagesAreRemoved
<1> QED
  BY <1>8, <1>9, <1>10, <1>13, <1>14, WorldGoes

\* A step that changes nothing but where the process is.
LEMMA GotoSafe ==
  ASSUME RuntimeInv, NEW b \in Builder, NEW pc \in Building \cup Inspecting, Goto(b, pc),
         UNCHANGED <<revision, inputs, published, leftover, spent>>,
         \A x \in Builds : x.pc = pc /\ x.runtime = build[b].runtime /\ x.builder = build[b].builder
             /\ x.binary = build[b].binary /\ x.file = build[b].file /\ x.probed = build[b].probed => Built(x)
  PROVE  RuntimeInv'
<1>1. build[b] \in Builds
  BY DEF RuntimeInv, RuntimeTyped
<1>2. PICK x : x = [build[b] EXCEPT !.pc = pc]
  OBVIOUS
<1>3. x \in Builds /\ x.pc = pc /\ x.runtime = build[b].runtime /\ x.builder = build[b].builder
        /\ x.binary = build[b].binary /\ x.file = build[b].file /\ x.probed = build[b].probed
  BY <1>1, <1>2 DEF Builds
<1>4. build' = [build EXCEPT ![b] = x]
  BY <1>2 DEF Goto
<1> QED
  BY <1>3, <1>4, BuilderGoes

LEMMA VerifyInputsSafe ==
  ASSUME RuntimeInv, NEW b \in Builder, VerifyInputs(b)
  PROVE  RuntimeInv'
<1>1. build[b].pc = "started" /\ build[b].runtime # "fusion-r3" /\ Built(build[b])
  BY DEF VerifyInputs, At, RuntimeInv
<1>2. \A x \in Builds : x.pc = "verified" /\ x.runtime = build[b].runtime /\ x.builder = build[b].builder => Built(x)
  BY <1>1 DEF Built, Inspecting
<1> QED
  BY <1>2, GotoSafe, BuilderEnds DEF VerifyInputs, Building

LEMMA CompileSafe ==
  ASSUME RuntimeInv, NEW b \in Builder, Compile(b)
  PROVE  RuntimeInv'
<1>1. build[b] \in Builds /\ build[b].pc = "verified" /\ build[b].runtime # "fusion-r3" /\ Built(build[b])
  BY DEF Compile, At, RuntimeInv, RuntimeTyped, Built
<1>2. PICK a \in Artifact :
        IF BuildSucceeds(build[b].runtime, a)
        THEN build' = [build EXCEPT ![b] = [build[b] EXCEPT !.pc = "compiled", !.binary = a, !.file = a]]
        ELSE Fail(b)
  BY DEF Compile, RuntimeInv, RuntimeTyped
<1>3. CASE BuildSucceeds(build[b].runtime, a)
  <2>1. PICK x : x = [build[b] EXCEPT !.pc = "compiled", !.binary = a, !.file = a]
    OBVIOUS
  <2>2. /\ x \in Builds /\ x.pc = "compiled" /\ x.runtime = build[b].runtime
        /\ x.builder = build[b].builder /\ x.binary = a /\ x.file = a
    BY <1>1, <2>1 DEF Builds, Building
  <2>3. Built(x)
    BY <1>1, <1>3, <2>2 DEF Built, Inspecting
  <2> QED
    BY <1>2, <1>3, <2>1, <2>2, <2>3, BuilderGoes DEF Compile
<1>4. CASE ~BuildSucceeds(build[b].runtime, a)
  BY <1>2, <1>4, BuilderEnds DEF Compile
<1> QED
  BY <1>3, <1>4

LEMMA ProbeSafe ==
  ASSUME RuntimeInv, NEW b \in Builder, Probe(b)
  PROVE  RuntimeInv'
<1>1. build[b] \in Builds /\ build[b].pc = "compiled" /\ Built(build[b])
  BY DEF Probe, At, RuntimeInv, RuntimeTyped
<1>2. PICK n : n = revision[build[b].runtime]
  OBVIOUS
<1>3. n \in Nat /\ build[b].builder <= n /\ build[b].runtime \in Runtime
  BY <1>1, <1>2 DEF Built, RuntimeInv, RuntimeTyped
<1>4. CASE IF build[b].runtime = "parallel" THEN ProbesPass(build[b].file) ELSE FusionProbesPass(build[b].file)
  <2>1. PICK x : x = [build[b] EXCEPT !.pc = "probed", !.probed = n]
    OBVIOUS
  <2>2. /\ x \in Builds /\ x.pc = "probed" /\ x.runtime = build[b].runtime /\ x.builder = build[b].builder
        /\ x.binary = build[b].binary /\ x.file = build[b].file /\ x.probed = n
    BY <1>1, <1>3, <2>1 DEF Builds, Building
  <2>3. build[b].file # "unresolved"
    BY <1>4 DEF ProbesPass, FusionProbesPass
  <2>4. Built(x)
    BY <1>1, <1>2, <1>3, <2>2, <2>3 DEF Built, Inspecting
  <2>5. build' = [build EXCEPT ![b] = x]
    BY <1>2, <1>4, <2>1 DEF Probe, RuntimeInv, RuntimeTyped
  <2> QED
    BY <2>2, <2>4, <2>5, BuilderGoes DEF Probe
<1>5. CASE ~(IF build[b].runtime = "parallel" THEN ProbesPass(build[b].file) ELSE FusionProbesPass(build[b].file))
  BY <1>5, BuilderEnds DEF Probe
<1> QED
  BY <1>4, <1>5

LEMMA RereadSafe ==
  ASSUME RuntimeInv, NEW b \in Builder, Reread(b)
  PROVE  RuntimeInv'
<1>1. build[b] \in Builds /\ build[b].pc = "probed" /\ Built(build[b])
  BY DEF Reread, At, RuntimeInv, RuntimeTyped
<1>2. ASSUME build[b].file = build[b].binary
      PROVE  \A x \in Builds : x.pc = "built" /\ x.runtime = build[b].runtime /\ x.builder = build[b].builder
               /\ x.binary = build[b].binary /\ x.probed = build[b].probed => Built(x)
  <2>1. /\ build[b].runtime \in Runtime \ {"fusion-r3"} /\ build[b].binary \in Artifact
        /\ BuildSucceeds(build[b].runtime, build[b].binary)
        /\ build[b].binary = "unresolved" => spent.changes > 1
    BY <1>1, <1>2 DEF Built
  <2>2. Slips(build[b].binary, build[b].runtime)
    BY <2>1 DEF Slips, Rejected, BuildSucceeds, StaticEvidence
  <2> QED
    BY <1>1, <2>1, <2>2 DEF Built, Inspecting
<1> QED
  BY <1>2, GotoSafe, BuilderEnds DEF Reread, Building

LEMMA ReadSourceSafe ==
  ASSUME RuntimeInv, NEW b \in Builder, ReadSource(b)
  PROVE  RuntimeInv'
<1>1. build[b] \in Builds /\ build[b].pc = "started" /\ build[b].runtime = "fusion-r3" /\ Built(build[b])
  BY DEF ReadSource, At, RuntimeInv, RuntimeTyped
<1>2. PICK n : n = revision["fusion-r3"]
  OBVIOUS
<1>3. n \in Nat /\ build[b].builder <= n
  BY <1>1, <1>2 DEF Built, RuntimeInv, RuntimeTyped
<1>4. CASE R3PlanLoads /\ SourceFiles
  <2>1. PICK x : x = [build[b] EXCEPT !.pc = "built", !.binary = "sound", !.probed = n]
    OBVIOUS
  <2>2. /\ x \in Builds /\ x.pc = "built" /\ x.runtime = build[b].runtime /\ x.builder = build[b].builder
        /\ x.binary = "sound" /\ x.probed = n
    BY <1>1, <1>3, <2>1 DEF Builds, Building, Artifact
  <2>3. Slips("sound", "fusion-r3") /\ "sound" \in Artifact
    BY DEF Slips, Rejected, Artifact
  <2>4. Built(x)
    BY <1>1, <1>2, <1>3, <2>2, <2>3 DEF Built, Inspecting
  <2>5. build' = [build EXCEPT ![b] = x]
    BY <1>2, <1>4, <2>1 DEF ReadSource, RuntimeInv, RuntimeTyped
  <2> QED
    BY <2>2, <2>4, <2>5, BuilderGoes DEF ReadSource
<1>5. CASE ~(R3PlanLoads /\ SourceFiles)
  BY <1>5, BuilderEnds DEF ReadSource
<1> QED
  BY <1>4, <1>5

LEMMA CheckBuilderSafe ==
  ASSUME RuntimeInv, NEW b \in Builder, CheckBuilder(b)
  PROVE  RuntimeInv'
<1>1. build[b] \in Builds /\ build[b].pc = "built" /\ Built(build[b])
  BY DEF CheckBuilder, At, RuntimeInv, RuntimeTyped
<1>2. ASSUME revision[build[b].runtime] = build[b].builder
      PROVE  \A x \in Builds : x.pc = "checked" /\ x.runtime = build[b].runtime /\ x.builder = build[b].builder
               /\ x.binary = build[b].binary /\ x.probed = build[b].probed => Built(x)
  <2>1. build[b].builder \in Nat /\ build[b].probed \in Nat
    BY <1>1 DEF Builds
  <2>2. build[b].builder = build[b].probed
    BY <1>1, <1>2, <2>1 DEF Built
  <2> QED
    BY <1>1, <2>2 DEF Built, Inspecting
<1> QED
  BY <1>2, GotoSafe, BuilderEnds DEF CheckBuilder, Building

LEMMA StageFilesSafe ==
  ASSUME RuntimeInv, NEW b \in Builder, StageFiles(b)
  PROVE  RuntimeInv'
<1>1. build[b].pc = "checked" /\ Built(build[b])
  BY DEF StageFiles, At, RuntimeInv
<1>2. \A x \in Builds : x.pc = "staged" /\ x.runtime = build[b].runtime /\ x.builder = build[b].builder
        /\ x.binary = build[b].binary /\ x.probed = build[b].probed => Built(x)
  BY <1>1 DEF Built, Inspecting
<1> QED
  BY <1>2, GotoSafe DEF StageFiles, Building

LEMMA ReplaySafe ==
  ASSUME RuntimeInv, NEW b \in Builder, Replay(b)
  PROVE  RuntimeInv'
<1>1. build[b].pc = "renamed" /\ Built(build[b])
  BY DEF Replay, At, RuntimeInv
<1>2. \A x \in Builds : x.pc = "replayed" /\ x.runtime = build[b].runtime /\ x.builder = build[b].builder => Built(x)
  BY <1>1 DEF Built, Inspecting
<1> QED
  BY <1>2, GotoSafe, BuilderEnds DEF Replay, Building

LEMMA InspectOpenSafe ==
  ASSUME RuntimeInv, NEW b \in Builder, NEW r \in Runtime, InspectOpen(b, r)
  PROVE  RuntimeInv'
<1>1. build[b] \in Builds /\ published[r] \in Publications /\ revision[r] \in Nat /\ published[r] # NoPublication
  BY DEF InspectOpen, RuntimeInv, RuntimeTyped
<1>2. PICK n, a : n = published[r].inode /\ a = published[r].binary
  OBVIOUS
<1>3. n \in Nat /\ a \in Artifact
  BY <1>1, <1>2 DEF Publications
<1>4. PICK x : x = [build[b] EXCEPT !.pc = "inspecting", !.runtime = r, !.builder = revision[r],
                                    !.inode = n, !.binary = a]
  OBVIOUS
<1>5. x \in Builds /\ x.pc = "inspecting" /\ x.runtime = r /\ x.builder = revision[r]
  BY <1>1, <1>3, <1>4 DEF Builds, Inspecting
<1>6. Built(x)
  BY <1>1, <1>5 DEF Built, Inspecting
<1>7. build' = [build EXCEPT ![b] = x]
  BY <1>2, <1>4 DEF InspectOpen
<1> QED
  BY <1>5, <1>6, <1>7, BuilderGoes DEF InspectOpen

LEMMA InspectBindSafe ==
  ASSUME RuntimeInv, NEW b \in Builder, InspectBind(b)
  PROVE  RuntimeInv'
<1>1. build[b].pc = "inspecting" /\ Built(build[b])
  BY DEF InspectBind, At, RuntimeInv
<1>2. ASSUME build[b].binary = published[build[b].runtime].papers.artifact
      PROVE  \A x \in Builds : x.pc = "accepted" /\ x.runtime = build[b].runtime /\ x.builder = build[b].builder
               /\ x.binary = build[b].binary => Built(x)
  BY <1>1, <1>2 DEF Built, Inspecting
<1>3. UNCHANGED <<revision, inputs, published, leftover, spent>>
  BY DEF InspectBind
<1>4. \/ Goto(b, "accepted") /\ build[b].binary = published[build[b].runtime].papers.artifact
      \/ Fail(b)
  BY DEF InspectBind, Binds
<1> QED
  BY <1>2, <1>3, <1>4, GotoSafe, BuilderEnds DEF Inspecting

\* A process ends, and the bounds and the stages change.
LEMMA BuilderStops ==
  ASSUME RuntimeInv, NEW b \in Builder, Fail(b), UNCHANGED <<revision, published>>,
         spent' \in [started : Nat, changes : Nat, kills : Nat],
         spent'.changes = spent.changes, spent.kills <= spent'.kills, StagesAreRemoved'
  PROVE  RuntimeInv'
<1>1. PICK x \in Builds : x = NoBuild
  BY DEF NoBuild, Builds
<1>2. x.pc = "idle"
  BY <1>1 DEF NoBuild
<1>3. build' = [build EXCEPT ![b] = x]
  BY <1>1 DEF Fail
<1>4. RuntimeTyped'
  BY <1>3 DEF RuntimeInv, RuntimeTyped
<1>5. Later
  BY DEF Later, RuntimeInv, RuntimeTyped
<1>6. Built(x)'
  BY <1>2 DEF Built, Inspecting
<1>7. \A c \in Builder : build'[c] = build[c] \/ build'[c] = x
  BY <1>3 DEF RuntimeInv, RuntimeTyped
<1>8. \A c \in Builder : build'[c] = build[c] \/ Built(build[c])'
  BY <1>6, <1>7
<1> QED
  BY <1>4, <1>5, <1>8, WorldGoes

\* A cleanup that fails leaves the stage and is counted.
LEMMA RemoveStageCounts ==
  ASSUME RuntimeInv, NEW b \in Builder, RemoveStage(b)
  PROVE  /\ spent' \in [started : Nat, changes : Nat, kills : Nat]
         /\ spent'.changes = spent.changes /\ spent.kills <= spent'.kills
         /\ StagesAreRemoved'
<1>1. spent \in [started : Nat, changes : Nat, kills : Nat] /\ StagesAreRemoved
  BY DEF RuntimeInv, RuntimeTyped
<1>2. CASE UNCHANGED <<leftover, spent>>
  BY <1>1, <1>2 DEF StagesAreRemoved
<1>3. CASE spent' = [spent EXCEPT !.kills = spent.kills + 1]
  BY <1>1, <1>3 DEF StagesAreRemoved
<1> QED
  BY <1>2, <1>3 DEF RemoveStage

LEMMA StageFailsSafe ==
  ASSUME RuntimeInv, NEW b \in Builder, StageFails(b)
  PROVE  RuntimeInv'
<1>1. UNCHANGED <<revision, published>> /\ Fail(b)
  BY DEF StageFails
<1>2. CASE RemoveStage(b)
  BY <1>1, <1>2, RemoveStageCounts, BuilderStops
<1>3. CASE spent' = spent /\ leftover' = leftover \cup {"fusion-r3"}
  <2>1. /\ spent' \in [started : Nat, changes : Nat, kills : Nat]
        /\ spent'.changes = spent.changes /\ spent.kills <= spent'.kills
    BY <1>3 DEF RuntimeInv, RuntimeTyped
  <2>2. StagesAreRemoved'
    BY <1>3 DEF RuntimeInv, StagesAreRemoved
  <2> QED
    BY <1>1, <2>1, <2>2, BuilderStops
<1> QED
  BY <1>2, <1>3 DEF StageFails

LEMMA KillBuildSafe ==
  ASSUME RuntimeInv, NEW b \in Builder, KillBuild(b)
  PROVE  RuntimeInv'
<1>1. spent \in [started : Nat, changes : Nat, kills : Nat]
  BY DEF RuntimeInv, RuntimeTyped
<1>2. /\ spent' \in [started : Nat, changes : Nat, kills : Nat]
      /\ spent'.changes = spent.changes /\ spent'.kills = spent.kills + 1
  BY <1>1 DEF KillBuild
<1>3. UNCHANGED <<revision, published>> /\ Fail(b)
  BY DEF KillBuild
<1>4. StagesAreRemoved' /\ spent.kills <= spent'.kills
  BY <1>1, <1>2 DEF StagesAreRemoved
<1> QED
  BY <1>2, <1>3, <1>4, BuilderStops

\* What is staged is bound to the builder that was there when it was probed.
LEMMA PublicationIsBound ==
  ASSUME RuntimeInv, NEW b \in Builder, build[b].pc = "staged"
  PROVE  /\ Publication(b) \in Publications /\ Publication(b) # NoPublication
         /\ Publication(b).papers.builder = Publication(b).probed
         /\ Publication(b).papers.artifact = Publication(b).binary
         /\ ~Publication(b).touched
         /\ Slips(Publication(b).binary, build[b].runtime)
<1>1. build[b] \in Builds /\ Built(build[b])
  BY DEF RuntimeInv, RuntimeTyped
<1>2. /\ build[b].binary \in Artifact /\ build[b].builder = build[b].probed
      /\ Slips(build[b].binary, build[b].runtime)
  BY <1>1 DEF Built
<1>3. Publication(b) \in Publications
  BY <1>1, <1>2 DEF Publication, Publications, Builds
<1>4. "papers" \in DOMAIN Publication(b) /\ "papers" \notin DOMAIN NoPublication
  BY DEF Publication, NoPublication
<1> QED
  BY <1>2, <1>3, <1>4 DEF Publication

LEMMA RenameSafe ==
  ASSUME RuntimeInv, NEW b \in Builder, Rename(b)
  PROVE  RuntimeInv'
<1>1. build[b] \in Builds /\ Built(build[b]) /\ build[b].pc = "staged"
  BY DEF Rename, At, RuntimeInv, RuntimeTyped
<1>2. PICK r \in Runtime : r = build[b].runtime
  BY <1>1 DEF Built
<1>3. UNCHANGED <<revision, inputs>>
  BY DEF Rename
<1>4. CASE published[r] # NoPublication
  <2>1. Fail(b) /\ RemoveStage(b) /\ UNCHANGED published
    BY <1>2, <1>4 DEF Rename
  <2> QED
    BY <1>3, <2>1, RemoveStageCounts, BuilderStops
<1>5. CASE published[r] = NoPublication
  <2>0. UNCHANGED <<leftover, spent>>
    BY <1>2, <1>5 DEF Rename
  <2>1. PICK x : x = IF r = "fusion-r3" THEN [build[b] EXCEPT !.pc = "renamed"] ELSE NoBuild
    OBVIOUS
  <2>2. /\ x \in Builds /\ x.pc \in {"idle", "renamed"}
        /\ x.pc = "renamed" => x.runtime = build[b].runtime /\ x.builder = build[b].builder
    BY <1>1, <2>1 DEF Builds, NoBuild, Building
  <2>3. build' = [build EXCEPT ![b] = x]
    BY <1>2, <1>5, <2>1 DEF Rename, Goto, Fail
  <2>4. Built(x)'
    BY <2>0, <1>1, <1>2, <1>3, <2>2 DEF Built, Inspecting
  <2>5. PICK new : new = Publication(b)
    OBVIOUS
  <2>6. published' = [published EXCEPT ![r] = new]
    BY <1>2, <1>5, <2>5 DEF Rename
  <2>7. /\ new \in Publications /\ new # NoPublication
        /\ new.papers.builder = new.probed /\ ~new.touched /\ Slips(new.binary, r)
    BY <1>1, <1>2, <2>5, PublicationIsBound
  <2>8. published \in [Runtime -> Publications \cup {NoPublication}]
    BY DEF RuntimeInv, RuntimeTyped
  <2>9. published' \in [Runtime -> Publications \cup {NoPublication}] /\ published'[r] = new
    BY <1>2, <2>6, <2>7, <2>8
  <2>10. \A s \in Runtime : s # r => published'[s] = published[s]
    BY <2>6, <2>8
  <2>11. RuntimeTyped'
    BY <2>0, <1>3, <2>2, <2>3, <2>9 DEF RuntimeInv, RuntimeTyped
  <2>12. Later
    BY <2>0, <1>3, <1>5, <2>10 DEF Later, RuntimeInv, RuntimeTyped
  <2>13. Bound(r)'
    BY <2>0, <1>3, <2>7, <2>9 DEF Bound, Slips
  <2>14. \A s \in Runtime : published'[s] = published[s] \/ Bound(s)'
    BY <2>10, <2>13
  <2>15. \A c \in Builder : build'[c] = build[c] \/ build'[c] = x
    BY <2>3 DEF RuntimeInv, RuntimeTyped
  <2>16. \A c \in Builder : build'[c] = build[c] \/ Built(build[c])'
    BY <2>4, <2>15
  <2>17. StagesAreRemoved'
    BY <2>0, <1>3 DEF RuntimeInv, StagesAreRemoved
  <2> QED
    BY <2>11, <2>12, <2>14, <2>16, <2>17, WorldGoes
<1> QED
  BY <1>4, <1>5

\* What a change counts.
LEMMA ChangesCount ==
  ASSUME RuntimeInv, Changes
  PROVE  /\ spent' \in [started : Nat, changes : Nat, kills : Nat]
         /\ spent'.changes = spent.changes + 1 /\ spent'.kills = spent.kills
         /\ spent.changes \in Nat /\ spent.kills \in Nat
BY DEF RuntimeInv, RuntimeTyped, Changes

LEMMA EditBuilderSafe ==
  ASSUME RuntimeInv, NEW r \in Runtime, EditBuilder(r)
  PROVE  RuntimeInv'
<1>1. /\ spent' \in [started : Nat, changes : Nat, kills : Nat]
      /\ spent'.changes = spent.changes + 1 /\ spent'.kills = spent.kills
      /\ spent.changes \in Nat /\ spent.kills \in Nat
  BY ChangesCount DEF EditBuilder
<1>2. revision \in [Runtime -> Nat] /\ revision' = [revision EXCEPT ![r] = revision[r] + 1]
  BY DEF EditBuilder, RuntimeInv, RuntimeTyped
<1>3. revision' \in [Runtime -> Nat] /\ \A s \in Runtime : revision[s] <= revision'[s]
  BY <1>2
<1>4. UNCHANGED <<build, inputs, published, leftover>>
  BY DEF EditBuilder
<1>5. RuntimeTyped'
  BY <1>1, <1>3, <1>4 DEF RuntimeInv, RuntimeTyped
<1>6. Later
  BY <1>1, <1>3, <1>4 DEF Later
<1>7. StagesAreRemoved'
  BY <1>1, <1>4 DEF RuntimeInv, StagesAreRemoved
<1> QED
  BY <1>4, <1>5, <1>6, <1>7, WorldGoes

LEMMA DriftSafe ==
  ASSUME RuntimeInv, NEW thing \in Pinned, Drift(thing)
  PROVE  RuntimeInv'
<1>1. /\ spent' \in [started : Nat, changes : Nat, kills : Nat]
      /\ spent'.changes = spent.changes + 1 /\ spent'.kills = spent.kills
      /\ spent.changes \in Nat /\ spent.kills \in Nat
  BY ChangesCount DEF Drift
<1>2. UNCHANGED <<build, revision, published, leftover>>
  BY DEF Drift
<1>3. RuntimeTyped'
  BY <1>1, <1>2 DEF RuntimeInv, RuntimeTyped
<1>4. Later
  BY <1>1, <1>2 DEF Later, RuntimeInv, RuntimeTyped
<1>5. StagesAreRemoved'
  BY <1>1, <1>2 DEF RuntimeInv, StagesAreRemoved
<1> QED
  BY <1>2, <1>3, <1>4, <1>5, WorldGoes

LEMMA OutputChangesSafe ==
  ASSUME RuntimeInv, NEW b \in Builder, OutputChanges(b)
  PROVE  RuntimeInv'
<1>1. /\ spent' \in [started : Nat, changes : Nat, kills : Nat]
      /\ spent'.changes = spent.changes + 1 /\ spent'.kills = spent.kills
      /\ spent.changes \in Nat /\ spent.kills \in Nat
  BY ChangesCount DEF OutputChanges
<1>2. UNCHANGED <<revision, inputs, published, leftover>>
  BY DEF OutputChanges
<1>3. build[b] \in Builds /\ Built(build[b]) /\ build[b].pc \in {"compiled", "probed"}
  BY DEF OutputChanges, At, RuntimeInv, RuntimeTyped
<1>4. PICK a \in {"rebuilt", "unresolved"} \ {build[b].file} : build' = [build EXCEPT ![b].file = a]
  BY DEF OutputChanges
<1>5. PICK x : x = [build[b] EXCEPT !.file = a]
  OBVIOUS
<1>6. /\ x \in Builds /\ x.pc = build[b].pc /\ x.runtime = build[b].runtime /\ x.builder = build[b].builder
      /\ x.binary = build[b].binary /\ x.probed = build[b].probed /\ x.file = a
  BY <1>3, <1>4, <1>5 DEF Builds, Artifact
<1>7. build' = [build EXCEPT ![b] = x]
  BY <1>4, <1>5 DEF RuntimeInv, RuntimeTyped
<1>8. RuntimeTyped'
  BY <1>1, <1>2, <1>6, <1>7 DEF RuntimeInv, RuntimeTyped
<1>9. Later
  BY <1>1, <1>2 DEF Later, RuntimeInv, RuntimeTyped
<1>10. spent'.changes > 0 /\ (x.pc = "probed" /\ x.binary = "unresolved" => spent'.changes > 1)
  BY <1>1, <1>3, <1>6 DEF Built
<1>11. Built(x)'
  BY <1>2, <1>3, <1>6, <1>10 DEF Built, Inspecting
<1>12. \A c \in Builder : build'[c] = build[c] \/ build'[c] = x
  BY <1>7 DEF RuntimeInv, RuntimeTyped
<1>13. \A c \in Builder : build'[c] = build[c] \/ Built(build[c])'
  BY <1>11, <1>12
<1>14. StagesAreRemoved'
  BY <1>1, <1>2 DEF RuntimeInv, StagesAreRemoved
<1> QED
  BY <1>2, <1>8, <1>9, <1>13, <1>14, WorldGoes

\* A touch marks the directory and leaves its papers.
LEMMA TouchMarks ==
  ASSUME RuntimeInv, NEW r \in Runtime, Touch(r)
  PROVE  /\ published' \in [Runtime -> Publications \cup {NoPublication}]
         /\ published'[r].touched /\ published'[r] # NoPublication
         /\ published'[r].papers = published[r].papers /\ published'[r].probed = published[r].probed
         /\ \A s \in Runtime : s # r => published'[s] = published[s]
<1>1. /\ published \in [Runtime -> Publications \cup {NoPublication}]
      /\ published[r] \in Publications
  BY DEF Touch, RuntimeInv, RuntimeTyped
<1>2. PICK x : /\ published' = [published EXCEPT ![r] = x]
               /\ \/ \E a \in Artifact : x = [published[r] EXCEPT !.binary = a, !.touched = TRUE]
                  \/ x = [published[r] EXCEPT !.inode = MaxBuilds + 1, !.touched = TRUE]
  <2>1. CASE \E a \in {"sound", "rebuilt"} : published' = [published EXCEPT ![r].binary = a, ![r].touched = TRUE]
    <3>1. PICK a \in {"sound", "rebuilt"} : published' = [published EXCEPT ![r].binary = a, ![r].touched = TRUE]
      BY <2>1
    <3>2. published' = [published EXCEPT ![r] = [published[r] EXCEPT !.binary = a, !.touched = TRUE]]
      BY <1>1, <3>1
    <3> QED
      BY <3>2 DEF Artifact
  <2>2. CASE published' = [published EXCEPT ![r].inode = MaxBuilds + 1, ![r].touched = TRUE]
    <3>1. published' = [published EXCEPT ![r] = [published[r] EXCEPT !.inode = MaxBuilds + 1, !.touched = TRUE]]
      BY <1>1, <2>2
    <3> QED
      BY <3>1
  <2> QED
    BY <2>1, <2>2 DEF Touch
<1>3. x \in Publications /\ x.touched /\ x.papers = published[r].papers /\ x.probed = published[r].probed
  <2>1. MaxBuilds + 1 \in Nat
    BY RuntimeAssumption
  <2> QED
    BY <1>1, <1>2, <2>1 DEF Publications
<1>4. x # NoPublication
  BY <1>3 DEF Publications, NoPublication
<1> QED
  BY <1>1, <1>2, <1>3, <1>4

LEMMA TouchSafe ==
  ASSUME RuntimeInv, NEW r \in Runtime, Touch(r)
  PROVE  RuntimeInv'
<1>1. /\ spent' \in [started : Nat, changes : Nat, kills : Nat]
      /\ spent'.changes = spent.changes + 1 /\ spent'.kills = spent.kills
      /\ spent.changes \in Nat /\ spent.kills \in Nat
  BY ChangesCount DEF Touch
<1>2. UNCHANGED <<build, revision, inputs, leftover>> /\ published[r] # NoPublication
  BY DEF Touch
<1>3. /\ published' \in [Runtime -> Publications \cup {NoPublication}]
      /\ published'[r].touched /\ published'[r] # NoPublication
      /\ published'[r].papers = published[r].papers /\ published'[r].probed = published[r].probed
      /\ \A s \in Runtime : s # r => published'[s] = published[s]
  BY TouchMarks
<1>4. RuntimeTyped'
  BY <1>1, <1>2, <1>3 DEF RuntimeInv, RuntimeTyped
<1>5. Later
  BY <1>1, <1>2, <1>3 DEF Later, RuntimeInv, RuntimeTyped
<1>6. Bound(r)'
  BY <1>2, <1>3 DEF RuntimeInv, Bound
<1>7. StagesAreRemoved'
  BY <1>1, <1>2 DEF RuntimeInv, StagesAreRemoved
<1>8. \A s \in Runtime : published'[s] = published[s] \/ Bound(s)'
  BY <1>3, <1>6
<1> QED
  BY <1>2, <1>4, <1>5, <1>7, <1>8, WorldGoes

LEMMA RuntimeStep ==
  ASSUME RuntimeInv, [RuntimeNext]_runtimeVars
  PROVE  RuntimeInv'
<1>1. ASSUME NEW b \in Builder, BuilderStep(b) PROVE RuntimeInv'
  <2>1. CASE \E r \in Runtime : StartBuild(b, r) \/ InspectOpen(b, r)
    BY <2>1, StartBuildSafe, InspectOpenSafe
  <2>2. CASE VerifyInputs(b) \/ Compile(b) \/ Probe(b) \/ Reread(b) \/ ReadSource(b) \/ CheckBuilder(b)
    BY <2>2, VerifyInputsSafe, CompileSafe, ProbeSafe, RereadSafe, ReadSourceSafe, CheckBuilderSafe
  <2>3. CASE StageFiles(b) \/ StageFails(b) \/ Rename(b) \/ Replay(b) \/ InspectBind(b)
    BY <2>3, StageFilesSafe, StageFailsSafe, RenameSafe, ReplaySafe, InspectBindSafe
  <2>4. CASE Canonical(b) \/ InspectReturns(b)
    BY <2>4, BuilderEnds DEF Canonical, InspectReturns
  <2> QED
    BY <1>1, <2>1, <2>2, <2>3, <2>4 DEF BuilderStep
<1>2. CASE Stranger
  BY <1>2, EditBuilderSafe, TouchSafe, DriftSafe, OutputChangesSafe, KillBuildSafe DEF Stranger
<1>3. CASE UNCHANGED runtimeVars
  BY <1>3 DEF runtimeVars, RuntimeInv, RuntimeTyped, Built, Slips, Bound, StagesAreRemoved
<1> QED
  BY <1>1, <1>2, <1>3 DEF RuntimeNext

LEMMA RuntimeMeans ==
  ASSUME RuntimeInv
  PROVE  PublishedIsProbed /\ AcceptedIsPublished /\ StagesAreRemoved
<1>1. PublishedIsProbed
  BY DEF RuntimeInv, PublishedIsProbed, Bound, Slips
<1>2. AcceptedIsPublished
  <2> SUFFICES ASSUME NEW b \in Builder, build[b].pc = "accepted"
               PROVE  /\ build[b].binary = published[build[b].runtime].papers.artifact
                      /\ published[build[b].runtime].papers.builder = published[build[b].runtime].probed
    BY DEF AcceptedIsPublished, At
  <2>1. Built(build[b])
    BY DEF RuntimeInv
  <2>2. /\ build[b].runtime \in Runtime /\ published[build[b].runtime] # NoPublication
        /\ build[b].binary = published[build[b].runtime].papers.artifact
    BY <2>1 DEF Built, Inspecting
  <2> QED
    BY <2>2 DEF RuntimeInv, Bound
<1> QED
  BY <1>1, <1>2 DEF RuntimeInv

\* No step replaces what is published, unless a stranger touches it.
LEMMA NothingRepublished ==
  ASSUME RuntimeInv, [RuntimeNext]_runtimeVars, NEW r \in Runtime, published[r] # NoPublication
  PROVE  published'[r] = published[r] \/ published'[r].touched
<1>1. published \in [Runtime -> Publications \cup {NoPublication}]
  BY DEF RuntimeInv, RuntimeTyped
<1>2. ASSUME NEW b \in Builder, Rename(b) PROVE published'[r] = published[r]
  BY <1>1, <1>2 DEF Rename
<1>3. ASSUME NEW s \in Runtime, Touch(s) PROVE published'[r] = published[r] \/ published'[r].touched
  BY <1>3, TouchMarks
<1>4. ASSUME NEW b \in Builder, BuilderStep(b) PROVE published' = published \/ Rename(b)
  BY <1>4 DEF BuilderStep, StartBuild, InspectOpen, VerifyInputs, Compile, Probe, Reread, ReadSource,
              CheckBuilder, StageFiles, StageFails, Replay, Canonical, InspectBind, InspectReturns
<1>5. ASSUME Stranger PROVE published' = published \/ \E s \in Runtime : Touch(s)
  BY <1>5 DEF Stranger, EditBuilder, Drift, OutputChanges, KillBuild
<1> QED
  BY <1>2, <1>3, <1>4, <1>5 DEF RuntimeNext, runtimeVars

-----------------------------------------------------------------------------
(* The launch plan of the full stack                                       *)

CheckStatus == {"ready", "blocked", "drifted"}
Checks == UNION {[S -> CheckStatus] : S \in SUBSET Slot}
Contracts == [version : Nat, narrow : BOOLEAN]
FullPlan == [mode : Mode, sources : SourceList, contract : Contracts, generator : Nat,
             checks : [Slot -> CheckStatus], blockers : SUBSET (Slot \cup {"receipt", "batch"})]

Probing == [pc : {"probing"}, sources : SourceList, mode : Mode, contract : Contracts,
            checks : Checks]
Writer == [pc : Writing, plan : FullPlan, left : SUBSET Output]
Replaying == {"replaying", "comparing", "granted"}
Replayer == [pc : Replaying, plan : FullPlan, left : SUBSET (Slot \cup Output), calm : BOOLEAN]

\* A model is never in a directory that a receipt names.
PlanTyped ==
  /\ planner \in [Planner -> {Idle} \cup Probing \cup Writer \cup Replayer]
  /\ slot \in [Slot -> {"ready", "blocked", "drifted", "moved"}]
  /\ slot["model"] \in {"ready", "drifted"}
  /\ contract \in Contracts /\ generator \in Nat
  /\ plan \in FullPlan \cup {NoFullPlan}
  /\ outputs \in [Output -> [sources : SourceList, contract : Contracts] \cup {NoFile}]
  /\ planSpent \in [plans : Nat, changes : Nat, kills : Nat, overlap : BOOLEAN]

\* A plan's blockers name every slot that was not ready.
NamesBlockers(made) == \A s \in Slot : made.checks[s] # "ready" => s \in made.blockers

\* What a replay that nobody disturbed has already seen is still so.
StillSo(r) ==
  /\ r.plan.contract = contract /\ r.plan.generator = generator
  /\ r.pc = "replaying" => \A s \in Slot \ r.left : ProbeStatus(slot[s]) = r.plan.checks[s]
  /\ r.pc \in {"comparing", "granted"} /\ r.plan.blockers = {} =>
       /\ \A s \in Slot : ProbeStatus(slot[s]) = r.plan.checks[s]
       /\ Blockers(r.plan.checks, r.plan.contract, r.plan.sources) = {}
       /\ \A o \in Output \ r.left : outputs[o] = Bundle(r.plan)

ReplayOK(r) ==
  r.pc \in Replaying =>
    /\ NamesBlockers(r.plan)
    /\ r.calm => StillSo(r)
    /\ r.pc = "granted" =>
         r.left = {} /\ r.plan.blockers = {} /\ r.plan.mode = "authorize_launch"

\* What the one writer has done so far is there.
WriterOK(r) ==
  /\ r.pc = "rendering" =>
       r.plan.blockers = {} /\ \A o \in Output \ r.left : outputs[o] # NoFile
  /\ r.pc \in {"revoking", "cleaning"} => r.plan.blockers # {}
  /\ r.pc = "cleaning" => plan = r.plan

PlansNameBlockers ==
  /\ plan # NoFullPlan => NamesBlockers(plan)
  /\ \A p \in Planner : planner[p].pc \in Writing => NamesBlockers(planner[p].plan)

OneWriter ==
  \A p, q \in Planner : planner[p].pc \in Writing /\ planner[q].pc \in Writing => p = q

\* Unless two wrote at once.
WrittenInOrder ==
  ~planSpent.overlap =>
    OneWriter /\ (\A p \in Planner : WriterOK(planner[p])) /\ RevokedBeforeRemoved

PlanInv ==
  PlanTyped /\ (\A p \in Planner : ReplayOK(planner[p])) /\ PlansNameBlockers /\ WrittenInOrder

-----------------------------------------------------------------------------
Kinds == {Idle} \cup Probing \cup Writer \cup Replayer

LEMMA DisturbedFacts ==
  ASSUME NEW f \in [Planner -> Kinds], NEW who
  PROVE  /\ Disturbed(f, who) \in [Planner -> Kinds]
         /\ \A q \in Planner :
              LET d == Disturbed(f, who) IN
              /\ d[q].pc = f[q].pc
              /\ q = who \/ f[q].pc \notin Replaying => d[q] = f[q]
              /\ q # who /\ f[q].pc \in Replaying =>
                   ~d[q].calm /\ d[q].plan = f[q].plan /\ d[q].left = f[q].left
<1> DEFINE d == Disturbed(f, who)
<1>1. ASSUME NEW q \in Planner
      PROVE  /\ d[q] \in Kinds
             /\ d[q].pc = f[q].pc
             /\ q = who \/ f[q].pc \notin Replaying => d[q] = f[q]
             /\ q # who /\ f[q].pc \in Replaying =>
                  ~d[q].calm /\ d[q].plan = f[q].plan /\ d[q].left = f[q].left
  <2>1. d[q] = IF q # who /\ "calm" \in DOMAIN f[q] THEN [f[q] EXCEPT !.calm = FALSE] ELSE f[q]
    BY DEF Disturbed
  <2>2. f[q] \in Kinds
    OBVIOUS
  <2>3. CASE f[q] \in Replayer
    <3>1. f[q].pc \in Replaying /\ "calm" \in DOMAIN f[q]
      BY <2>3 DEF Replayer
    <3>2. q # who => d[q] = [f[q] EXCEPT !.calm = FALSE]
      BY <2>1, <3>1
    <3>3. [f[q] EXCEPT !.calm = FALSE] \in Replayer
      BY <2>3 DEF Replayer
    <3>4. q = who => d[q] = f[q]
      BY <2>1
    <3> HIDE DEF d
    <3> QED
      BY <2>3, <3>1, <3>2, <3>3, <3>4 DEF Replayer, Kinds
  <2>4. CASE f[q] \notin Replayer
    <3>1. "calm" \notin DOMAIN f[q] /\ f[q].pc \notin Replaying
      BY <2>2, <2>4 DEF Kinds, Idle, Probing, Writer, Replaying, Writing
    <3> QED
      BY <2>1, <2>2, <3>1
  <2> QED
    BY <2>3, <2>4
<1>2. d = [q \in Planner |-> d[q]]
  BY DEF Disturbed
<1> HIDE DEF d
<1>3. d \in [Planner -> Kinds]
  BY <1>1, <1>2
<1> QED
  BY <1>1, <1>3 DEF d

\* A step of p that changes nothing on disk.
LEMMA QuietStep ==
  ASSUME PlanInv, NEW p \in Planner, NEW x \in Kinds,
         planner' = [planner EXCEPT ![p] = x],
         UNCHANGED <<slot, contract, generator, plan, outputs>>,
         planSpent' \in [plans : Nat, changes : Nat, kills : Nat, overlap : BOOLEAN],
         ~planSpent'.overlap => ~planSpent.overlap,
         ReplayOK(x),
         x.pc \in Writing => NamesBlockers(x.plan),
         ~planSpent'.overlap /\ x.pc \in Writing =>
           \A q \in Planner \ {p} : planner[q].pc \notin Writing,
         ~planSpent'.overlap => WriterOK(x)
  PROVE  PlanInv'
<1>1. planner \in [Planner -> Kinds]
  BY DEF PlanInv, PlanTyped, Kinds
<1>2. planner' \in [Planner -> Kinds] /\ planner'[p] = x
  BY <1>1
<1>3. \A q \in Planner : q # p => planner'[q] = planner[q]
  BY <1>1
<1>4. PlanTyped'
  BY <1>2 DEF PlanInv, PlanTyped, Kinds
<1>5. ASSUME NEW r, ReplayOK(r) PROVE ReplayOK(r)'
  BY <1>5 DEF ReplayOK, StillSo, Blockers, ReceiptError, BatchError
<1>6. \A q \in Planner : ReplayOK(planner[q])'
  <2> SUFFICES ASSUME NEW q \in Planner PROVE ReplayOK(planner[q])'
    OBVIOUS
  <2>1. PICK r : r = planner'[q]
    OBVIOUS
  <2>2. ReplayOK(r)
    BY <1>2, <1>3, <2>1 DEF PlanInv
  <2>3. ReplayOK(r)'
    BY <1>5, <2>2
  <2> QED
    BY <2>1, <2>3 DEF ReplayOK, StillSo
<1>7. PlansNameBlockers'
  BY <1>2, <1>3 DEF PlanInv, PlansNameBlockers
<1>8. WrittenInOrder'
  <2> SUFFICES ASSUME ~planSpent'.overlap PROVE (OneWriter /\ (\A q \in Planner : WriterOK(planner[q])) /\ RevokedBeforeRemoved)'
    BY DEF WrittenInOrder
  <2>1. OneWriter /\ (\A q \in Planner : WriterOK(planner[q])) /\ RevokedBeforeRemoved
    BY DEF PlanInv, WrittenInOrder
  <2>2. OneWriter'
    BY <1>2, <1>3, <2>1 DEF OneWriter
  <2>3. \A q \in Planner : WriterOK(planner[q])'
    BY <1>2, <1>3, <2>1 DEF WriterOK
  <2>4. RevokedBeforeRemoved'
    BY <2>1 DEF RevokedBeforeRemoved
  <2> QED
    BY <2>2, <2>3, <2>4
<1> QED
  BY <1>4, <1>6, <1>7, <1>8 DEF PlanInv

\* A writer's step: whoever replays is disturbed.
LEMMA LoudStep ==
  ASSUME PlanInv, NEW p \in Planner, NEW x \in Kinds,
         planner[p].pc \in Writing, x.pc \in Writing \cup {"idle"},
         planner' = Disturbed([planner EXCEPT ![p] = x], p),
         UNCHANGED <<slot, contract, generator, planSpent>>,
         plan' \in FullPlan \cup {NoFullPlan},
         outputs' \in [Output -> [sources : SourceList, contract : Contracts] \cup {NoFile}],
         plan' # NoFullPlan => NamesBlockers(plan'),
         x.pc \in Writing => NamesBlockers(x.plan),
         ~planSpent.overlap => WriterOK(x)' /\ RevokedBeforeRemoved'
  PROVE  PlanInv'
<1>1. planner \in [Planner -> Kinds]
  BY DEF PlanInv, PlanTyped, Kinds
<1> DEFINE f == [planner EXCEPT ![p] = x]
<1>2. f \in [Planner -> Kinds] /\ f[p] = x /\ \A q \in Planner : q # p => f[q] = planner[q]
  BY <1>1
<1> HIDE DEF f
<1>3. planner' = Disturbed(f, p)
  BY DEF f
<1>4. /\ planner' \in [Planner -> Kinds] /\ planner'[p] = x
      /\ \A q \in Planner : q # p =>
           /\ planner'[q].pc = planner[q].pc
           /\ planner[q].pc \notin Replaying => planner'[q] = planner[q]
           /\ planner[q].pc \in Replaying =>
                ~planner'[q].calm /\ planner'[q].plan = planner[q].plan /\ planner'[q].left = planner[q].left
  <2>1. PICK g : g = f
    OBVIOUS
  <2>2. g \in [Planner -> Kinds]
    BY <1>2, <2>1
  <2>3. /\ Disturbed(g, p) \in [Planner -> Kinds]
        /\ \A q \in Planner :
             /\ Disturbed(g, p)[q].pc = g[q].pc
             /\ q = p \/ g[q].pc \notin Replaying => Disturbed(g, p)[q] = g[q]
             /\ q # p /\ g[q].pc \in Replaying =>
                  /\ ~Disturbed(g, p)[q].calm /\ Disturbed(g, p)[q].plan = g[q].plan
                  /\ Disturbed(g, p)[q].left = g[q].left
    BY <2>2, DisturbedFacts
  <2>4. planner' = Disturbed(g, p)
    BY <1>3, <2>1
  <2> QED
    BY <1>2, <2>1, <2>3, <2>4
<1>5. PlanTyped'
  BY <1>4 DEF PlanInv, PlanTyped, Kinds
<1>6. x.pc \notin Replaying /\ \A pc \in Writing : pc \notin Replaying
  BY DEF Replaying, Writing
<1>7. \A q \in Planner : ReplayOK(planner[q])'
  BY <1>4, <1>6 DEF PlanInv, ReplayOK
<1>8. PlansNameBlockers'
  BY <1>4, <1>6 DEF PlanInv, PlansNameBlockers
<1>9. WrittenInOrder'
  <2> SUFFICES ASSUME ~planSpent.overlap PROVE (OneWriter /\ (\A q \in Planner : WriterOK(planner[q])) /\ RevokedBeforeRemoved)'
    BY DEF WrittenInOrder
  <2>1. \A q \in Planner : q # p => planner[q].pc \notin Writing
    BY DEF PlanInv, WrittenInOrder, OneWriter
  <2>2. \A q \in Planner : q # p => planner'[q].pc \notin Writing
    BY <1>4, <2>1
  <2>3. OneWriter'
    BY <2>2 DEF OneWriter
  <2>4. \A q \in Planner : WriterOK(planner[q])'
    BY <1>4, <2>2 DEF WriterOK, Writing
  <2> QED
    BY <2>3, <2>4
<1> QED
  BY <1>5, <1>7, <1>8, <1>9 DEF PlanInv

LEMMA PlanStart == FullStackInit => PlanInv
<1> SUFFICES ASSUME FullStackInit PROVE PlanInv
  OBVIOUS
<1>1. PICK state \in {"ready", "blocked"} :
        slot = [s \in Slot |-> IF s = "runtime" THEN state ELSE "ready"]
  BY DEF FullStackInit
<1>2. \A p \in Planner : planner[p] = Idle /\ planner[p].pc = "idle"
  BY DEF FullStackInit, Idle
<1>3. PlanTyped
  <2>1. slot \in [Slot -> {"ready", "blocked", "drifted", "moved"}] /\ slot["model"] = "ready"
    BY <1>1 DEF Slot
  <2> QED
    BY <2>1 DEF FullStackInit, PlanTyped, Contracts
<1>4. \A p \in Planner : ReplayOK(planner[p])
  BY <1>2 DEF ReplayOK, Replaying
<1>5. PlansNameBlockers
  BY <1>2 DEF PlansNameBlockers, Writing, FullStackInit
<1>6. WrittenInOrder
  BY <1>2 DEF WrittenInOrder, OneWriter, WriterOK, RevokedBeforeRemoved, Writing, FullStackInit
<1> QED
  BY <1>3, <1>4, <1>5, <1>6 DEF PlanInv

\* A planner comes to rest.
LEMMA EndStep ==
  ASSUME PlanInv, NEW p \in Planner, PEnd(p),
         UNCHANGED <<slot, contract, generator, plan, outputs>>,
         planSpent' \in [plans : Nat, changes : Nat, kills : Nat, overlap : BOOLEAN],
         planSpent'.overlap = planSpent.overlap
  PROVE  PlanInv'
<1>1. PICK x \in Kinds : x = Idle
  BY DEF Kinds
<1>2. x.pc = "idle" /\ planner' = [planner EXCEPT ![p] = x]
  BY <1>1 DEF Idle, PEnd
<1>3. ReplayOK(x) /\ WriterOK(x) /\ x.pc \notin Writing
  BY <1>2 DEF ReplayOK, WriterOK, Replaying, Writing
<1> QED
  BY <1>2, <1>3, QuietStep

\* What is typed about a planner that is at work.
LEMMA AtWork ==
  ASSUME PlanTyped, NEW p \in Planner
  PROVE  /\ planner[p] \in Kinds
         /\ planner[p].pc = "probing" => planner[p] \in Probing
         /\ planner[p].pc \in Writing => planner[p] \in Writer
         /\ planner[p].pc \in Replaying => planner[p] \in Replayer
         /\ planSpent \in [plans : Nat, changes : Nat, kills : Nat, overlap : BOOLEAN]
BY DEF PlanTyped, Kinds, Idle, Probing, Writer, Replayer, Writing, Replaying

LEMMA StartPlanSafe ==
  ASSUME PlanInv, NEW p \in Planner, NEW sources \in SourceList, NEW mode \in Mode,
         StartPlan(p, sources, mode)
  PROVE  PlanInv'
<1>1. PICK x : x = [pc |-> "probing", sources |-> sources, mode |-> mode, contract |-> contract,
                    checks |-> [s \in {} |-> "ready"]]
  OBVIOUS
<1>2. x \in Probing /\ x.pc = "probing"
  <2>1. [s \in {} |-> "ready"] \in Checks
    BY DEF Checks
  <2> QED
    BY <1>1, <2>1 DEF PlanInv, PlanTyped, Probing
<1>3. planner' = [planner EXCEPT ![p] = x]
  BY <1>1 DEF StartPlan
<1>4. /\ planSpent' \in [plans : Nat, changes : Nat, kills : Nat, overlap : BOOLEAN]
      /\ planSpent'.overlap = planSpent.overlap
  BY DEF StartPlan, PlanInv, PlanTyped
<1>5. ReplayOK(x) /\ WriterOK(x) /\ x.pc \notin Writing /\ x \in Kinds
  BY <1>2 DEF ReplayOK, WriterOK, Replaying, Writing, Kinds
<1> QED
  BY <1>3, <1>4, <1>5, QuietStep DEF StartPlan

LEMMA ProbeSlotSafe ==
  ASSUME PlanInv, NEW p \in Planner, NEW s \in Slot, ProbeSlot(p, s)
  PROVE  PlanInv'
<1>1. planner[p] \in Probing
  BY AtWork DEF ProbeSlot, PAt, PlanInv
<1> DEFINE c == planner[p].checks
           d == [y \in DOMAIN c \cup {s} |-> IF y = s THEN ProbeStatus(slot[s]) ELSE c[y]]
<1>2. PICK x : x = [planner[p] EXCEPT !.checks = d]
  OBVIOUS
<1>3. d \in Checks
  <2>1. PICK S \in SUBSET Slot : c \in [S -> CheckStatus]
    BY <1>1 DEF Probing, Checks
  <2>2. ProbeStatus(slot[s]) \in CheckStatus
    BY DEF PlanInv, PlanTyped, ProbeStatus, CheckStatus
  <2>3. d \in [S \cup {s} -> CheckStatus]
    BY <2>1, <2>2
  <2>4. S \cup {s} \in SUBSET Slot
    BY <2>1
  <2> QED
    BY <2>3, <2>4 DEF Checks
<1>4. x \in Probing /\ x.pc = "probing"
  <2> HIDE DEF d
  <2> QED
    BY <1>1, <1>2, <1>3 DEF Probing
<1>5. planner' = [planner EXCEPT ![p] = x]
  BY <1>2 DEF ProbeSlot, PlanInv, PlanTyped
<1>6. ReplayOK(x) /\ WriterOK(x) /\ x.pc \notin Writing /\ x \in Kinds
  BY <1>4 DEF ReplayOK, WriterOK, Replaying, Writing, Kinds
<1>7. planSpent' = planSpent /\ planSpent' \in [plans : Nat, changes : Nat, kills : Nat, overlap : BOOLEAN]
  BY DEF ProbeSlot, PlanInv, PlanTyped
<1> QED
  BY <1>5, <1>6, <1>7, QuietStep DEF ProbeSlot

LEMMA DecideSafe ==
  ASSUME PlanInv, NEW p \in Planner, Decide(p)
  PROVE  PlanInv'
<1>1. planner[p] \in Probing /\ DOMAIN planner[p].checks = Slot /\ planner[p].pc = "probing"
  BY AtWork DEF Decide, PAt, PlanInv
<1> DEFINE q == planner[p]
           blockers == Blockers(q.checks, q.contract, q.sources)
           made == [mode |-> q.mode, sources |-> q.sources, contract |-> q.contract,
                    generator |-> generator, checks |-> q.checks, blockers |-> blockers]
           pc == IF blockers = {} THEN "rendering" ELSE "revoking"
<1>2. PICK x : x = [pc |-> pc, plan |-> made, left |-> Output]
  OBVIOUS
<1>3. blockers \in SUBSET (Slot \cup {"receipt", "batch"})
  BY DEF Blockers
<1>4. \A s \in Slot : q.checks[s] # "ready" => s \in blockers
  BY DEF Blockers
<1>5. planner' = [planner EXCEPT ![p] = x]
  BY <1>2 DEF Decide
<1>p. pc \in Writing /\ (pc = "rendering" <=> blockers = {}) /\ pc # "cleaning"
  BY DEF Writing
<1> HIDE DEF blockers
<1>6. q.checks \in [Slot -> CheckStatus]
  BY <1>1 DEF Probing, Checks
<1>7. made \in FullPlan
  BY <1>1, <1>3, <1>6 DEF Probing, FullPlan, PlanInv, PlanTyped
<1> HIDE DEF pc
<1>8. x.plan = made /\ x.left = Output /\ x.pc = pc /\ made.blockers = blockers /\ made.checks = q.checks
  BY <1>2
<1>9. x \in Writer
  BY <1>2, <1>7, <1>p DEF Writer
<1>10. NamesBlockers(x.plan)
  BY <1>4, <1>8 DEF NamesBlockers
<1>11. WriterOK(x) /\ ReplayOK(x)
  BY <1>8, <1>p DEF WriterOK, ReplayOK, Replaying, Writing
<1>12. /\ planSpent' \in [plans : Nat, changes : Nat, kills : Nat, overlap : BOOLEAN]
       /\ planSpent'.overlap <=> (planSpent.overlap \/ \E r \in Planner \ {p} : PAt(r, Writing))
  BY DEF Decide, PlanInv, PlanTyped
<1>13. ~planSpent'.overlap => /\ ~planSpent.overlap
                             /\ \A r \in Planner \ {p} : planner[r].pc \notin Writing
  BY <1>12 DEF PAt
<1>14. UNCHANGED <<slot, contract, generator, plan, outputs>>
  BY DEF Decide
<1>15. x \in Kinds
  BY <1>9 DEF Kinds
<1> QED
  BY <1>5, <1>10, <1>11, <1>12, <1>13, <1>14, <1>15, QuietStep

LEMMA RevokeSafe ==
  ASSUME PlanInv, NEW p \in Planner, Revoke(p)
  PROVE  PlanInv'
<1>1. planner[p] \in Writer /\ planner[p].pc = "revoking"
  BY AtWork DEF Revoke, PAt, PlanInv, Writing
<1>2. PICK x : x = [planner[p] EXCEPT !.pc = "cleaning"]
  OBVIOUS
<1>3. x \in Writer /\ x.pc = "cleaning" /\ x.plan = planner[p].plan /\ x.plan \in FullPlan
  BY <1>1, <1>2 DEF Writer, Writing
<1>4. planner' = Disturbed([planner EXCEPT ![p] = x], p) /\ plan' = x.plan
  BY <1>2, <1>3 DEF Revoke
<1>5. x \in Kinds /\ x.pc \in Writing /\ planner[p].pc \in Writing
  BY <1>1, <1>3 DEF Kinds, Writing
<1>6. NamesBlockers(x.plan)
  BY <1>3, <1>5 DEF PlanInv, PlansNameBlockers
<1>7. ~planSpent.overlap => x.plan.blockers # {}
  BY <1>1, <1>3 DEF PlanInv, WrittenInOrder, WriterOK
<1>8. ~planSpent.overlap => WriterOK(x)' /\ RevokedBeforeRemoved'
  BY <1>3, <1>4, <1>7 DEF WriterOK, RevokedBeforeRemoved
<1>9. /\ outputs' \in [Output -> [sources : SourceList, contract : Contracts] \cup {NoFile}]
      /\ UNCHANGED <<slot, contract, generator, planSpent>>
  BY DEF Revoke, PlanInv, PlanTyped
<1> QED
  BY <1>3, <1>4, <1>5, <1>6, <1>8, <1>9, LoudStep

LEMMA RemoveStaleSafe ==
  ASSUME PlanInv, NEW p \in Planner, NEW o \in Output, RemoveStale(p, o)
  PROVE  PlanInv'
<1>1. planner[p] \in Writer /\ planner[p].pc = "cleaning"
  BY AtWork DEF RemoveStale, PAt, PlanInv, Writing
<1>2. PICK x : x = [planner[p] EXCEPT !.left = planner[p].left \ {o}]
  OBVIOUS
<1>3. x \in Writer /\ x.pc = "cleaning" /\ x.plan = planner[p].plan
  BY <1>1, <1>2 DEF Writer
<1>4. planner' = Disturbed([planner EXCEPT ![p] = x], p) /\ plan' = plan
  BY <1>2 DEF RemoveStale
<1>5. x \in Kinds /\ x.pc \in Writing /\ planner[p].pc \in Writing
  BY <1>1, <1>3 DEF Kinds, Writing
<1>6. NamesBlockers(x.plan) /\ (plan' # NoFullPlan => NamesBlockers(plan'))
  BY <1>3, <1>4, <1>5 DEF PlanInv, PlansNameBlockers
<1>7. ~planSpent.overlap => x.plan.blockers # {} /\ plan = x.plan
  BY <1>1, <1>3 DEF PlanInv, WrittenInOrder, WriterOK
<1>8. ~planSpent.overlap => WriterOK(x)' /\ RevokedBeforeRemoved'
  BY <1>3, <1>4, <1>7 DEF WriterOK, RevokedBeforeRemoved
<1>9. /\ outputs' \in [Output -> [sources : SourceList, contract : Contracts] \cup {NoFile}]
      /\ UNCHANGED <<slot, contract, generator, planSpent>>
      /\ plan' \in FullPlan \cup {NoFullPlan}
  BY DEF RemoveStale, PlanInv, PlanTyped
<1> QED
  BY <1>4, <1>5, <1>6, <1>8, <1>9, LoudStep

LEMMA RenderFileSafe ==
  ASSUME PlanInv, NEW p \in Planner, NEW o \in Output, RenderFile(p, o)
  PROVE  PlanInv'
<1>1. planner[p] \in Writer /\ planner[p].pc = "rendering"
  BY AtWork DEF RenderFile, PAt, PlanInv, Writing
<1>2. PICK x : x = [planner[p] EXCEPT !.left = planner[p].left \ {o}]
  OBVIOUS
<1>3. x \in Writer /\ x.pc = "rendering" /\ x.plan = planner[p].plan /\ x.left = planner[p].left \ {o}
  BY <1>1, <1>2 DEF Writer
<1>4. planner' = Disturbed([planner EXCEPT ![p] = x], p) /\ plan' = plan
  BY <1>2 DEF RenderFile
<1>5. x \in Kinds /\ x.pc \in Writing /\ planner[p].pc \in Writing
  BY <1>1, <1>3 DEF Kinds, Writing
<1>6. NamesBlockers(x.plan) /\ (plan' # NoFullPlan => NamesBlockers(plan'))
  BY <1>3, <1>4, <1>5 DEF PlanInv, PlansNameBlockers
<1>7. PICK b : b = Bundle(planner[p].plan)
  OBVIOUS
<1>8. b \in [sources : SourceList, contract : Contracts] /\ b # NoFile
  <2>1. b.sources \in SourceList
    BY <1>1, <1>7 DEF Writer, FullPlan, Bundle
  <2>2. b \in [sources : SourceList, contract : Contracts]
    BY <1>1, <1>7 DEF Writer, FullPlan, Bundle
  <2> QED
    BY <2>1, <2>2 DEF NoFile, SourceList
<1>9. outputs' = [outputs EXCEPT ![o] = b] /\ UNCHANGED <<slot, contract, generator, planSpent>>
  BY <1>7 DEF RenderFile
<1>10. /\ outputs \in [Output -> [sources : SourceList, contract : Contracts] \cup {NoFile}]
       /\ plan \in FullPlan \cup {NoFullPlan}
  BY DEF PlanInv, PlanTyped
<1>11. outputs' \in [Output -> [sources : SourceList, contract : Contracts] \cup {NoFile}]
  BY <1>8, <1>9, <1>10
<1>12. \A y \in Output : outputs[y] # NoFile \/ y = o => outputs'[y] # NoFile
  BY <1>8, <1>9, <1>10
<1>13. ~planSpent.overlap => x.plan.blockers = {} /\ \A y \in Output \ planner[p].left : outputs[y] # NoFile
  BY <1>1, <1>3 DEF PlanInv, WrittenInOrder, WriterOK
<1>14. ~planSpent.overlap => WriterOK(x)'
  BY <1>3, <1>12, <1>13 DEF WriterOK
<1>15. ~planSpent.overlap => RevokedBeforeRemoved'
  BY <1>4, <1>9, <1>12 DEF PlanInv, WrittenInOrder, RevokedBeforeRemoved
<1> QED
  BY <1>4, <1>5, <1>6, <1>9, <1>10, <1>11, <1>14, <1>15, LoudStep

LEMMA PersistSafe ==
  ASSUME PlanInv, NEW p \in Planner, Persist(p)
  PROVE  PlanInv'
<1>1. planner[p] \in Writer /\ planner[p].pc = "rendering" /\ planner[p].left = {}
  BY AtWork DEF Persist, PAt, PlanInv, Writing
<1>2. PICK x \in Kinds : x = Idle
  BY DEF Kinds
<1>3. x.pc = "idle"
  BY <1>2 DEF Idle
<1>4. planner' = Disturbed([planner EXCEPT ![p] = x], p) /\ plan' = planner[p].plan
  BY <1>2 DEF Persist
<1>5. planner[p].pc \in Writing /\ x.pc \notin Writing
  BY <1>1, <1>3 DEF Writing
<1>6. plan' \in FullPlan /\ NamesBlockers(plan')
  BY <1>1, <1>4, <1>5 DEF PlanInv, PlansNameBlockers, Writer
<1>7. ~planSpent.overlap => \A y \in Output : outputs[y] # NoFile
  BY <1>1 DEF PlanInv, WrittenInOrder, WriterOK
<1>8. ~planSpent.overlap => WriterOK(x)' /\ RevokedBeforeRemoved'
  BY <1>3, <1>7 DEF WriterOK, RevokedBeforeRemoved, Persist
<1>9. /\ outputs' \in [Output -> [sources : SourceList, contract : Contracts] \cup {NoFile}]
      /\ UNCHANGED <<slot, contract, generator, planSpent>>
  BY DEF Persist, PlanInv, PlanTyped
<1> QED
  BY <1>3, <1>4, <1>5, <1>6, <1>8, <1>9, LoudStep

LEMMA StartReplaySafe ==
  ASSUME PlanInv, NEW p \in Planner, StartReplay(p)
  PROVE  PlanInv'
<1>1. plan \in FullPlan /\ plan # NoFullPlan /\ contract = plan.contract /\ generator = plan.generator
  BY DEF StartReplay, PlanReads, PlanInv, PlanTyped
<1>2. PICK x : x = [pc |-> "replaying", plan |-> plan, left |-> Slot, calm |-> TRUE]
  OBVIOUS
<1>3. x \in Replayer /\ x.pc = "replaying" /\ x.plan = plan /\ x.left = Slot
  BY <1>1, <1>2 DEF Replayer, Replaying
<1>4. NamesBlockers(x.plan)
  BY <1>1, <1>3 DEF PlanInv, PlansNameBlockers
<1>5. StillSo(x)
  BY <1>1, <1>3 DEF StillSo
<1>6. ReplayOK(x) /\ WriterOK(x) /\ x.pc \notin Writing /\ x \in Kinds
  BY <1>3, <1>4, <1>5 DEF ReplayOK, WriterOK, Writing, Kinds
<1>7. planner' = [planner EXCEPT ![p] = x] /\ UNCHANGED <<slot, contract, generator, plan, outputs>>
  BY <1>2 DEF StartReplay
<1>8. planSpent' = planSpent /\ planSpent' \in [plans : Nat, changes : Nat, kills : Nat, overlap : BOOLEAN]
  BY DEF StartReplay, PlanInv, PlanTyped
<1> QED
  BY <1>6, <1>7, <1>8, QuietStep

\* A replay goes on, and has seen no more than what is so.
LEMMA ReplayStep ==
  ASSUME PlanInv, NEW p \in Planner, planner[p].pc \in Replaying,
         NEW x \in Replayer, planner' = [planner EXCEPT ![p] = x], ReplayOK(x),
         UNCHANGED <<slot, contract, generator, plan, outputs, planSpent>>
  PROVE  PlanInv'
<1>1. x.pc \in Replaying
  BY DEF Replayer
<1>2. WriterOK(x) /\ x.pc \notin Writing /\ x \in Kinds
  BY <1>1 DEF WriterOK, Writing, Kinds, Replaying
<1>3. planSpent' = planSpent /\ planSpent' \in [plans : Nat, changes : Nat, kills : Nat, overlap : BOOLEAN]
  BY DEF PlanInv, PlanTyped
<1> QED
  BY <1>2, <1>3, QuietStep

LEMMA ReplayEnds ==
  ASSUME PlanInv, NEW p \in Planner, PEnd(p),
         UNCHANGED <<slot, contract, generator, plan, outputs, planSpent>>
  PROVE  PlanInv'
<1>1. planSpent' = planSpent /\ planSpent' \in [plans : Nat, changes : Nat, kills : Nat, overlap : BOOLEAN]
  BY DEF PlanInv, PlanTyped
<1> QED
  BY <1>1, EndStep

LEMMA ReplaySlotSafe ==
  ASSUME PlanInv, NEW p \in Planner, NEW s \in Slot, ReplaySlot(p, s)
  PROVE  PlanInv'
<1>1. planner[p] \in Replayer /\ planner[p].pc = "replaying" /\ planner[p].pc \in Replaying
  BY AtWork DEF ReplaySlot, PAt, PlanInv, Replaying
<1>2. UNCHANGED <<slot, contract, generator, plan, outputs, planSpent>>
  BY DEF ReplaySlot
<1>3. CASE ProbeStatus(slot[s]) = planner[p].plan.checks[s]
  <2>1. PICK x : x = [planner[p] EXCEPT !.left = planner[p].left \ {s}]
    OBVIOUS
  <2>2. /\ x \in Replayer /\ x.pc = "replaying" /\ x.plan = planner[p].plan
        /\ x.left = planner[p].left \ {s} /\ (x.calm <=> planner[p].calm)
    BY <1>1, <2>1 DEF Replayer
  <2>3. planner' = [planner EXCEPT ![p] = x]
    BY <1>3, <2>1 DEF ReplaySlot
  <2>4. ReplayOK(planner[p])
    BY DEF PlanInv
  <2>5. x.calm => StillSo(x)
    BY <1>1, <1>3, <2>2, <2>4 DEF ReplayOK, StillSo
  <2>6. ReplayOK(x)
    BY <1>1, <2>2, <2>4, <2>5 DEF ReplayOK
  <2> QED
    BY <1>1, <1>2, <2>2, <2>3, <2>6, ReplayStep
<1>4. CASE ProbeStatus(slot[s]) # planner[p].plan.checks[s]
  BY <1>2, <1>4, ReplayEnds DEF ReplaySlot
<1> QED
  BY <1>3, <1>4

LEMMA ReplayBlockersSafe ==
  ASSUME PlanInv, NEW p \in Planner, ReplayBlockers(p)
  PROVE  PlanInv'
<1>1. planner[p] \in Replayer /\ planner[p].pc = "replaying" /\ planner[p].pc \in Replaying /\ planner[p].left = {}
  BY AtWork DEF ReplayBlockers, PAt, PlanInv, Replaying
<1>2. UNCHANGED <<slot, contract, generator, plan, outputs, planSpent>>
  BY DEF ReplayBlockers
<1> DEFINE q == planner[p]
           same == Blockers(q.plan.checks, q.plan.contract, q.plan.sources) = q.plan.blockers
<1>3. CASE same
  <2>1. PICK l : l = IF q.plan.blockers = {} THEN Output ELSE {}
    OBVIOUS
  <2>2. PICK x : x = [[q EXCEPT !.pc = "comparing"] EXCEPT !.left = l]
    OBVIOUS
  <2>3. l \in SUBSET (Slot \cup Output) /\ (q.plan.blockers = {} => l = Output)
    BY <2>1
  <2>4. /\ x \in Replayer /\ x.pc = "comparing" /\ x.plan = planner[p].plan
        /\ x.left = l /\ (x.calm <=> planner[p].calm)
    BY <1>1, <2>2, <2>3 DEF Replayer, Replaying
  <2>5. planner' = [planner EXCEPT ![p] = x]
    BY <1>3, <2>1, <2>2 DEF ReplayBlockers, PlanInv, PlanTyped
  <2>6. ReplayOK(planner[p])
    BY DEF PlanInv
  <2>7. x.calm => StillSo(x)
    BY <1>1, <1>3, <2>3, <2>4, <2>6 DEF ReplayOK, StillSo
  <2>8. ReplayOK(x)
    BY <1>1, <2>4, <2>6, <2>7 DEF ReplayOK
  <2> QED
    BY <1>1, <1>2, <2>4, <2>5, <2>8, ReplayStep
<1>4. CASE ~same
  BY <1>2, <1>4, ReplayEnds DEF ReplayBlockers
<1> QED
  BY <1>3, <1>4

LEMMA CompareFileSafe ==
  ASSUME PlanInv, NEW p \in Planner, NEW o \in Output, CompareFile(p, o)
  PROVE  PlanInv'
<1>1. planner[p] \in Replayer /\ planner[p].pc = "comparing" /\ planner[p].pc \in Replaying
  BY AtWork DEF CompareFile, PAt, PlanInv, Replaying
<1>2. UNCHANGED <<slot, contract, generator, plan, outputs, planSpent>>
  BY DEF CompareFile
<1>3. CASE outputs[o] = Bundle(planner[p].plan)
  <2>1. PICK x : x = [planner[p] EXCEPT !.left = planner[p].left \ {o}]
    OBVIOUS
  <2>2. /\ x \in Replayer /\ x.pc = "comparing" /\ x.plan = planner[p].plan
        /\ x.left = planner[p].left \ {o} /\ (x.calm <=> planner[p].calm)
    BY <1>1, <2>1 DEF Replayer
  <2>3. planner' = [planner EXCEPT ![p] = x]
    BY <1>3, <2>1 DEF CompareFile
  <2>4. ReplayOK(planner[p])
    BY DEF PlanInv
  <2>5. x.calm => StillSo(x)
    BY <1>1, <1>3, <2>2, <2>4 DEF ReplayOK, StillSo
  <2>6. ReplayOK(x)
    BY <1>1, <2>2, <2>4, <2>5 DEF ReplayOK
  <2> QED
    BY <1>1, <1>2, <2>2, <2>3, <2>6, ReplayStep
<1>4. CASE outputs[o] # Bundle(planner[p].plan)
  BY <1>2, <1>4, ReplayEnds DEF CompareFile
<1> QED
  BY <1>3, <1>4

LEMMA GrantSafe ==
  ASSUME PlanInv, NEW p \in Planner, Grant(p)
  PROVE  PlanInv'
<1>1. planner[p] \in Replayer /\ planner[p].pc = "comparing" /\ planner[p].pc \in Replaying /\ planner[p].left = {}
  BY AtWork DEF Grant, PAt, PlanInv, Replaying
<1>2. UNCHANGED <<slot, contract, generator, plan, outputs, planSpent>>
  BY DEF Grant
<1>3. CASE planner[p].plan.blockers = {} /\ planner[p].plan.mode = "authorize_launch"
  <2>1. PICK x : x = [planner[p] EXCEPT !.pc = "granted"]
    OBVIOUS
  <2>2. /\ x \in Replayer /\ x.pc = "granted" /\ x.plan = planner[p].plan
        /\ x.left = planner[p].left /\ (x.calm <=> planner[p].calm)
    BY <1>1, <2>1 DEF Replayer, Replaying
  <2>3. planner' = [planner EXCEPT ![p] = x]
    BY <1>3, <2>1 DEF Grant, PGoto
  <2>4. ReplayOK(planner[p])
    BY DEF PlanInv
  <2>5. x.calm => StillSo(x)
    BY <1>1, <2>2, <2>4 DEF ReplayOK, StillSo
  <2>6. ReplayOK(x)
    BY <1>1, <1>3, <2>2, <2>4, <2>5 DEF ReplayOK
  <2> QED
    BY <1>1, <1>2, <2>2, <2>3, <2>6, ReplayStep
<1>4. CASE ~(planner[p].plan.blockers = {} /\ planner[p].plan.mode = "authorize_launch")
  BY <1>2, <1>4, ReplayEnds DEF Grant
<1> QED
  BY <1>3, <1>4

LEMMA SurroundingsSafe ==
  ASSUME PlanInv, Surroundings
  PROVE  PlanInv'
<1>1. planner \in [Planner -> Kinds]
  BY DEF PlanInv, PlanTyped, Kinds
<1>2. /\ planner' \in [Planner -> Kinds]
      /\ \A q \in Planner :
           /\ planner'[q].pc = planner[q].pc
           /\ planner[q].pc \notin Replaying => planner'[q] = planner[q]
           /\ planner[q].pc \in Replaying =>
                ~planner'[q].calm /\ planner'[q].plan = planner[q].plan /\ planner'[q].left = planner[q].left
  <2>1. planner' = Disturbed(planner, NoPlanner) /\ \A q \in Planner : q # NoPlanner
    BY FullStackAssumption DEF Surroundings
  <2>2. PICK g, n : g = planner /\ n = NoPlanner
    OBVIOUS
  <2>3. /\ Disturbed(g, n) \in [Planner -> Kinds]
        /\ \A q \in Planner :
             /\ Disturbed(g, n)[q].pc = g[q].pc
             /\ q = n \/ g[q].pc \notin Replaying => Disturbed(g, n)[q] = g[q]
             /\ q # n /\ g[q].pc \in Replaying =>
                  /\ ~Disturbed(g, n)[q].calm /\ Disturbed(g, n)[q].plan = g[q].plan
                  /\ Disturbed(g, n)[q].left = g[q].left
    BY <1>1, <2>2, DisturbedFacts
  <2> QED
    BY <2>1, <2>2, <2>3
<1>3. plan' = plan /\ outputs' = outputs
  BY DEF Surroundings
<1>4. /\ planSpent' \in [plans : Nat, changes : Nat, kills : Nat, overlap : BOOLEAN]
      /\ planSpent'.overlap <=> planSpent.overlap
  BY DEF Surroundings, PlanInv, PlanTyped
<1>5. slot' \in [Slot -> {"ready", "blocked", "drifted", "moved"}] /\ slot'["model"] \in {"ready", "drifted"}
  <2>1. slot \in [Slot -> {"ready", "blocked", "drifted", "moved"}] /\ slot["model"] \in {"ready", "drifted"}
    BY DEF PlanInv, PlanTyped
  <2>2. slot' = slot \/ \E s \in Slot : \E state \in Altered(s) : slot' = [slot EXCEPT ![s] = state]
    BY DEF Surroundings
  <2>3. ASSUME NEW s \in Slot, NEW state \in Altered(s), slot' = [slot EXCEPT ![s] = state]
        PROVE  /\ slot' \in [Slot -> {"ready", "blocked", "drifted", "moved"}]
               /\ slot'["model"] \in {"ready", "drifted"}
    <3>1. state \in {"drifted", "moved"} /\ (s = "model" => state = "drifted")
      BY <2>3 DEF Altered
    <3> QED
      BY <2>1, <2>3, <3>1 DEF Slot
  <2> QED
    BY <2>1, <2>2, <2>3
<1>6. contract' \in Contracts /\ generator' \in Nat
  BY DEF Surroundings, PlanInv, PlanTyped, Contracts
<1>7. PlanTyped'
  <2>1. plan' \in FullPlan \cup {NoFullPlan} /\ outputs' \in [Output -> [sources : SourceList, contract : Contracts] \cup {NoFile}]
    BY <1>3 DEF PlanInv, PlanTyped
  <2> QED
    BY <1>2, <1>4, <1>5, <1>6, <2>1 DEF PlanTyped, Kinds
<1>8. \A pc \in Writing : pc \notin Replaying
  BY DEF Replaying, Writing
<1>9. \A q \in Planner : ReplayOK(planner[q])'
  BY <1>2 DEF PlanInv, ReplayOK
<1>10. PlansNameBlockers'
  BY <1>2, <1>3, <1>8 DEF PlanInv, PlansNameBlockers
<1>11. WrittenInOrder'
  <2> SUFFICES ASSUME ~planSpent.overlap PROVE (OneWriter /\ (\A q \in Planner : WriterOK(planner[q])) /\ RevokedBeforeRemoved)'
    BY <1>4 DEF WrittenInOrder
  <2>1. OneWriter /\ (\A q \in Planner : WriterOK(planner[q])) /\ RevokedBeforeRemoved
    BY DEF PlanInv, WrittenInOrder
  <2>2. OneWriter'
    BY <1>2, <2>1 DEF OneWriter
  <2>3. \A q \in Planner : WriterOK(planner[q])'
    BY <1>2, <1>3, <1>8, <2>1 DEF WriterOK, Writing
  <2>4. RevokedBeforeRemoved'
    BY <1>3, <1>4, <2>1 DEF RevokedBeforeRemoved
  <2> QED
    BY <2>2, <2>3, <2>4
<1> QED
  BY <1>7, <1>9, <1>10, <1>11 DEF PlanInv

LEMMA PlanStep ==
  ASSUME PlanInv, [FullStackNext]_planVars
  PROVE  PlanInv'
<1>1. CASE Surroundings
  BY <1>1, SurroundingsSafe
<1>2. ASSUME NEW p \in Planner, PlannerStep(p) PROVE PlanInv'
  <2>1. CASE \E sources \in SourceList, mode \in Mode : StartPlan(p, sources, mode)
    BY <2>1, StartPlanSafe
  <2>2. CASE \E s \in Slot : ProbeSlot(p, s) \/ ReplaySlot(p, s)
    BY <2>2, ProbeSlotSafe, ReplaySlotSafe
  <2>3. CASE \E o \in Output : RemoveStale(p, o) \/ RenderFile(p, o) \/ CompareFile(p, o)
    BY <2>3, RemoveStaleSafe, RenderFileSafe, CompareFileSafe
  <2>4. CASE Decide(p) \/ Revoke(p) \/ Persist(p) \/ StartReplay(p) \/ ReplayBlockers(p) \/ Grant(p)
    BY <2>4, DecideSafe, RevokeSafe, PersistSafe, StartReplaySafe, ReplayBlockersSafe, GrantSafe
  <2>5. CASE RemovedStale(p)
    BY <2>5, ReplayEnds DEF RemovedStale
  <2>6. CASE Launch(p)
    BY <2>6, ReplayEnds DEF Launch
  <2>7. CASE KillPlanner(p)
    <3>1. /\ planSpent' \in [plans : Nat, changes : Nat, kills : Nat, overlap : BOOLEAN]
          /\ planSpent'.overlap = planSpent.overlap
      BY <2>7 DEF KillPlanner, PlanInv, PlanTyped
    <3> QED
      BY <2>7, <3>1, EndStep DEF KillPlanner
  <2> QED
    BY <1>2, <2>1, <2>2, <2>3, <2>4, <2>5, <2>6, <2>7 DEF PlannerStep
<1>3. CASE UNCHANGED planVars
  BY <1>3 DEF planVars, PlanInv, PlanTyped, ReplayOK, StillSo, Blockers, ReceiptError, PlansNameBlockers,
              WrittenInOrder, OneWriter, WriterOK, RevokedBeforeRemoved
<1> QED
  BY <1>1, <1>2, <1>3 DEF FullStackNext

LEMMA PlanMeans ==
  ASSUME PlanInv
  PROVE  GrantIsCurrent /\ BlockedNeverLaunches /\ RevokedBeforeRemoved
<1>1. RevokedBeforeRemoved
  BY DEF PlanInv, WrittenInOrder, RevokedBeforeRemoved
<1>2. ASSUME NEW p \in Planner, planner[p].pc = "granted"
      PROVE  /\ \A s \in Slot : planner[p].plan.checks[s] = "ready"
             /\ planner[p].plan.blockers = {} /\ planner[p].left = {}
             /\ planner[p].plan.mode = "authorize_launch"
             /\ planner[p].calm => StillSo(planner[p])
  <2>1. ReplayOK(planner[p])
    BY DEF PlanInv
  <2> QED
    BY <1>2, <2>1 DEF ReplayOK, NamesBlockers, Replaying
<1>3. BlockedNeverLaunches
  BY <1>2 DEF BlockedNeverLaunches, PAt, Slot
<1>4. GrantIsCurrent
  <2> SUFFICES ASSUME NEW p \in Planner, planner[p].pc = "granted", planner[p].calm
               PROVE  /\ slot["runtime"] = "ready" /\ slot["model"] = "ready"
                      /\ ~BatchError(contract, planner[p].plan.sources)
                      /\ \A o \in Output : outputs[o] = Bundle(planner[p].plan)
                      /\ contract = planner[p].plan.contract /\ generator = planner[p].plan.generator
    BY DEF GrantIsCurrent, PAt
  <2>1. /\ \A s \in Slot : planner[p].plan.checks[s] = "ready"
        /\ planner[p].plan.blockers = {} /\ planner[p].left = {} /\ StillSo(planner[p])
    BY <1>2
  <2>2. /\ \A s \in Slot : ProbeStatus(slot[s]) = "ready"
        /\ Blockers(planner[p].plan.checks, planner[p].plan.contract, planner[p].plan.sources) = {}
        /\ \A o \in Output : outputs[o] = Bundle(planner[p].plan)
        /\ planner[p].plan.contract = contract /\ planner[p].plan.generator = generator
    BY <2>1 DEF StillSo
  <2>3. ~ReceiptError(slot["runtime"]) /\ ~BatchError(contract, planner[p].plan.sources)
    BY <2>1, <2>2 DEF Blockers, Slot
  <2>4. slot["runtime"] \in {"ready", "moved"} /\ slot["model"] \in {"ready", "moved"}
    BY <2>2 DEF ProbeStatus, Slot
  <2>5. slot["runtime"] = "ready" /\ slot["model"] = "ready"
    BY <2>3, <2>4 DEF ReceiptError, PlanInv, PlanTyped
  <2> QED
    BY <2>2, <2>3, <2>5
<1> QED
  BY <1>1, <1>3, <1>4

-----------------------------------------------------------------------------
(* The runs of the scene matrix                                            *)

\* A busy runner works on the cells below the lock; measuring ones have a container.
Cells == {"choose", "archive", "announce", "start", "attest", "poll", "freeze", "stop", "conclude"}
Measured == {"start", "attest", "poll", "freeze", "stop", "conclude"}
WithLog == {"attest", "poll", "freeze", "stop", "conclude"}
Containing == {"attest", "poll", "freeze", "stop"}
Busy == {"gates"} \cup Cells
Pcs == {"idle", "generate", "report"} \cup Busy

States == {"pending", "running", "complete", "failed", "interrupted", "safety_abort"}
Statuses == [state : States, attempt : Nat, fingerprint : Nat, steady : BOOLEAN]
Directories == [status : Statuses, log : Nat, runtime : Nat,
                config : [fingerprint : Nat, by : {"nobody", "generator", "runner"}]]
Phases == {"starting", "warm-up", "boundary", "measuring"}
Reasons == {"none", "failed", "safety", "interrupted"}
Windows == [phase : Phases, late : {"no", "due", "over"}, rows : Nat, cold : Nat, boundary : Nat,
            from : Nat, to : Nat, calm : Nat, complete : BOOLEAN, reason : Reasons]
Seens == [state : States, fingerprint : Nat]
Views == [Cell -> Seens] \cup {<<>>}
Works == [pc : Pcs, cell : Nat, force : BOOLEAN, fingerprint : Nat, attempt : Nat, moving : SUBSET Name,
          view : Views, after : {"leave", "next", "last"}, window : Windows]

MatrixTyped ==
  /\ lastCell \in Nat \ {0}
  /\ runner \in [Runner -> Works]
  /\ gpuLock \in Runner \cup {NoRunner}
  /\ files \in [Cell -> Directories]
  /\ containers \subseteq Nat /\ lingering \subseteq Nat
  /\ matrixInputs \in Nat
  /\ summary \in Views
  /\ doubtful \in BOOLEAN
  /\ used \in [starts : Nat, kills : Nat, attempts : Nat]

\* Who works on cells, and who reports for a campaign that goes on, holds the lock.
LockHeld ==
  \A r \in Runner :
    /\ runner[r].pc \in Busy => gpuLock = r
    /\ runner[r].pc = "report" /\ runner[r].after # "leave" => gpuLock = r
    /\ gpuLock = r => runner[r].pc \notin {"idle", "generate"}
    /\ runner[r].pc \in Cells \cup {"generate"} => runner[r].cell \in Cell

\* The rows of the measurement that is under way.
WindowOK(w, pc) ==
  /\ w.cold <= w.rows
  /\ w.phase = "starting" => w.cold = 0
  /\ w.phase = "boundary" => w.cold <= w.boundary
  /\ w.phase = "measuring" => w.cold < w.from
  /\ w.complete => w.cold < w.from /\ w.to - w.from >= Requested /\ w.to <= w.rows
  /\ w.complete => pc \in {"freeze", "stop", "conclude"}
  /\ w.complete /\ pc \in {"stop", "conclude"} => w.to <= w.calm

\* What lies in the directory of the cell that a runner works on.
CellOK(w, d) ==
  /\ w.pc = "archive" =>
       /\ d.status # NoStatus => "status" \in w.moving
       /\ d.log # 0 => "log" \in w.moving
       /\ d.runtime # 0 => "runtime" \in w.moving
  /\ w.pc = "announce" => d.status = NoStatus
  /\ w.pc \in {"announce", "start"} => d.log = 0
  /\ w.pc \in {"announce", "start", "attest"} => d.runtime = 0
  /\ w.pc \in Measured =>
       d.status.state = "running" /\ d.status.attempt = w.attempt /\ w.attempt # 0
  /\ w.pc \in WithLog => d.log = w.attempt
  /\ w.pc = "poll" \/ (w.pc \in WithLog /\ w.window.complete) => d.runtime = w.attempt
  /\ w.pc \in {"announce"} \cup Measured /\ d.config.by = "runner" =>
       d.config.fingerprint = w.fingerprint

RunnersOK ==
  \A r \in Runner :
    /\ WindowOK(runner[r].window, runner[r].pc)
    /\ runner[r].pc \in Cells => CellOK(runner[r], files[runner[r].cell])

\* A container that somebody still means to stop is the one of the campaign.
ContainersOwned ==
  \A a \in containers \ lingering :
    \E r \in Runner : runner[r].pc \in Containing /\ runner[r].attempt = a

\* What the summary says, now.
SummaryMatches ==
  IF summary = <<>> THEN \A c \in Cell : files[c].status = NoStatus
  ELSE \A c \in Cell : summary[c] = Seen(files[c].status)

\* Up to the first cell a campaign finds the summary as the last one left it, and what its
\* holder has read of the statuses stays so until it is written.
SummaryFollows ==
  /\ ~doubtful /\ (gpuLock = NoRunner \/ runner[gpuLock].pc = "gates") => SummaryMatches
  /\ \A r \in Runner : runner[r].pc = "report" /\ gpuLock = r /\ runner[r].view # <<>> =>
       \A c \in Cell : runner[r].view[c] = Seen(files[c].status)

\* A complete run is steady, and its files are those of one attempt.
Good(d) ==
  d.status.state = "complete" =>
    /\ d.status.steady /\ d.log = d.status.attempt /\ d.runtime = d.status.attempt
    /\ d.config.by = "runner" => d.config.fingerprint = d.status.fingerprint

MatrixInv ==
  /\ MatrixTyped /\ LockHeld /\ RunnersOK /\ ContainersOwned /\ SummaryFollows
  /\ \A c \in Cell : Good(files[c])

-----------------------------------------------------------------------------
\* What a command without the lock leaves alone.
Kept(d, e) ==
  /\ e.status = d.status /\ e.log = d.log /\ e.runtime = d.runtime
  /\ e.config = d.config \/ e.config.by = "generator"

\* A step of r: what it has to show of its own state and of what it changes.
LEMMA MatrixGoes ==
  ASSUME MatrixInv, NEW r \in Runner, NEW x \in Works, MatrixTyped',
         lastCell' = lastCell, runner' = [runner EXCEPT ![r] = x],
         \/ gpuLock' = gpuLock
         \/ gpuLock = r /\ gpuLock' = NoRunner
         \/ gpuLock = NoRunner /\ gpuLock' = r,
         x.pc \in Busy => gpuLock' = r,
         x.pc = "report" /\ x.after # "leave" => gpuLock' = r,
         gpuLock' = r => x.pc \notin {"idle", "generate"},
         x.pc \in Cells \cup {"generate"} => x.cell \in Cell,
         WindowOK(x.window, x.pc),
         x.pc \in Cells => CellOK(x, files'[x.cell]),
         gpuLock = r \/ \A c \in Cell : Kept(files[c], files'[c]),
         \A a \in containers' \ lingering' : a \in containers \ lingering \/ (x.pc \in Containing /\ x.attempt = a),
         runner[r].pc \in Containing /\ runner[r].attempt \in containers' \ lingering' =>
           x.pc \in Containing /\ x.attempt = runner[r].attempt,
         ~doubtful' /\ (gpuLock' = NoRunner \/ runner'[gpuLock'].pc = "gates") => SummaryMatches',
         x.pc = "report" /\ gpuLock' = r /\ x.view # <<>> =>
           \A c \in Cell : x.view[c] = Seen(files'[c].status),
         \A c \in Cell : files'[c] = files[c] \/ Good(files'[c])
  PROVE  MatrixInv'
<1>1. runner \in [Runner -> Works] /\ runner' \in [Runner -> Works] /\ NoRunner \notin Runner /\ Cell' = Cell
  BY MatrixAssumption DEF MatrixInv, MatrixTyped, Cell
<1>2. runner'[r] = x /\ \A q \in Runner : q # r => runner'[q] = runner[q]
  BY <1>1
<1>3. \A q \in Runner : q # r => (gpuLock' = q <=> gpuLock = q)
  BY <1>1
<1>4. LockHeld'
  BY <1>1, <1>2, <1>3 DEF MatrixInv, LockHeld
<1>5. ASSUME NEW q \in Runner, q # r, runner[q].pc \in Cells
      PROVE  CellOK(runner[q], files'[runner[q].cell])
  <2>1. gpuLock = q /\ runner[q].cell \in Cell /\ CellOK(runner[q], files[runner[q].cell])
    BY <1>5 DEF MatrixInv, LockHeld, Busy, RunnersOK
  <2>2. Kept(files[runner[q].cell], files'[runner[q].cell])
    BY <1>5, <2>1
  <2> QED
    BY <2>1, <2>2 DEF CellOK, Kept
<1>6. RunnersOK'
  <2> SUFFICES ASSUME NEW q \in Runner
               PROVE  /\ WindowOK(runner'[q].window, runner'[q].pc)
                      /\ runner'[q].pc \in Cells => CellOK(runner'[q], files'[runner'[q].cell])
    BY DEF RunnersOK, WindowOK, CellOK
  <2>1. CASE q = r
    BY <1>2, <2>1
  <2>2. CASE q # r
    BY <1>2, <1>5, <2>2 DEF MatrixInv, RunnersOK
  <2> QED
    BY <2>1, <2>2
<1>7. ContainersOwned'
  <2> SUFFICES ASSUME NEW a \in containers' \ lingering'
               PROVE  \E q \in Runner : runner'[q].pc \in Containing /\ runner'[q].attempt = a
    BY DEF ContainersOwned
  <2>1. CASE x.pc \in Containing /\ x.attempt = a
    BY <1>2, <2>1
  <2>2. CASE a \in containers \ lingering
    <3>1. PICK q \in Runner : runner[q].pc \in Containing /\ runner[q].attempt = a
      BY <2>2 DEF MatrixInv, ContainersOwned
    <3> QED
      BY <1>2, <3>1
  <2> QED
    BY <2>1, <2>2
<1>8. SummaryFollows'
  <2>1. ASSUME NEW q \in Runner, runner'[q].pc = "report", gpuLock' = q, runner'[q].view # <<>>
        PROVE  \A c \in Cell : runner'[q].view[c] = Seen(files'[c].status)
    <3>1. CASE q = r
      BY <1>2, <2>1, <3>1
    <3>2. CASE q # r
      <4>1. gpuLock = q /\ runner[q] = runner'[q]
        BY <1>2, <1>3, <2>1, <3>2
      <4>2. \A c \in Cell : runner[q].view[c] = Seen(files[c].status)
        BY <2>1, <4>1 DEF MatrixInv, SummaryFollows
      <4>3. \A c \in Cell : files'[c].status = files[c].status
        BY <3>2, <4>1 DEF Kept
      <4> QED
        BY <4>1, <4>2, <4>3
    <3> QED
      BY <3>1, <3>2
  <2> QED
    BY <1>1, <2>1 DEF SummaryFollows, Seen
<1>9. \A c \in Cell : Good(files'[c])
  BY DEF MatrixInv
<1> QED
  BY <1>1, <1>4, <1>6, <1>7, <1>8, <1>9 DEF MatrixInv, Good

\* The summary of a state stays what it is when nothing is written.
LEMMA SummaryStays ==
  ASSUME MatrixInv, lastCell' = lastCell, UNCHANGED <<summary, doubtful>>,
         \A c \in Cell : files'[c].status = files[c].status,
         gpuLock' = NoRunner \/ runner'[gpuLock'].pc = "gates" =>
           gpuLock = NoRunner \/ runner[gpuLock].pc = "gates"
  PROVE  ~doubtful' /\ (gpuLock' = NoRunner \/ runner'[gpuLock'].pc = "gates") => SummaryMatches'
<1>1. Cell' = Cell
  BY DEF Cell
<1> QED
  BY <1>1 DEF MatrixInv, SummaryFollows, SummaryMatches, Seen

\* A step of r that leaves the files, the containers and the summary alone.
LEMMA QuietRunner ==
  ASSUME MatrixInv, NEW r \in Runner, NEW x \in Works,
         runner' = [runner EXCEPT ![r] = x], KeepFiles,
         matrixInputs' = matrixInputs, used' \in [starts : Nat, kills : Nat, attempts : Nat],
         \/ gpuLock' = gpuLock
         \/ gpuLock = r /\ gpuLock' = NoRunner /\ runner[r].pc = "gates"
         \/ gpuLock = NoRunner /\ gpuLock' = r,
         x.pc \in Busy => gpuLock' = r,
         x.pc = "report" /\ x.after # "leave" => gpuLock' = r,
         gpuLock' = r => x.pc \notin {"idle", "generate"},
         x.pc \in Cells \cup {"generate"} => x.cell \in Cell,
         x.pc = "gates" => gpuLock = NoRunner,
         WindowOK(x.window, x.pc),
         x.pc \in Cells => CellOK(x, files[x.cell]),
         runner[r].pc \in Containing => x.pc \in Containing /\ x.attempt = runner[r].attempt,
         x.pc = "report" /\ gpuLock' = r /\ x.view # <<>> =>
           \A c \in Cell : x.view[c] = Seen(files[c].status)
  PROVE  MatrixInv'
<1>1. /\ runner \in [Runner -> Works] /\ NoRunner \notin Runner /\ gpuLock \in Runner \cup {NoRunner}
      /\ UNCHANGED <<lastCell, files, containers, lingering, summary, doubtful>>
  BY MatrixAssumption DEF MatrixInv, MatrixTyped, KeepFiles
<1>2. MatrixTyped'
  BY <1>1 DEF MatrixInv, MatrixTyped, Cell, Views, Works
<1>3. gpuLock' = NoRunner \/ runner'[gpuLock'].pc = "gates" =>
        gpuLock = NoRunner \/ runner[gpuLock].pc = "gates"
  BY <1>1
<1>4. ~doubtful' /\ (gpuLock' = NoRunner \/ runner'[gpuLock'].pc = "gates") => SummaryMatches'
  BY <1>1, <1>3, SummaryStays
<1>5. \A c \in Cell : Kept(files[c], files'[c])
  BY <1>1 DEF Kept
<1>6. x.pc \in Cells => CellOK(x, files'[x.cell])
  BY <1>1
<1>7. x.pc = "report" /\ gpuLock' = r /\ x.view # <<>> =>
           \A c \in Cell : x.view[c] = Seen(files'[c].status)
  BY <1>1
<1>8. /\ \A a \in containers' \ lingering' : a \in containers \ lingering \/ (x.pc \in Containing /\ x.attempt = a)
      /\ runner[r].pc \in Containing /\ runner[r].attempt \in containers' \ lingering' =>
           x.pc \in Containing /\ x.attempt = runner[r].attempt
      /\ \A c \in Cell : files'[c] = files[c] \/ Good(files'[c])
      /\ gpuLock = r \/ \A c \in Cell : Kept(files[c], files'[c])
      /\ lastCell' = lastCell
  BY <1>1, <1>5
<1>9. \/ gpuLock' = gpuLock
      \/ gpuLock = r /\ gpuLock' = NoRunner
      \/ gpuLock = NoRunner /\ gpuLock' = r
  OBVIOUS
<1> QED
  BY <1>2, <1>4, <1>6, <1>7, <1>8, <1>9, MatrixGoes

LEMMA NoWindowOK == NoWindow \in Windows /\ \A pc : WindowOK(NoWindow, pc)
BY MatrixAssumption DEF NoWindow, Windows, WindowOK, Phases, Reasons

LEMMA NoWorkOK ==
  /\ NoWork \in Works /\ NoWork.pc = "idle" /\ NoWork.window = NoWindow
  /\ NoWork.view = <<>> /\ NoWork.after = "leave" /\ NoWork.cell = 0 /\ NoWork.moving = {}
BY NoWindowOK DEF NoWork, Works, Pcs, Views

\* The state of a runner that starts to report.
Reporting(r, after) ==
  [NoWork EXCEPT !.pc = "report", !.cell = CellOf(r), !.force = runner[r].force, !.after = after]

LEMMA ReportingOK ==
  ASSUME MatrixTyped, NEW r \in Runner, NEW after \in {"leave", "next", "last"}
  PROVE  /\ Reporting(r, after) \in Works
         /\ Reporting(r, after).pc = "report" /\ Reporting(r, after).after = after
         /\ Reporting(r, after).view = <<>>
         /\ \A pc : WindowOK(Reporting(r, after).window, pc)
         /\ Report(r, after) <=> runner' = [runner EXCEPT ![r] = Reporting(r, after)]
<1>1. runner[r] \in Works
  BY DEF MatrixTyped
<1>2. runner[r].cell \in Nat /\ runner[r].force \in BOOLEAN
  BY <1>1 DEF Works
<1>3. PICK n, w : n = NoWork /\ w = NoWindow
  OBVIOUS
<1>4. n \in Works /\ n.window = w /\ n.view = <<>> /\ \A pc : WindowOK(w, pc)
  BY <1>3, NoWorkOK, NoWindowOK
<1>5. PICK x : x = [n EXCEPT !.pc = "report", !.cell = runner[r].cell, !.force = runner[r].force, !.after = after]
  OBVIOUS
<1>6. x = Reporting(r, after)
  BY <1>3, <1>5 DEF Reporting, CellOf
<1>7. x \in Works /\ x.pc = "report" /\ x.after = after /\ x.view = <<>> /\ x.window = w
  BY <1>2, <1>4, <1>5 DEF Works, Pcs
<1>8. Report(r, after) <=> runner' = [runner EXCEPT ![r] = Reporting(r, after)]
  BY DEF Report, Reporting
<1> QED
  BY <1>4, <1>6, <1>7, <1>8

LEMMA UsedTyped == MatrixInv => used \in [starts : Nat, kills : Nat, attempts : Nat]
BY DEF MatrixInv, MatrixTyped

\* What the invariant says of one runner.
LEMMA RunnerFacts ==
  ASSUME MatrixInv, NEW r \in Runner
  PROVE  /\ runner[r] \in Works
         /\ runner[r].pc \in Busy => gpuLock = r
         /\ runner[r].pc = "report" /\ runner[r].after # "leave" => gpuLock = r
         /\ gpuLock = r => runner[r].pc \notin {"idle", "generate"}
         /\ runner[r].pc \in Cells \cup {"generate"} => runner[r].cell \in Cell
         /\ WindowOK(runner[r].window, runner[r].pc)
         /\ runner[r].pc \in Cells => CellOK(runner[r], files[runner[r].cell])
         /\ \A c \in Cell : files[c] \in Directories /\ Good(files[c])
BY DEF MatrixInv, MatrixTyped, LockHeld, RunnersOK

LEMMA ReportGoes ==
  ASSUME MatrixInv, NEW r \in Runner, NEW after \in {"leave", "next", "last"}, Report(r, after),
         KeepFiles, UNCHANGED <<gpuLock, matrixInputs, used>>,
         runner[r].pc \notin Containing, after # "leave" => gpuLock = r
  PROVE  MatrixInv'
<1>1. PICK x : x = Reporting(r, after)
  OBVIOUS
<1>2. /\ x \in Works /\ x.pc = "report" /\ x.after = after /\ x.view = <<>> /\ WindowOK(x.window, x.pc)
      /\ runner' = [runner EXCEPT ![r] = x]
  BY <1>1, ReportingOK DEF MatrixInv
<1>3. x.pc \notin Busy /\ x.pc \notin Cells \cup {"generate"} /\ x.pc \notin {"idle", "generate"} /\ x.pc # "gates"
  BY <1>2 DEF Busy, Cells
<1>4. gpuLock' = gpuLock /\ matrixInputs' = matrixInputs /\ used' \in [starts : Nat, kills : Nat, attempts : Nat]
  BY UsedTyped
<1> QED
  BY <1>2, <1>3, <1>4, QuietRunner

LEMMA StartingUses ==
  ASSUME MatrixInv, NEW r \in Runner, Starting(r)
  PROVE  /\ runner[r].pc = "idle" /\ KeepFiles /\ matrixInputs' = matrixInputs
         /\ used' \in [starts : Nat, kills : Nat, attempts : Nat]
BY DEF MatrixInv, MatrixTyped, Starting, RAt

LEMMA StartUnlockedSafe ==
  ASSUME MatrixInv, NEW r \in Runner, StartUnlocked(r)
  PROVE  MatrixInv'
<1>1. /\ runner[r].pc = "idle" /\ KeepFiles /\ matrixInputs' = matrixInputs
      /\ used' \in [starts : Nat, kills : Nat, attempts : Nat]
  BY StartingUses DEF StartUnlocked
<1>2. gpuLock' = gpuLock /\ gpuLock # r
  BY <1>1, RunnerFacts DEF StartUnlocked
<1>3. PICK n : n = NoWork
  OBVIOUS
<1>4. n \in Works /\ n.window = NoWindow /\ n.view = <<>> /\ n.after = "leave"
  BY <1>3, NoWorkOK
<1>5. PICK x : /\ x = [n EXCEPT !.pc = "generate", !.cell = 1] \/ x = [n EXCEPT !.pc = "report"]
               /\ runner' = [runner EXCEPT ![r] = x]
  BY <1>3 DEF StartUnlocked
<1>6. /\ x \in Works /\ x.window = NoWindow /\ x.view = <<>> /\ x.after = "leave"
      /\ x.pc \in {"generate", "report"} /\ (x.pc = "generate" => x.cell = 1)
  <2>1. CASE x = [n EXCEPT !.pc = "generate", !.cell = 1]
    BY <1>4, <2>1 DEF Works, Pcs
  <2>2. CASE x = [n EXCEPT !.pc = "report"]
    BY <1>4, <2>2 DEF Works, Pcs
  <2> QED
    BY <1>5, <2>1, <2>2
<1>7. 1 \in Cell
  BY DEF MatrixInv, MatrixTyped, Cell
<1>8. /\ x.pc \notin Busy /\ x.pc \notin Cells /\ runner[r].pc \notin Containing /\ x.pc # "gates"
      /\ WindowOK(x.window, x.pc)
  BY <1>1, <1>6, NoWindowOK DEF Busy, Cells, Containing
<1> QED
  BY <1>1, <1>2, <1>5, <1>6, <1>7, <1>8, QuietRunner

LEMMA StartCampaignSafe ==
  ASSUME MatrixInv, NEW r \in Runner, StartCampaign(r)
  PROVE  MatrixInv'
<1>1. /\ runner[r].pc = "idle" /\ KeepFiles /\ matrixInputs' = matrixInputs
      /\ used' \in [starts : Nat, kills : Nat, attempts : Nat]
  BY StartingUses DEF StartCampaign
<1>2. gpuLock = NoRunner /\ gpuLock' = r
  BY DEF StartCampaign
<1>3. PICK n : n = NoWork
  OBVIOUS
<1>4. n \in Works /\ n.window = NoWindow /\ n.view = <<>>
  BY <1>3, NoWorkOK
<1>5. PICK force \in BOOLEAN : runner' = [runner EXCEPT ![r] = [n EXCEPT !.pc = "gates", !.force = force]]
  BY <1>3 DEF StartCampaign, Forces
<1>6. PICK x : x = [n EXCEPT !.pc = "gates", !.force = force]
  OBVIOUS
<1>7. x \in Works /\ x.window = NoWindow /\ x.pc = "gates"
  BY <1>4, <1>6 DEF Works, Pcs, Busy
<1>8. /\ x.pc \notin Cells \cup {"generate"} /\ runner[r].pc \notin Containing
      /\ WindowOK(x.window, x.pc) /\ x.pc # "report" /\ x.pc \notin {"idle", "generate"}
  BY <1>1, <1>7, NoWindowOK DEF Cells, Containing
<1> QED
  BY <1>1, <1>2, <1>5, <1>6, <1>7, <1>8, QuietRunner

LEMMA GatesSafe ==
  ASSUME MatrixInv, NEW r \in Runner, Gates(r)
  PROVE  MatrixInv'
<1>1. runner[r].pc = "gates" /\ runner[r] \in Works /\ gpuLock = r /\ WindowOK(runner[r].window, "gates")
  BY RunnerFacts DEF Gates, RAt, Busy
<1>2. KeepFiles /\ UNCHANGED <<matrixInputs, used>> /\ used' \in [starts : Nat, kills : Nat, attempts : Nat]
  BY UsedTyped DEF Gates
<1>3. runner[r].pc \notin Containing
  BY <1>1 DEF Containing
<1>4. CASE runner' = [runner EXCEPT ![r].pc = "choose", ![r].cell = 1] /\ UNCHANGED gpuLock
  <2>1. PICK x : x = [runner[r] EXCEPT !.pc = "choose", !.cell = 1]
    OBVIOUS
  <2>2. x \in Works /\ x.pc = "choose" /\ x.cell = 1 /\ x.window = runner[r].window
    BY <1>1, <2>1 DEF Works, Pcs, Busy, Cells
  <2>3. runner' = [runner EXCEPT ![r] = x]
    BY <1>4, <2>1 DEF MatrixInv, MatrixTyped
  <2>4. 1 \in Cell
    BY DEF MatrixInv, MatrixTyped, Cell
  <2>5. WindowOK(x.window, x.pc)
    BY <1>1, <2>2 DEF WindowOK
  <2>6. CellOK(x, files[x.cell])
    BY <2>2 DEF CellOK, Measured, WithLog
  <2> QED
    BY <1>1, <1>2, <1>3, <1>4, <2>2, <2>3, <2>4, <2>5, <2>6, QuietRunner
<1>5. CASE Report(r, "leave") /\ UNCHANGED gpuLock
  BY <1>2, <1>3, <1>5, ReportGoes
<1>6. CASE runner' = [runner EXCEPT ![r] = NoWork] /\ gpuLock' = NoRunner
  <2>1. PICK x : x = NoWork
    OBVIOUS
  <2>2. x \in Works /\ x.pc = "idle" /\ x.window = NoWindow
    BY <2>1, NoWorkOK
  <2>3. x.pc \notin Busy /\ x.pc \notin Cells \cup {"generate"} /\ WindowOK(x.window, x.pc)
    BY <2>2, NoWindowOK DEF Busy, Cells
  <2>4. r # NoRunner
    BY MatrixAssumption
  <2> QED
    BY <1>1, <1>2, <1>3, <1>6, <2>1, <2>2, <2>3, <2>4, QuietRunner
<1> QED
  BY <1>4, <1>5, <1>6 DEF Gates, PreflightVerdicts

LEMMA ExistingTyped ==
  ASSUME NEW c
  PROVE  /\ Existing(c) \subseteq Name
         /\ files[c].status # NoStatus => "status" \in Existing(c)
         /\ files[c].log # 0 => "log" \in Existing(c)
         /\ files[c].runtime # 0 => "runtime" \in Existing(c)
<1>1. Name = {"status", "log", "runtime", "config"}
  BY DEF Name, ArchiveRank
<1>2. /\ Exists(c, "status") <=> files[c].status # NoStatus
      /\ Exists(c, "log") <=> files[c].log # 0
      /\ Exists(c, "runtime") <=> files[c].runtime # 0
  BY DEF Exists
<1> QED
  BY <1>1, <1>2 DEF Existing

LEMMA ChooseSafe ==
  ASSUME MatrixInv, NEW r \in Runner, Choose(r)
  PROVE  MatrixInv'
<1>1. /\ runner[r].pc = "choose" /\ runner[r] \in Works /\ gpuLock = r /\ runner[r].cell \in Cell
      /\ WindowOK(runner[r].window, "choose")
  BY RunnerFacts DEF Choose, RAt, Busy, Cells
<1>2. KeepFiles /\ UNCHANGED <<gpuLock, matrixInputs, used>> /\ used' \in [starts : Nat, kills : Nat, attempts : Nat]
  BY UsedTyped DEF Choose
<1>3. runner[r].pc \notin Containing
  BY <1>1 DEF Containing
<1>4. CASE Report(r, "leave") \/ Report(r, "next")
  BY <1>1, <1>2, <1>3, <1>4, ReportGoes
<1>5. CASE runner' = [runner EXCEPT ![r].pc = "archive", ![r].fingerprint = Fingerprint,
                                    ![r].moving = Existing(CellOf(r))]
  <2>1. PICK m, c : c = runner[r].cell /\ m = Existing(c)
    OBVIOUS
  <2>2. /\ m \subseteq Name /\ (files[c].status # NoStatus => "status" \in m)
        /\ (files[c].log # 0 => "log" \in m) /\ (files[c].runtime # 0 => "runtime" \in m)
    BY <2>1, ExistingTyped
  <2>3. PICK x : x = [runner[r] EXCEPT !.pc = "archive", !.fingerprint = matrixInputs, !.moving = m]
    OBVIOUS
  <2>4. matrixInputs \in Nat
    BY DEF MatrixInv, MatrixTyped
  <2>5. x \in Works /\ x.pc = "archive" /\ x.cell = c /\ x.window = runner[r].window /\ x.moving = m
    BY <1>1, <2>1, <2>2, <2>3, <2>4 DEF Works, Pcs, Busy, Cells
  <2>6. runner' = [runner EXCEPT ![r] = x]
    BY <1>5, <2>1, <2>3 DEF MatrixInv, MatrixTyped, Fingerprint, CellOf
  <2>7. WindowOK(x.window, x.pc)
    BY <1>1, <2>5 DEF WindowOK
  <2>8. CellOK(x, files[x.cell])
    BY <2>2, <2>5 DEF CellOK, Measured, WithLog
  <2>9. x.pc \in Cells /\ x.pc \in Busy
    BY <2>5 DEF Cells, Busy
  <2> QED
    BY <1>1, <1>2, <1>3, <2>1, <2>5, <2>6, <2>7, <2>8, <2>9, QuietRunner
<1> QED
  BY <1>4, <1>5 DEF Choose

\* A busy runner goes on with another window, and with nothing else of its own.
LEMMA WindowGoes ==
  ASSUME MatrixInv, NEW r \in Runner, NEW w \in Windows, NEW pc \in {"poll", "freeze", "stop"},
         runner[r].pc \in {"poll", "freeze"}, KeepFiles, UNCHANGED <<gpuLock, matrixInputs, used>>,
         runner' = [runner EXCEPT ![r] = [runner[r] EXCEPT !.pc = pc, !.window = w]],
         WindowOK(w, pc), w.complete => runner[r].window.complete \/ runner[r].pc = "poll",
         pc = "poll" => runner[r].pc = "poll"
  PROVE  MatrixInv'
<1>1. /\ runner[r] \in Works /\ gpuLock = r /\ runner[r].cell \in Cell
      /\ CellOK(runner[r], files[runner[r].cell])
  BY RunnerFacts DEF Busy, Cells
<1>2. PICK x : x = [runner[r] EXCEPT !.pc = pc, !.window = w]
  OBVIOUS
<1>3. /\ x \in Works /\ x.pc = pc /\ x.window = w /\ x.cell = runner[r].cell /\ x.attempt = runner[r].attempt
      /\ x.fingerprint = runner[r].fingerprint
  BY <1>1, <1>2 DEF Works, Pcs, Busy, Cells
<1>4. CellOK(x, files[x.cell])
  BY <1>1, <1>3 DEF CellOK, Measured, WithLog
<1>5. x.pc \in Cells /\ x.pc \in Busy /\ x.pc \in Containing /\ x.pc # "gates" /\ x.pc # "report" /\ x.pc \notin {"idle", "generate"}
  BY <1>3 DEF Cells, Busy, Containing
<1>6. used' \in [starts : Nat, kills : Nat, attempts : Nat]
  BY UsedTyped
<1> QED
  BY <1>1, <1>2, <1>3, <1>4, <1>5, <1>6, QuietRunner

LEMMA RowSafe ==
  ASSUME MatrixInv, NEW r \in Runner, Row(r)
  PROVE  MatrixInv'
<1>1. /\ runner[r] \in Works /\ runner[r].window \in Windows /\ WindowOK(runner[r].window, runner[r].pc)
      /\ runner[r].pc = "poll" \/ runner[r].window.complete
  BY RunnerFacts DEF Row, RAt, WindowOf, Works
<1>2. PICK n \in Nat : n = runner[r].window.rows + 1
  BY <1>1 DEF Windows
<1>3. PICK w : w = [runner[r].window EXCEPT !.rows = n]
  OBVIOUS
<1>4. /\ w \in Windows /\ w.rows = n /\ w.phase = runner[r].window.phase /\ w.cold = runner[r].window.cold
      /\ w.boundary = runner[r].window.boundary /\ w.from = runner[r].window.from /\ w.to = runner[r].window.to
      /\ w.calm = runner[r].window.calm /\ (w.complete <=> runner[r].window.complete)
  BY <1>1, <1>3 DEF Windows
<1>5. WindowOK(w, runner[r].pc)
  <2>1. /\ runner[r].window.rows \in Nat /\ runner[r].window.cold \in Nat /\ runner[r].window.to \in Nat
        /\ runner[r].window.boundary \in Nat /\ runner[r].window.from \in Nat
    BY <1>1 DEF Windows
  <2> QED
    BY <1>1, <1>2, <1>4, <2>1 DEF WindowOK
<1>6. PICK x : x = [runner[r] EXCEPT !.window = w]
  OBVIOUS
<1>7. /\ x \in Works /\ x.pc = runner[r].pc /\ x.window = w /\ x.cell = runner[r].cell
      /\ x.attempt = runner[r].attempt /\ x.fingerprint = runner[r].fingerprint /\ x.moving = runner[r].moving
      /\ x.view = runner[r].view /\ x.after = runner[r].after
  BY <1>1, <1>4, <1>6 DEF Works
<1>8. runner' = [runner EXCEPT ![r] = x]
  BY <1>2, <1>3, <1>6 DEF Row, MatrixInv, MatrixTyped
<1>9. /\ gpuLock' = gpuLock /\ KeepFiles /\ matrixInputs' = matrixInputs
      /\ used' \in [starts : Nat, kills : Nat, attempts : Nat]
  BY UsedTyped DEF Row
<1>10. x.pc \in {"poll", "freeze", "stop", "conclude"}
  BY <1>1, <1>7 DEF WindowOK
<1>11. /\ gpuLock = r /\ runner[r].cell \in Cell /\ CellOK(runner[r], files[runner[r].cell])
       /\ x.pc \in Cells
  BY <1>7, <1>10, RunnerFacts DEF Busy, Cells
<1>12. CellOK(x, files[x.cell])
  BY <1>4, <1>7, <1>11 DEF CellOK
<1>13. x.pc # "gates" /\ x.pc # "report" /\ x.pc \notin {"idle", "generate"}
  BY <1>10
<1> QED
  BY <1>5, <1>7, <1>8, <1>9, <1>11, <1>12, <1>13, QuietRunner DEF Busy

LEMMA PassSafe ==
  ASSUME MatrixInv, NEW r \in Runner, Pass(r)
  PROVE  MatrixInv'
<1>1. /\ runner[r] \in Works /\ runner[r].window \in Windows /\ WindowOK(runner[r].window, "poll")
      /\ runner[r].pc = "poll"
  BY RunnerFacts DEF Pass, RAt, Works
<1> DEFINE v == runner[r].window
<1>2. PICK late \in {"due", "over"} : late = IF v.late = "no" THEN "due" ELSE "over"
  OBVIOUS
<1>3. PICK cold : cold = IF v.phase = "warm-up" /\ v.late = "no" THEN v.rows ELSE v.cold
  OBVIOUS
<1>4. cold \in Nat /\ cold <= v.rows /\ (v.phase # "warm-up" => cold = v.cold)
  BY <1>1, <1>3 DEF Windows, WindowOK
<1>5. PICK w : w = [v EXCEPT !.late = late, !.cold = cold]
  OBVIOUS
<1>6. /\ w \in Windows /\ w.rows = v.rows /\ w.phase = v.phase /\ w.cold = cold /\ w.boundary = v.boundary
      /\ w.from = v.from /\ w.to = v.to /\ w.calm = v.calm /\ (w.complete <=> v.complete)
  BY <1>1, <1>4, <1>5 DEF Windows
<1>7. WindowOK(w, "poll")
  BY <1>1, <1>4, <1>6 DEF WindowOK
<1>8. runner' = [runner EXCEPT ![r] = [runner[r] EXCEPT !.pc = "poll", !.window = w]]
  <2>1. runner' = [runner EXCEPT ![r] = [runner[r] EXCEPT !.window = w]]
    BY <1>2, <1>3, <1>5 DEF Pass, WindowOf, MatrixInv, MatrixTyped
  <2>2. [runner[r] EXCEPT !.window = w] = [runner[r] EXCEPT !.pc = "poll", !.window = w]
    BY <1>1 DEF Works
  <2> QED
    BY <2>1, <2>2
<1>9. KeepFiles /\ UNCHANGED <<gpuLock, matrixInputs, used>>
  BY DEF Pass
<1>10. ~w.complete
  BY <1>7 DEF WindowOK
<1> QED
  BY <1>1, <1>6, <1>7, <1>8, <1>9, <1>10, WindowGoes

\* What one poll makes of a window.
LEMMA PollRowsOK ==
  ASSUME NEW w \in Windows, WindowOK(w, "poll"), NEW enough \in BOOLEAN
  PROVE  /\ PollRows(w, enough) \in Windows
         /\ WindowOK(PollRows(w, enough), IF PollRows(w, enough).complete THEN "freeze" ELSE "poll")
<1> DEFINE v == PollRows(w, enough)
<1>1. /\ w.rows \in Nat /\ w.cold \in Nat /\ w.boundary \in Nat /\ w.from \in Nat /\ w.to \in Nat
      /\ w.cold <= w.rows /\ ~w.complete /\ w.phase \in Phases
      /\ w.phase = "boundary" => w.cold <= w.boundary
      /\ w.phase = "measuring" => w.cold < w.from
      /\ w.phase = "starting" => w.cold = 0
  BY DEF Windows, WindowOK
<1>2. CASE v = w
  BY <1>1, <1>2
<1>3. CASE w.phase = "starting" /\ v = [w EXCEPT !.phase = "warm-up", !.late = "no"]
  <2>1. v \in Windows /\ v.phase = "warm-up" /\ v.cold = w.cold /\ v.rows = w.rows /\ ~v.complete
    BY <1>1, <1>3 DEF Windows, Phases
  <2> QED
    BY <1>1, <2>1 DEF WindowOK
<1>4. CASE v = [w EXCEPT !.reason = "failed"]
  <2>1. /\ v \in Windows /\ v.phase = w.phase /\ v.cold = w.cold /\ v.rows = w.rows /\ ~v.complete
        /\ v.boundary = w.boundary /\ v.from = w.from
    BY <1>1, <1>4 DEF Windows, Reasons
  <2> QED
    BY <1>1, <2>1 DEF WindowOK
<1>5. CASE w.phase = "warm-up" /\ v = [w EXCEPT !.phase = "boundary", !.boundary = w.rows]
  <2>1. /\ v \in Windows /\ v.phase = "boundary" /\ v.cold = w.cold /\ v.rows = w.rows /\ ~v.complete
        /\ v.boundary = w.rows
    BY <1>1, <1>5 DEF Windows, Phases
  <2> QED
    BY <1>1, <2>1 DEF WindowOK
<1>6. CASE w.cold < w.rows /\ v = StartMeasuring(w)
  <2>1. /\ v \in Windows /\ v.phase = "measuring" /\ v.cold = w.cold /\ v.rows = w.rows /\ ~v.complete
        /\ v.from = w.rows
    BY <1>1, <1>6 DEF Windows, Phases, StartMeasuring
  <2>2. v.cold < v.from
    BY <1>1, <1>6, <2>1
  <2> QED
    BY <1>1, <2>1, <2>2 DEF WindowOK
<1>7. CASE w.phase = "measuring" /\ w.rows - w.from >= Requested /\ v = [w EXCEPT !.complete = TRUE, !.to = w.rows]
  <2>1. /\ v \in Windows /\ v.phase = "measuring" /\ v.cold = w.cold /\ v.rows = w.rows /\ v.complete
        /\ v.from = w.from /\ v.to = w.rows
    BY <1>1, <1>7 DEF Windows
  <2>2. WindowOK(v, "freeze")
    BY <1>1, <1>7, <2>1 DEF WindowOK
  <2>3. (IF v.complete THEN "freeze" ELSE "poll") = "freeze"
    BY <2>1
  <2> QED
    BY <2>1, <2>2, <2>3
<1>8. \/ w.phase = "boundary" /\ w.rows > w.boundary
      \/ w.phase = "starting" /\ w.rows > 0
      => w.cold < w.rows
  BY <1>1
<1> QED
  BY <1>2, <1>3, <1>4, <1>5, <1>6, <1>7, <1>8 DEF PollRows, Measure

\* The measurement ends without a result.
LEMMA BreakGoes ==
  ASSUME MatrixInv, NEW r \in Runner, NEW reason \in Reasons, Break(r, reason),
         runner[r].pc \in {"attest", "poll"}, KeepFiles, UNCHANGED <<gpuLock, matrixInputs, used>>
  PROVE  MatrixInv'
<1>1. /\ runner[r] \in Works /\ gpuLock = r /\ runner[r].cell \in Cell
      /\ CellOK(runner[r], files[runner[r].cell])
  BY RunnerFacts DEF Busy, Cells
<1>2. PICK n : n = NoWindow
  OBVIOUS
<1>3. n \in Windows /\ \A pc : WindowOK(n, pc)
  BY <1>2, NoWindowOK
<1>4. ~n.complete
  BY <1>2 DEF NoWindow
<1>5. PICK w : w = [n EXCEPT !.reason = reason]
  OBVIOUS
<1>6. /\ w \in Windows /\ ~w.complete /\ w.phase = n.phase /\ w.cold = n.cold /\ w.rows = n.rows
      /\ w.boundary = n.boundary /\ w.from = n.from
  BY <1>3, <1>4, <1>5 DEF Windows
<1>7. \A pc : WindowOK(w, pc)
  <2>1. WindowOK(n, "poll")
    BY <1>3
  <2> QED
    BY <1>4, <1>6, <2>1 DEF WindowOK
<1>8. PICK x : x = [runner[r] EXCEPT !.pc = "freeze", !.window = w]
  OBVIOUS
<1>9. /\ x \in Works /\ x.pc = "freeze" /\ x.window = w /\ x.cell = runner[r].cell
      /\ x.attempt = runner[r].attempt /\ x.fingerprint = runner[r].fingerprint
  BY <1>1, <1>6, <1>8 DEF Works, Pcs, Busy, Cells
<1>10. runner' = [runner EXCEPT ![r] = x]
  BY <1>2, <1>5, <1>8 DEF Break, MatrixInv, MatrixTyped
<1>11. CellOK(x, files[x.cell])
  BY <1>1, <1>6, <1>9 DEF CellOK, Measured, WithLog
<1>12. x.pc \in Cells /\ x.pc \in Busy /\ x.pc \in Containing /\ x.pc # "gates" /\ x.pc # "report" /\ x.pc \notin {"idle", "generate"}
  BY <1>9 DEF Cells, Busy, Containing
<1>13. used' \in [starts : Nat, kills : Nat, attempts : Nat]
  BY UsedTyped
<1> QED
  BY <1>1, <1>7, <1>9, <1>10, <1>11, <1>12, <1>13, QuietRunner

LEMMA BreakOffSafe ==
  ASSUME MatrixInv, NEW r \in Runner, BreakOff(r)
  PROVE  MatrixInv'
<1>1. PICK reason \in Reasons : Break(r, reason)
  BY DEF BreakOff, Reasons
<1> QED
  BY <1>1, BreakGoes DEF BreakOff

LEMMA PollSafe ==
  ASSUME MatrixInv, NEW r \in Runner, Poll(r)
  PROVE  MatrixInv'
<1>1. /\ runner[r] \in Works /\ runner[r].window \in Windows /\ WindowOK(runner[r].window, "poll")
      /\ runner[r].pc = "poll"
  BY RunnerFacts DEF Poll, RAt, Works
<1>2. KeepFiles /\ UNCHANGED <<gpuLock, matrixInputs, used>>
  BY DEF Poll
<1>3. PICK enough \in BOOLEAN :
        LET w == PollRows(runner[r].window, enough) IN
        IF w.reason # "none" THEN Break(r, w.reason)
        ELSE runner' = [runner EXCEPT ![r].window = w, ![r].pc = IF w.complete THEN "freeze" ELSE "poll"]
  BY DEF Poll, WindowOf
<1>4. PICK w : w = PollRows(runner[r].window, enough)
  OBVIOUS
<1>5. w \in Windows /\ WindowOK(w, IF w.complete THEN "freeze" ELSE "poll")
  BY <1>1, <1>4, PollRowsOK
<1>6. CASE w.reason # "none"
  BY <1>1, <1>2, <1>3, <1>4, <1>5, <1>6, BreakGoes DEF Windows
<1>7. CASE w.reason = "none"
  <2>1. PICK pc \in {"poll", "freeze"} : pc = IF w.complete THEN "freeze" ELSE "poll"
    OBVIOUS
  <2>2. runner' = [runner EXCEPT ![r] = [runner[r] EXCEPT !.pc = pc, !.window = w]]
    <3>1. runner' = [runner EXCEPT ![r] = [runner[r] EXCEPT !.window = w, !.pc = pc]]
      BY <1>3, <1>4, <1>7, <2>1 DEF MatrixInv, MatrixTyped
    <3>2. [runner[r] EXCEPT !.window = w, !.pc = pc] = [runner[r] EXCEPT !.pc = pc, !.window = w]
      BY <1>1 DEF Works
    <3> QED
      BY <3>1, <3>2
  <2> QED
    BY <1>1, <1>2, <1>5, <2>1, <2>2, WindowGoes
<1> QED
  BY <1>6, <1>7

LEMMA FreezeSafe ==
  ASSUME MatrixInv, NEW r \in Runner, Freeze(r)
  PROVE  MatrixInv'
<1>1. /\ runner[r] \in Works /\ runner[r].window \in Windows /\ WindowOK(runner[r].window, "freeze")
      /\ runner[r].pc = "freeze"
  BY RunnerFacts DEF Freeze, RAt, Works
<1> DEFINE v == runner[r].window
<1>2. PICK n \in Nat : n = v.rows
  BY <1>1 DEF Windows
<1>3. PICK w : w = [v EXCEPT !.calm = n]
  OBVIOUS
<1>4. /\ w \in Windows /\ w.rows = n /\ w.phase = v.phase /\ w.cold = v.cold /\ w.boundary = v.boundary
      /\ w.from = v.from /\ w.to = v.to /\ w.calm = n /\ (w.complete <=> v.complete)
  BY <1>1, <1>2, <1>3 DEF Windows
<1>5. WindowOK(w, "stop")
  BY <1>1, <1>2, <1>4 DEF WindowOK
<1>6. runner' = [runner EXCEPT ![r] = [runner[r] EXCEPT !.pc = "stop", !.window = w]]
  BY <1>2, <1>3 DEF Freeze, WindowOf, MatrixInv, MatrixTyped
<1>7. KeepFiles /\ UNCHANGED <<gpuLock, matrixInputs, used>>
  BY DEF Freeze
<1> QED
  BY <1>1, <1>4, <1>5, <1>6, <1>7, WindowGoes

\* The holder of the lock writes into the directory of its cell.
LEMMA FileGoes ==
  ASSUME MatrixInv, NEW r \in Runner, runner[r].pc \in Cells, NEW x \in Works, NEW d \in Directories,
         runner' = [runner EXCEPT ![r] = x], files' = [files EXCEPT ![runner[r].cell] = d],
         UNCHANGED <<lastCell, gpuLock, lingering, matrixInputs, summary, doubtful>>,
         used' \in [starts : Nat, kills : Nat, attempts : Nat],
         x.pc \in Cells \/ (x.pc = "report" /\ x.view = <<>>),
         x.pc \in Cells => x.cell = runner[r].cell /\ CellOK(x, d),
         WindowOK(x.window, x.pc), Good(d),
         containers' \subseteq Nat,
         \A a \in containers' \ lingering : a \in containers \ lingering \/ (x.pc \in Containing /\ x.attempt = a),
         runner[r].pc \in Containing => x.pc \in Containing /\ x.attempt = runner[r].attempt
  PROVE  MatrixInv'
<1>1. gpuLock = r /\ runner[r].cell \in Cell /\ r # NoRunner
  BY RunnerFacts, MatrixAssumption DEF Busy
<1>2. files \in [Cell -> Directories] /\ runner \in [Runner -> Works] /\ Cell' = Cell
  BY DEF MatrixInv, MatrixTyped, Cell
<1>3. files'[runner[r].cell] = d /\ \A c \in Cell : c # runner[r].cell => files'[c] = files[c]
  BY <1>1, <1>2
<1>4. MatrixTyped'
  <2>1. files' \in [Cell -> Directories] /\ runner' \in [Runner -> Works]
    BY <1>1, <1>2
  <2> QED
    BY <1>2, <2>1 DEF MatrixInv, MatrixTyped, Works, Views
<1>5. runner'[r] = x
  BY <1>2
<1>6. x.pc # "gates" /\ x.pc \notin {"idle", "generate"}
  BY DEF Cells
<1>7. gpuLock' = r /\ ~(gpuLock' = NoRunner \/ runner'[gpuLock'].pc = "gates")
  BY <1>1, <1>5, <1>6
<1>8. x.pc \in Cells => CellOK(x, files'[x.cell])
  BY <1>3
<1>9. \A c \in Cell : files'[c] = files[c] \/ Good(files'[c])
  BY <1>3
<1>10. /\ \A a \in containers' \ lingering' : a \in containers \ lingering \/ (x.pc \in Containing /\ x.attempt = a)
       /\ runner[r].pc \in Containing /\ runner[r].attempt \in containers' \ lingering' =>
            x.pc \in Containing /\ x.attempt = runner[r].attempt
  OBVIOUS
<1>11. ~doubtful' /\ (gpuLock' = NoRunner \/ runner'[gpuLock'].pc = "gates") => SummaryMatches'
  BY <1>7
<1>12. x.pc = "report" /\ gpuLock' = r /\ x.view # <<>> => \A c \in Cell : x.view[c] = Seen(files'[c].status)
  BY DEF Cells
<1>13. x.pc \in Cells \cup {"generate"} => x.cell \in Cell
  BY <1>1, <1>6
<1>14. lastCell' = lastCell /\ gpuLock' = gpuLock /\ gpuLock = r /\ gpuLock' = r
  BY <1>1, <1>7
<1> QED
  BY <1>4, <1>6, <1>8, <1>9, <1>10, <1>11, <1>12, <1>13, <1>14, MatrixGoes

\* The directory of the cell that the holder works on, and its parts.
LEMMA DirectoryFacts ==
  ASSUME MatrixInv, NEW r \in Runner, runner[r].pc \in Cells
  PROVE  /\ runner[r] \in Works /\ runner[r].cell \in Cell /\ gpuLock = r
         /\ files[runner[r].cell] \in Directories /\ Good(files[runner[r].cell])
         /\ CellOK(runner[r], files[runner[r].cell])
         /\ WindowOK(runner[r].window, runner[r].pc)
         /\ containers \subseteq Nat
         /\ used \in [starts : Nat, kills : Nat, attempts : Nat]
BY RunnerFacts DEF Busy, MatrixInv, MatrixTyped

LEMMA NoStatusOK == NoStatus \in Statuses /\ NoStatus.state = "pending" /\ NoStatus.attempt = 0
BY DEF NoStatus, Statuses, States

\* What Without takes away, and what it leaves.
LEMMA WithoutFacts ==
  ASSUME NEW d \in Directories, NEW name \in Name
  PROVE  /\ Without(d, name) \in Directories
         /\ Without(d, name).status = IF name = "status" THEN NoStatus ELSE d.status
         /\ Without(d, name).log = IF name = "log" THEN 0 ELSE d.log
         /\ Without(d, name).runtime = IF name = "runtime" THEN 0 ELSE d.runtime
         /\ Without(d, name).config = IF name = "config" THEN NoConfig ELSE d.config
<1>1. Name = {"status", "log", "runtime", "config"}
  BY DEF Name, ArchiveRank
<1>2. PICK s, n : s = NoStatus /\ n = NoConfig
  OBVIOUS
<1>3. s \in Statuses /\ n \in [fingerprint : Nat, by : {"nobody", "generator", "runner"}]
  BY <1>2, NoStatusOK DEF NoConfig
<1>4. CASE name = "status"
  <2>1. Without(d, name) = [d EXCEPT !.status = s]
    BY <1>2, <1>4 DEF Without
  <2> QED
    BY <1>2, <1>3, <1>4, <2>1 DEF Directories
<1>5. CASE name = "log"
  <2>1. Without(d, name) = [d EXCEPT !.log = 0]
    BY <1>5 DEF Without
  <2> QED
    BY <1>5, <2>1 DEF Directories
<1>6. CASE name = "runtime"
  <2>1. Without(d, name) = [d EXCEPT !.runtime = 0]
    BY <1>6 DEF Without
  <2> QED
    BY <1>6, <2>1 DEF Directories
<1>7. CASE name = "config"
  <2>1. Without(d, name) = [d EXCEPT !.config = n]
    BY <1>2, <1>7 DEF Without
  <2> QED
    BY <1>2, <1>3, <1>7, <2>1 DEF Directories
<1> QED
  BY <1>1, <1>4, <1>5, <1>6, <1>7

\* The status is moved first.
LEMMA StatusFirst ==
  ASSUME NEW moving \in SUBSET Name, NEW name \in NextMoved(moving)
  PROVE  /\ name \in moving /\ name \in Name
         /\ "status" \in moving => name = "status"
<1>1. Name = {"status", "log", "runtime", "config"}
  BY DEF Name, ArchiveRank
<1>2. /\ ArchiveRank["status"] = 1 /\ ArchiveRank["log"] = 2
      /\ ArchiveRank["runtime"] = 3 /\ ArchiveRank["config"] = 4
  BY DEF ArchiveRank
<1>3. name \in moving /\ \A other \in moving : ArchiveRank[name] <= ArchiveRank[other]
  BY DEF NextMoved
<1> QED
  BY <1>1, <1>2, <1>3

LEMMA ArchiveFileSafe ==
  ASSUME MatrixInv, NEW r \in Runner, ArchiveFile(r)
  PROVE  MatrixInv'
<1>1. runner[r].pc = "archive" /\ runner[r].pc \in Cells /\ runner[r].pc \notin Containing
  BY DEF ArchiveFile, RAt, Cells, Containing
<1>2. /\ runner[r] \in Works /\ runner[r].cell \in Cell /\ files[runner[r].cell] \in Directories
      /\ Good(files[runner[r].cell]) /\ CellOK(runner[r], files[runner[r].cell])
      /\ WindowOK(runner[r].window, "archive") /\ containers \subseteq Nat
      /\ used \in [starts : Nat, kills : Nat, attempts : Nat]
  BY <1>1, DirectoryFacts
<1>3. PICK name \in NextMoved(runner[r].moving) :
        /\ files' = [files EXCEPT ![runner[r].cell] = Without(files[runner[r].cell], name)]
        /\ runner' = [runner EXCEPT ![r] = [runner[r] EXCEPT !.moving = runner[r].moving \ {name}]]
  BY <1>2 DEF ArchiveFile, CellOf, MatrixInv, MatrixTyped
<1>4. PICK moving : moving = runner[r].moving
  OBVIOUS
<1>5. moving \in SUBSET Name /\ name \in moving /\ name \in Name /\ ("status" \in moving => name = "status")
  BY <1>2, <1>3, <1>4, StatusFirst DEF Works
<1>6. PICK c, d : c = files[runner[r].cell] /\ d = Without(c, name)
  OBVIOUS
<1>7. /\ d \in Directories
      /\ d.status = IF name = "status" THEN NoStatus ELSE c.status
      /\ d.log = IF name = "log" THEN 0 ELSE c.log
      /\ d.runtime = IF name = "runtime" THEN 0 ELSE c.runtime
  BY <1>2, <1>5, <1>6, WithoutFacts
<1>8. PICK x : x = [runner[r] EXCEPT !.moving = moving \ {name}]
  OBVIOUS
<1>9. /\ x \in Works /\ x.pc = "archive" /\ x.cell = runner[r].cell /\ x.window = runner[r].window
      /\ x.moving = moving \ {name}
  BY <1>1, <1>2, <1>5, <1>8 DEF Works
<1>10. /\ c.status # NoStatus => "status" \in moving
       /\ c.log # 0 => "log" \in moving
       /\ c.runtime # 0 => "runtime" \in moving
  BY <1>1, <1>2, <1>4, <1>6 DEF CellOK
<1>11. d.status = NoStatus
  BY <1>5, <1>7, <1>10
<1>12. Good(d)
  BY <1>11, NoStatusOK DEF Good
<1>13. CellOK(x, d)
  BY <1>7, <1>9, <1>10, <1>11 DEF CellOK, Measured, WithLog
<1>14. /\ files' = [files EXCEPT ![runner[r].cell] = d] /\ runner' = [runner EXCEPT ![r] = x]
       /\ containers' = containers /\ used' = used
       /\ UNCHANGED <<lastCell, gpuLock, lingering, matrixInputs, summary, doubtful>>
  BY <1>3, <1>4, <1>6, <1>8 DEF ArchiveFile
<1>15. x.pc \in Cells /\ WindowOK(x.window, x.pc)
  BY <1>2, <1>9 DEF Cells
<1> QED
  BY <1>1, <1>2, <1>7, <1>9, <1>12, <1>13, <1>14, <1>15, FileGoes

LEMMA RenderSafe ==
  ASSUME MatrixInv, NEW r \in Runner, Render(r)
  PROVE  MatrixInv'
<1>1. /\ runner[r].pc = "archive" /\ runner[r].moving = {} /\ runner[r].pc \in Cells
      /\ runner[r].pc \notin Containing
  BY DEF Render, RAt, Cells, Containing
<1>2. /\ runner[r] \in Works /\ runner[r].cell \in Cell /\ files[runner[r].cell] \in Directories
      /\ CellOK(runner[r], files[runner[r].cell])
      /\ WindowOK(runner[r].window, "archive") /\ containers \subseteq Nat
      /\ used \in [starts : Nat, kills : Nat, attempts : Nat]
  BY <1>1, DirectoryFacts
<1>3. PICK c, k : c = files[runner[r].cell] /\ k = [fingerprint |-> runner[r].fingerprint, by |-> "runner"]
  OBVIOUS
<1>4. /\ k \in [fingerprint : Nat, by : {"nobody", "generator", "runner"}]
      /\ k.fingerprint = runner[r].fingerprint
  BY <1>2, <1>3 DEF Works
<1>5. PICK d : d = [c EXCEPT !.config = k]
  OBVIOUS
<1>6. d \in Directories /\ d.status = c.status /\ d.log = c.log /\ d.runtime = c.runtime /\ d.config = k
  BY <1>2, <1>3, <1>4, <1>5 DEF Directories
<1>7. c.status = NoStatus /\ c.log = 0 /\ c.runtime = 0
  BY <1>1, <1>2, <1>3 DEF CellOK
<1>8. PICK x : x = [runner[r] EXCEPT !.pc = "announce"]
  OBVIOUS
<1>9. /\ x \in Works /\ x.pc = "announce" /\ x.cell = runner[r].cell /\ x.window = runner[r].window
      /\ x.fingerprint = runner[r].fingerprint
  BY <1>2, <1>8 DEF Works, Pcs, Busy, Cells
<1>10. Good(d)
  BY <1>6, <1>7, NoStatusOK DEF Good
<1>11. CellOK(x, d)
  BY <1>4, <1>6, <1>7, <1>9 DEF CellOK, Measured, WithLog
<1>12. /\ files' = [files EXCEPT ![runner[r].cell] = d] /\ runner' = [runner EXCEPT ![r] = x]
       /\ containers' = containers /\ used' = used
       /\ UNCHANGED <<lastCell, gpuLock, lingering, matrixInputs, summary, doubtful>>
  BY <1>3, <1>5, <1>8 DEF Render, RGoto, CellOf, MatrixInv, MatrixTyped
<1>13. x.pc \in Cells /\ WindowOK(x.window, x.pc)
  BY <1>2, <1>9 DEF Cells, WindowOK
<1> QED
  BY <1>1, <1>2, <1>6, <1>9, <1>10, <1>11, <1>12, <1>13, FileGoes

LEMMA AnnounceSafe ==
  ASSUME MatrixInv, NEW r \in Runner, Announce(r)
  PROVE  MatrixInv'
<1>1. runner[r].pc = "announce" /\ runner[r].pc \in Cells /\ runner[r].pc \notin Containing
  BY DEF Announce, RAt, Cells, Containing
<1>2. /\ runner[r] \in Works /\ runner[r].cell \in Cell /\ files[runner[r].cell] \in Directories
      /\ CellOK(runner[r], files[runner[r].cell]) /\ containers \subseteq Nat
      /\ used \in [starts : Nat, kills : Nat, attempts : Nat]
  BY <1>1, DirectoryFacts
<1>3. PICK a \in Nat : a = used.attempts + 1 /\ a # 0
  BY <1>2
<1>4. PICK n, w : n = NoStatus /\ w = NoWindow
  OBVIOUS
<1>5. PICK s : s = [n EXCEPT !.state = "running", !.attempt = a, !.fingerprint = runner[r].fingerprint]
  OBVIOUS
<1>6. s \in Statuses /\ s.state = "running" /\ s.attempt = a
  BY <1>2, <1>4, <1>5, NoStatusOK DEF Works, Statuses, States
<1>7. PICK c, d : c = files[runner[r].cell] /\ d = [c EXCEPT !.status = s]
  OBVIOUS
<1>8. d \in Directories /\ d.status = s /\ d.log = c.log /\ d.runtime = c.runtime /\ d.config = c.config
  BY <1>2, <1>6, <1>7 DEF Directories
<1>9. PICK x : x = [runner[r] EXCEPT !.pc = "start", !.attempt = a, !.window = w]
  OBVIOUS
<1>10. w \in Windows /\ \A pc : WindowOK(w, pc)
  BY <1>4, NoWindowOK
<1>11. /\ x \in Works /\ x.pc = "start" /\ x.cell = runner[r].cell /\ x.window = w
       /\ x.fingerprint = runner[r].fingerprint /\ x.attempt = a
  BY <1>2, <1>9, <1>10 DEF Works, Pcs, Busy, Cells
<1>12. Good(d)
  BY <1>6, <1>8 DEF Good
<1>13. CellOK(x, d)
  BY <1>1, <1>2, <1>3, <1>6, <1>7, <1>8, <1>11 DEF CellOK, Measured, WithLog
<1>14. /\ files' = [files EXCEPT ![runner[r].cell] = d] /\ runner' = [runner EXCEPT ![r] = x]
       /\ containers' = containers
       /\ used' = [used EXCEPT !.attempts = a]
       /\ UNCHANGED <<lastCell, gpuLock, lingering, matrixInputs, summary, doubtful>>
  BY <1>3, <1>4, <1>5, <1>7, <1>9 DEF Announce, CellOf, MatrixInv, MatrixTyped
<1>15. used' \in [starts : Nat, kills : Nat, attempts : Nat]
  BY <1>2, <1>14
<1>16. x.pc \in Cells /\ WindowOK(x.window, x.pc)
  BY <1>10, <1>11 DEF Cells
<1> QED
  BY <1>1, <1>2, <1>8, <1>11, <1>12, <1>13, <1>14, <1>15, <1>16, FileGoes

LEMMA StartContainerSafe ==
  ASSUME MatrixInv, NEW r \in Runner, StartContainer(r)
  PROVE  MatrixInv'
<1>1. runner[r].pc = "start" /\ runner[r].pc \in Cells /\ runner[r].pc \notin Containing
  BY DEF StartContainer, RAt, Cells, Containing
<1>2. /\ runner[r] \in Works /\ runner[r].cell \in Cell /\ files[runner[r].cell] \in Directories
      /\ CellOK(runner[r], files[runner[r].cell]) /\ containers \subseteq Nat
      /\ WindowOK(runner[r].window, "start")
      /\ used \in [starts : Nat, kills : Nat, attempts : Nat]
  BY <1>1, DirectoryFacts
<1>3. PICK a \in Nat : a = runner[r].attempt
  BY <1>2 DEF Works
<1>4. PICK c, d : c = files[runner[r].cell] /\ d = [c EXCEPT !.log = a]
  OBVIOUS
<1>5. d \in Directories /\ d.status = c.status /\ d.log = a /\ d.runtime = c.runtime /\ d.config = c.config
  BY <1>2, <1>4 DEF Directories
<1>6. c.status.state = "running"
  BY <1>1, <1>2, <1>4 DEF CellOK, Measured
<1>7. Good(d)
  BY <1>5, <1>6 DEF Good
<1>8. /\ files' = [files EXCEPT ![runner[r].cell] = d] /\ used' = used
      /\ UNCHANGED <<lastCell, gpuLock, lingering, matrixInputs, summary, doubtful>>
  BY <1>3, <1>4 DEF StartContainer, CellOf, MatrixInv, MatrixTyped
<1>9. CASE containers' = containers \cup {a} /\ RGoto(r, "attest")
  <2>1. PICK x : x = [runner[r] EXCEPT !.pc = "attest"]
    OBVIOUS
  <2>2. /\ x \in Works /\ x.pc = "attest" /\ x.cell = runner[r].cell /\ x.window = runner[r].window
        /\ x.fingerprint = runner[r].fingerprint /\ x.attempt = a
    BY <1>2, <1>3, <2>1 DEF Works, Pcs, Busy, Cells
  <2>3. CellOK(x, d)
    BY <1>1, <1>2, <1>3, <1>4, <1>5, <2>2 DEF CellOK, Measured, WithLog, WindowOK
  <2>4. x.pc \in Cells /\ x.pc \in Containing /\ WindowOK(x.window, x.pc)
    BY <1>2, <2>2 DEF Cells, Containing, WindowOK
  <2>5. runner' = [runner EXCEPT ![r] = x]
    BY <1>9, <2>1 DEF RGoto
  <2>6. containers' \subseteq Nat
    BY <1>2, <1>3, <1>9
  <2> QED
    BY <1>1, <1>2, <1>5, <1>7, <1>8, <1>9, <2>2, <2>3, <2>4, <2>5, <2>6, FileGoes
<1>10. CASE Break(r, "failed") /\ UNCHANGED containers
  <2>1. PICK n : n = NoWindow
    OBVIOUS
  <2>2. n \in Windows /\ WindowOK(n, "start") /\ ~n.complete
    BY <2>1, NoWindowOK DEF NoWindow
  <2>3. PICK w : w = [n EXCEPT !.reason = "failed"]
    OBVIOUS
  <2>4. /\ w \in Windows /\ ~w.complete /\ w.phase = n.phase /\ w.cold = n.cold /\ w.rows = n.rows
        /\ w.boundary = n.boundary /\ w.from = n.from
    BY <2>2, <2>3 DEF Windows, Reasons
  <2>5. WindowOK(w, "freeze")
    BY <2>2, <2>4 DEF WindowOK
  <2>6. PICK x : x = [runner[r] EXCEPT !.pc = "freeze", !.window = w]
    OBVIOUS
  <2>7. /\ x \in Works /\ x.pc = "freeze" /\ x.cell = runner[r].cell /\ x.window = w
        /\ x.fingerprint = runner[r].fingerprint /\ x.attempt = a
    BY <1>2, <1>3, <2>4, <2>6 DEF Works, Pcs, Busy, Cells
  <2>8. CellOK(x, d)
    BY <1>1, <1>2, <1>3, <1>4, <1>5, <2>4, <2>7 DEF CellOK, Measured, WithLog
  <2>9. runner' = [runner EXCEPT ![r] = x]
    BY <1>10, <2>1, <2>3, <2>6 DEF Break, MatrixInv, MatrixTyped
  <2>10. x.pc \in Cells /\ x.pc \in Containing /\ containers' = containers
    BY <1>10, <2>7 DEF Cells, Containing
  <2> QED
    BY <1>1, <1>2, <1>5, <1>7, <1>8, <2>5, <2>7, <2>8, <2>9, <2>10, FileGoes
<1> QED
  BY <1>3, <1>9, <1>10 DEF StartContainer

LEMMA AttestSafe ==
  ASSUME MatrixInv, NEW r \in Runner, Attest(r)
  PROVE  MatrixInv'
<1>1. runner[r].pc = "attest" /\ runner[r].pc \in Cells /\ runner[r].pc \in Containing
  BY DEF Attest, RAt, Cells, Containing
<1>2. /\ runner[r] \in Works /\ runner[r].cell \in Cell /\ files[runner[r].cell] \in Directories
      /\ CellOK(runner[r], files[runner[r].cell]) /\ containers \subseteq Nat
      /\ WindowOK(runner[r].window, "attest")
      /\ used \in [starts : Nat, kills : Nat, attempts : Nat]
  BY <1>1, DirectoryFacts
<1>3. PICK a \in Nat : a = runner[r].attempt
  BY <1>2 DEF Works
<1>4. PICK c, d : c = files[runner[r].cell] /\ d = [c EXCEPT !.runtime = a]
  OBVIOUS
<1>5. d \in Directories /\ d.status = c.status /\ d.log = c.log /\ d.runtime = a /\ d.config = c.config
  BY <1>2, <1>4 DEF Directories
<1>6. c.status.state = "running"
  BY <1>1, <1>2, <1>4 DEF CellOK, Measured
<1>7. Good(d)
  BY <1>5, <1>6 DEF Good
<1>8. PICK x : x = [runner[r] EXCEPT !.pc = "poll"]
  OBVIOUS
<1>9. /\ x \in Works /\ x.pc = "poll" /\ x.cell = runner[r].cell /\ x.window = runner[r].window
      /\ x.fingerprint = runner[r].fingerprint /\ x.attempt = a
  BY <1>2, <1>3, <1>8 DEF Works, Pcs, Busy, Cells
<1>10. CellOK(x, d)
  BY <1>1, <1>2, <1>3, <1>4, <1>5, <1>9 DEF CellOK, Measured, WithLog
<1>11. x.pc \in Cells /\ x.pc \in Containing /\ WindowOK(x.window, x.pc)
  BY <1>2, <1>9 DEF Cells, Containing, WindowOK
<1>12. /\ files' = [files EXCEPT ![runner[r].cell] = d] /\ runner' = [runner EXCEPT ![r] = x]
       /\ containers' = containers /\ used' = used
       /\ UNCHANGED <<lastCell, gpuLock, lingering, matrixInputs, summary, doubtful>>
  BY <1>3, <1>4, <1>8 DEF Attest, RGoto, CellOf, MatrixInv, MatrixTyped
<1> QED
  BY <1>1, <1>2, <1>3, <1>5, <1>7, <1>9, <1>10, <1>11, <1>12, FileGoes

\* The status that a run concludes with.
LEMMA ConcludedOK ==
  ASSUME MatrixInv, NEW r \in Runner, runner[r].pc = "conclude",
         NEW state \in FinalStates(runner[r].window)
  PROVE  /\ FinalStatus(r, state) \in Statuses
         /\ FinalStatus(r, state).state = state /\ FinalStatus(r, state).attempt = runner[r].attempt
         /\ state = "complete" => runner[r].window.complete /\ FinalStatus(r, state).steady
         /\ FinalStatus(r, state).fingerprint = runner[r].fingerprint
<1>1. runner[r] \in Works /\ WindowOK(runner[r].window, "conclude")
  BY DirectoryFacts DEF Cells
<1>2. state \in States \ {"pending", "running"} /\ (state = "complete" => runner[r].window.complete)
  BY DEF FinalStates, States
<1>3. state = "complete" => Steady(runner[r].window)
  BY <1>1, <1>2 DEF WindowOK, Steady
<1>4. FinalStatus(r, state).steady <=> (state = "complete" => Steady(runner[r].window))
  BY DEF FinalStatus, WindowOf
<1>5. /\ FinalStatus(r, state).state = state /\ FinalStatus(r, state).attempt = runner[r].attempt
      /\ FinalStatus(r, state).fingerprint = runner[r].fingerprint
  BY DEF FinalStatus
<1>6. (state = "complete" => Steady(WindowOf(r))) \in BOOLEAN
  OBVIOUS
<1>7. FinalStatus(r, state) \in Statuses
  BY <1>1, <1>2, <1>6 DEF FinalStatus, Statuses, Works
<1> QED
  BY <1>2, <1>3, <1>4, <1>5, <1>7

LEMMA ConcludeSafe ==
  ASSUME MatrixInv, NEW r \in Runner, Conclude(r)
  PROVE  MatrixInv'
<1>1. runner[r].pc = "conclude" /\ runner[r].pc \in Cells /\ runner[r].pc \notin Containing
  BY DEF Conclude, RAt, Cells, Containing
<1>2. /\ runner[r] \in Works /\ runner[r].cell \in Cell /\ files[runner[r].cell] \in Directories
      /\ CellOK(runner[r], files[runner[r].cell]) /\ containers \subseteq Nat
      /\ used \in [starts : Nat, kills : Nat, attempts : Nat]
  BY <1>1, DirectoryFacts
<1>3. PICK state \in FinalStates(runner[r].window), after \in {"leave", "next", "last"} :
        /\ files' = [files EXCEPT ![CellOf(r)].status = FinalStatus(r, state)]
        /\ Report(r, after)
  BY DEF Conclude, WindowOf
<1>4. PICK s : s = FinalStatus(r, state)
  OBVIOUS
<1>5. /\ s \in Statuses /\ s.attempt = runner[r].attempt /\ s.state = state /\ s.fingerprint = runner[r].fingerprint
      /\ state = "complete" => runner[r].window.complete /\ s.steady
  BY <1>1, <1>4, ConcludedOK
<1>6. PICK c, d : c = files[runner[r].cell] /\ d = [c EXCEPT !.status = s]
  OBVIOUS
<1>7. d \in Directories /\ d.status = s /\ d.log = c.log /\ d.runtime = c.runtime /\ d.config = c.config
  BY <1>2, <1>5, <1>6 DEF Directories
<1>8. Good(d)
  BY <1>1, <1>2, <1>5, <1>6, <1>7 DEF Good, CellOK, WithLog, Measured
<1>9. PICK x : x = Reporting(r, after)
  OBVIOUS
<1>10. /\ x \in Works /\ x.pc = "report" /\ x.view = <<>> /\ WindowOK(x.window, x.pc)
       /\ runner' = [runner EXCEPT ![r] = x]
  BY <1>3, <1>9, ReportingOK DEF MatrixInv
<1>11. files' = [files EXCEPT ![runner[r].cell] = d]
  BY <1>3, <1>4, <1>6 DEF CellOf, MatrixInv, MatrixTyped
<1>12. UNCHANGED <<lastCell, gpuLock, containers, lingering, matrixInputs, summary, doubtful, used>>
  BY DEF Conclude
<1>13. x.pc \notin Cells
  BY <1>10 DEF Cells
<1> QED
  BY <1>1, <1>2, <1>7, <1>8, <1>10, <1>11, <1>12, <1>13, FileGoes

LEMMA ReadStatusesSafe ==
  ASSUME MatrixInv, NEW r \in Runner, ReadStatuses(r)
  PROVE  MatrixInv'
<1>1. runner[r].pc = "report" /\ runner[r] \in Works /\ WindowOK(runner[r].window, "report")
      /\ (runner[r].after # "leave" => gpuLock = r)
  BY RunnerFacts DEF ReadStatuses, RAt
<1>2. PICK v : v = [c \in Cell |-> Seen(files[c].status)]
  OBVIOUS
<1>3. v \in Views /\ \A c \in Cell : v[c] = Seen(files[c].status)
  <2>1. \A c \in Cell : Seen(files[c].status) \in Seens
    BY DEF MatrixInv, MatrixTyped, Seen, Seens, Directories, Statuses
  <2> QED
    BY <1>2, <2>1 DEF Views
<1>4. PICK x : x = [runner[r] EXCEPT !.view = v]
  OBVIOUS
<1>5. /\ x \in Works /\ x.pc = "report" /\ x.view = v /\ x.window = runner[r].window /\ x.after = runner[r].after
  BY <1>1, <1>3, <1>4 DEF Works
<1>6. runner' = [runner EXCEPT ![r] = x] /\ KeepFiles /\ gpuLock' = gpuLock /\ matrixInputs' = matrixInputs
      /\ used' \in [starts : Nat, kills : Nat, attempts : Nat]
  BY <1>2, <1>4, UsedTyped DEF ReadStatuses
<1>7. x.pc \notin Busy /\ x.pc \notin Cells \cup {"generate"} /\ x.pc # "gates" /\ runner[r].pc \notin Containing
      /\ x.pc \notin {"idle", "generate"}
  BY <1>1, <1>5 DEF Busy, Cells, Containing
<1> QED
  BY <1>1, <1>3, <1>5, <1>6, <1>7, QuietRunner

\* The container of r is gone, or nobody will stop it any more.
LEMMA ContainerGoes ==
  ASSUME MatrixInv, NEW r \in Runner, NEW x \in Works, runner[r].pc \in Cells,
         runner' = [runner EXCEPT ![r] = x],
         UNCHANGED <<lastCell, gpuLock, files, matrixInputs, summary, doubtful, used>>,
         containers' \subseteq containers, lingering \subseteq lingering', lingering' \subseteq Nat,
         runner[r].attempt \notin containers' \ lingering',
         x.pc \in Cells \/ (x.pc = "report" /\ x.view = <<>>),
         x.pc \in Cells => x.cell = runner[r].cell /\ CellOK(x, files[x.cell]),
         WindowOK(x.window, x.pc)
  PROVE  MatrixInv'
<1>1. gpuLock = r /\ runner[r].cell \in Cell /\ r # NoRunner
  BY DirectoryFacts, MatrixAssumption DEF Busy, Containing, Cells
<1>2. runner \in [Runner -> Works] /\ Cell' = Cell
  BY DEF MatrixInv, MatrixTyped, Cell
<1>3. runner'[r] = x /\ runner' \in [Runner -> Works]
  BY <1>2
<1>4. MatrixTyped'
  BY <1>2, <1>3 DEF MatrixInv, MatrixTyped, Works, Views
<1>5. x.pc # "gates" /\ x.pc \notin {"idle", "generate"}
  BY DEF Cells
<1>6. ~doubtful' /\ (gpuLock' = NoRunner \/ runner'[gpuLock'].pc = "gates") => SummaryMatches'
  BY <1>1, <1>3, <1>5
<1>7. x.pc = "report" /\ gpuLock' = r /\ x.view # <<>> => \A c \in Cell : x.view[c] = Seen(files'[c].status)
  BY DEF Cells
<1>8. \A a \in containers' \ lingering' : a \in containers \ lingering \/ (x.pc \in Containing /\ x.attempt = a)
  OBVIOUS
<1>9. x.pc \in Cells \cup {"generate"} => x.cell \in Cell
  BY <1>1, <1>5
<1>10. \A c \in Cell : files'[c] = files[c] \/ Good(files'[c])
  OBVIOUS
<1>11. lastCell' = lastCell /\ gpuLock' = gpuLock /\ gpuLock = r /\ gpuLock' = r
  BY <1>1
<1>12. x.pc \in Cells => CellOK(x, files'[x.cell])
  OBVIOUS
<1> QED
  BY <1>4, <1>5, <1>6, <1>7, <1>8, <1>9, <1>10, <1>11, <1>12, MatrixGoes

LEMMA ExitSafe ==
  ASSUME MatrixInv, NEW r \in Runner, Exit(r)
  PROVE  MatrixInv'
<1>1. runner[r].pc \in {"attest", "poll", "freeze"} /\ runner[r].pc \in Cells /\ runner[r].pc \in Containing
  BY DEF Exit, Cells, Containing
<1>2. /\ runner[r] \in Works /\ runner[r].cell \in Cell
      /\ CellOK(runner[r], files[runner[r].cell]) /\ WindowOK(runner[r].window, runner[r].pc)
  BY <1>1, DirectoryFacts
<1>3. PICK w : /\ w \in {runner[r].window, NoWindow}
               /\ runner' = [runner EXCEPT ![r] = [runner[r] EXCEPT !.window = w]]
  BY DEF Exit, WindowOf, MatrixInv, MatrixTyped
<1>4. w \in Windows /\ WindowOK(w, runner[r].pc) /\ (w.complete => runner[r].window.complete)
  <2>1. CASE w = runner[r].window
    BY <1>2, <2>1 DEF Works
  <2>2. CASE w = NoWindow
    <3>1. ~w.complete
      BY <2>2 DEF NoWindow
    <3> QED
      BY <2>2, <3>1, NoWindowOK
  <2> QED
    BY <1>3, <2>1, <2>2
<1>5. PICK x : x = [runner[r] EXCEPT !.window = w]
  OBVIOUS
<1>6. /\ x \in Works /\ x.pc = runner[r].pc /\ x.cell = runner[r].cell /\ x.window = w
      /\ x.fingerprint = runner[r].fingerprint /\ x.attempt = runner[r].attempt /\ x.moving = runner[r].moving
  BY <1>2, <1>4, <1>5 DEF Works
<1>7. CellOK(x, files[x.cell])
  BY <1>1, <1>2, <1>4, <1>6 DEF CellOK
<1>8. /\ containers' = containers \ {runner[r].attempt}
      /\ UNCHANGED <<lastCell, gpuLock, files, lingering, matrixInputs, summary, doubtful, used>>
  BY DEF Exit
<1>9. lingering' \subseteq Nat /\ lingering \subseteq lingering' /\ containers' \subseteq containers
      /\ runner[r].attempt \notin containers' \ lingering'
  BY <1>8 DEF MatrixInv, MatrixTyped
<1>10. WindowOK(x.window, x.pc) /\ x.pc \in Cells
  BY <1>1, <1>4, <1>6
<1>11. UNCHANGED <<lastCell, gpuLock, files, matrixInputs, summary, doubtful, used>>
  BY <1>8
<1>12. runner' = [runner EXCEPT ![r] = x]
  BY <1>3, <1>5
<1> QED
  BY <1>1, <1>6, <1>7, <1>9, <1>10, <1>11, <1>12, ContainerGoes

LEMMA StopSafe ==
  ASSUME MatrixInv, NEW r \in Runner, Stop(r)
  PROVE  MatrixInv'
<1>1. runner[r].pc = "stop" /\ runner[r].pc \in Cells /\ runner[r].pc \in Containing
  BY DEF Stop, RAt, Cells, Containing
<1>2. /\ runner[r] \in Works /\ runner[r].cell \in Cell
      /\ CellOK(runner[r], files[runner[r].cell]) /\ WindowOK(runner[r].window, "stop")
  BY <1>1, DirectoryFacts
<1>3. UNCHANGED <<lastCell, gpuLock, files, matrixInputs, summary, doubtful, used>>
  BY DEF Stop
<1>4. /\ containers' \subseteq containers /\ lingering \subseteq lingering' /\ lingering' \subseteq Nat
      /\ runner[r].attempt \notin containers' \ lingering'
  <2>1. lingering \subseteq Nat /\ runner[r].attempt \in Nat
    BY <1>2 DEF MatrixInv, MatrixTyped, Works
  <2>2. CASE containers' = containers \ {runner[r].attempt} /\ UNCHANGED lingering
    BY <2>1, <2>2
  <2>3. CASE lingering' = lingering \cup {runner[r].attempt} /\ UNCHANGED containers
    BY <2>1, <2>3
  <2> QED
    BY <2>2, <2>3 DEF Stop
<1>5. \/ runner' = [runner EXCEPT ![r] = [runner[r] EXCEPT !.pc = "conclude"]]
      \/ runner' = [runner EXCEPT ![r].pc = "conclude", ![r].window.complete = FALSE]
  BY DEF Stop, RGoto
<1>6. CASE runner' = [runner EXCEPT ![r] = [runner[r] EXCEPT !.pc = "conclude"]]
  <2>1. PICK x : x = [runner[r] EXCEPT !.pc = "conclude"]
    OBVIOUS
  <2>2. /\ x \in Works /\ x.pc = "conclude" /\ x.cell = runner[r].cell /\ x.window = runner[r].window
        /\ x.fingerprint = runner[r].fingerprint /\ x.attempt = runner[r].attempt
    BY <1>2, <2>1 DEF Works, Pcs, Busy, Cells
  <2>3. CellOK(x, files[x.cell])
    BY <1>1, <1>2, <2>2 DEF CellOK, Measured, WithLog
  <2>4. WindowOK(x.window, x.pc) /\ x.pc \in Cells
    BY <1>2, <2>2 DEF WindowOK, Cells
  <2> QED
    BY <1>1, <1>3, <1>4, <1>6, <2>1, <2>2, <2>3, <2>4, ContainerGoes
<1>7. CASE runner' = [runner EXCEPT ![r].pc = "conclude", ![r].window.complete = FALSE]
  <2>1. PICK w : w = [runner[r].window EXCEPT !.complete = FALSE]
    OBVIOUS
  <2>2. /\ w \in Windows /\ ~w.complete /\ w.cold = runner[r].window.cold /\ w.rows = runner[r].window.rows
        /\ w.phase = runner[r].window.phase /\ w.boundary = runner[r].window.boundary /\ w.from = runner[r].window.from
    <3>1. runner[r].window \in Windows
      BY <1>2 DEF Works
    <3> QED
      BY <2>1, <3>1 DEF Windows
  <2>3. PICK x : x = [runner[r] EXCEPT !.pc = "conclude", !.window = w]
    OBVIOUS
  <2>4. /\ x \in Works /\ x.pc = "conclude" /\ x.cell = runner[r].cell /\ x.window = w
        /\ x.fingerprint = runner[r].fingerprint /\ x.attempt = runner[r].attempt
    BY <1>2, <2>2, <2>3 DEF Works, Pcs, Busy, Cells
  <2>5. CellOK(x, files[x.cell])
    BY <1>1, <1>2, <2>2, <2>4 DEF CellOK, Measured, WithLog
  <2>6. WindowOK(x.window, x.pc) /\ x.pc \in Cells
    BY <1>2, <2>2, <2>4 DEF WindowOK, Cells
  <2>7. runner' = [runner EXCEPT ![r] = x]
    BY <1>7, <2>1, <2>3 DEF MatrixInv, MatrixTyped
  <2> QED
    BY <1>1, <1>3, <1>4, <2>4, <2>5, <2>6, <2>7, ContainerGoes
<1> QED
  BY <1>5, <1>6, <1>7

LEMMA RunRaisesSafe ==
  ASSUME MatrixInv, NEW r \in Runner, RunRaises(r)
  PROVE  MatrixInv'
<1>1. runner[r].pc \in Cells
  BY DEF RunRaises, Cells
<1>2. runner[r] \in Works
  BY <1>1, DirectoryFacts
<1>3. /\ Report(r, "leave") /\ lingering' = lingering \cup ({runner[r].attempt} \cap containers)
      /\ UNCHANGED <<lastCell, gpuLock, files, containers, matrixInputs, summary, doubtful, used>>
  BY DEF RunRaises
<1>4. /\ containers' \subseteq containers /\ lingering \subseteq lingering' /\ lingering' \subseteq Nat
      /\ runner[r].attempt \notin containers' \ lingering'
  BY <1>3 DEF MatrixInv, MatrixTyped
<1>5. PICK x : x = Reporting(r, "leave")
  OBVIOUS
<1>6. /\ x \in Works /\ x.pc = "report" /\ x.view = <<>> /\ WindowOK(x.window, x.pc)
      /\ runner' = [runner EXCEPT ![r] = x]
  BY <1>3, <1>5, ReportingOK DEF MatrixInv
<1>7. x.pc \notin Cells
  BY <1>6 DEF Cells
<1> QED
  BY <1>1, <1>3, <1>4, <1>6, <1>7, ContainerGoes

LEMMA ContinueFacts ==
  ASSUME MatrixInv, NEW r \in Runner, Continue(r), runner[r].pc = "report"
  PROVE  \E x \in Works :
           /\ runner' = [runner EXCEPT ![r] = x]
           /\ \/ x.pc = "choose" /\ runner[r].after # "leave" /\ x.cell \in Cell
              \/ x.pc = "idle" /\ runner[r].after = "leave"
              \/ x.pc = "report" /\ x.after = "leave" /\ runner[r].after # "leave" /\ x.view = <<>>
           /\ \A pc : WindowOK(x.window, pc)
<1>1. runner[r] \in Works /\ MatrixTyped
  BY DEF MatrixInv, MatrixTyped
<1>2. CASE runner[r].after = "next" /\ CellOf(r) < lastCell
  <2>1. PICK c, n : c = CellOf(r) + 1 /\ n = NoWork
    OBVIOUS
  <2>2. c \in Cell /\ c \in Nat
    BY <1>1, <1>2, <2>1 DEF Works, CellOf, Cell, MatrixTyped
  <2>3. n \in Works /\ n.window = NoWindow
    BY <2>1, NoWorkOK
  <2>4. PICK x : x = [n EXCEPT !.pc = "choose", !.cell = c, !.force = runner[r].force]
    OBVIOUS
  <2>5. x \in Works /\ x.pc = "choose" /\ x.cell = c /\ x.window = NoWindow
    BY <1>1, <2>2, <2>3, <2>4 DEF Works, Pcs, Busy, Cells
  <2>6. runner' = [runner EXCEPT ![r] = x]
    BY <1>2, <2>1, <2>4 DEF Continue
  <2> QED
    BY <1>2, <2>2, <2>5, <2>6, NoWindowOK
<1>3. CASE runner[r].after = "leave"
  <2>1. PICK x : x = NoWork
    OBVIOUS
  <2>2. x \in Works /\ x.pc = "idle" /\ \A pc : WindowOK(x.window, pc)
    BY <2>1, NoWorkOK, NoWindowOK
  <2>3. runner' = [runner EXCEPT ![r] = x]
    BY <1>3, <2>1 DEF Continue
  <2> QED
    BY <1>3, <2>2, <2>3
<1>4. CASE runner[r].after # "leave" /\ ~(runner[r].after = "next" /\ CellOf(r) < lastCell)
  <2>1. Report(r, "leave")
    BY <1>4 DEF Continue
  <2>2. PICK x : x = Reporting(r, "leave")
    OBVIOUS
  <2>3. /\ x \in Works /\ x.pc = "report" /\ x.after = "leave" /\ x.view = <<>>
        /\ runner' = [runner EXCEPT ![r] = x] /\ \A pc : WindowOK(x.window, pc)
    BY <1>1, <2>1, <2>2, ReportingOK
  <2> QED
    BY <1>4, <2>3
<1> QED
  BY <1>2, <1>3, <1>4

LEMMA WriteSummarySafe ==
  ASSUME MatrixInv, NEW r \in Runner, WriteSummary(r)
  PROVE  MatrixInv'
<1>1. runner[r].pc = "report" /\ runner[r] \in Works /\ runner[r].view # <<>> /\ runner[r].pc \notin Containing
      /\ (runner[r].after # "leave" => gpuLock = r)
  BY RunnerFacts DEF WriteSummary, RAt, Containing
<1>2. PICK x \in Works :
        /\ runner' = [runner EXCEPT ![r] = x]
        /\ \/ x.pc = "choose" /\ runner[r].after # "leave" /\ x.cell \in Cell
           \/ x.pc = "idle" /\ runner[r].after = "leave"
           \/ x.pc = "report" /\ x.after = "leave" /\ runner[r].after # "leave" /\ x.view = <<>>
        /\ \A pc : WindowOK(x.window, pc)
  BY <1>1, ContinueFacts DEF WriteSummary
<1>3. /\ UNCHANGED <<lastCell, files, containers, lingering, matrixInputs, used>>
      /\ summary' = runner[r].view /\ (doubtful' <=> gpuLock # r) /\ doubtful' \in BOOLEAN
      /\ gpuLock' = IF gpuLock = r /\ runner[r].after = "leave" THEN NoRunner ELSE gpuLock
  BY DEF WriteSummary
<1>4. r # NoRunner /\ runner \in [Runner -> Works] /\ Cell' = Cell
  BY <1>3, MatrixAssumption DEF MatrixInv, MatrixTyped, Cell
<1>5. runner' \in [Runner -> Works] /\ summary' \in Views
  BY <1>1, <1>2, <1>3, <1>4 DEF Works
<1>6. MatrixTyped'
  BY <1>3, <1>4, <1>5 DEF MatrixInv, MatrixTyped, Works, Views
<1>7. \/ gpuLock' = gpuLock
      \/ gpuLock = r /\ gpuLock' = NoRunner
  BY <1>3
<1>8. /\ x.pc \in Busy => gpuLock' = r
      /\ x.pc = "report" /\ x.after # "leave" => gpuLock' = r
      /\ gpuLock' = r => x.pc \notin {"idle", "generate"}
  BY <1>1, <1>2, <1>3, <1>4 DEF Busy, Cells
<1>9. /\ x.pc \in Cells \cup {"generate"} => x.cell \in Cell
      /\ WindowOK(x.window, x.pc)
      /\ x.pc = "report" /\ gpuLock' = r /\ x.view # <<>> => \A c \in Cell : x.view[c] = Seen(files'[c].status)
  BY <1>2 DEF Cells
<1>10. x.pc \in Cells => CellOK(x, files'[x.cell])
  BY <1>2 DEF Cells, CellOK, Measured, WithLog
<1>11. ~doubtful' => SummaryMatches'
  <2>1. ASSUME gpuLock = r PROVE \A c \in Cell : runner[r].view[c] = Seen(files[c].status)
    BY <1>1, <2>1 DEF MatrixInv, SummaryFollows
  <2> QED
    BY <1>1, <1>3, <1>4, <2>1 DEF SummaryMatches, Seen
<1>12. \A c \in Cell : files'[c] = files[c] /\ Kept(files[c], files'[c])
  BY <1>3 DEF Kept
<1>13. \A a \in containers' \ lingering' : a \in containers \ lingering
  BY <1>3
<1>14. lastCell' = lastCell
  BY <1>3
<1> QED
  BY <1>1, <1>2, <1>6, <1>7, <1>8, <1>9, <1>10, <1>11, <1>12, <1>13, <1>14, MatrixGoes

LEMMA KillRunnerSafe ==
  ASSUME MatrixInv, NEW r \in Runner, KillRunner(r)
  PROVE  MatrixInv'
<1>1. runner[r] \in Works /\ used \in [starts : Nat, kills : Nat, attempts : Nat] /\ runner \in [Runner -> Works]
  BY DEF MatrixInv, MatrixTyped
<1>2. PICK x : x = NoWork
  OBVIOUS
<1>3. x \in Works /\ x.pc = "idle" /\ WindowOK(x.window, x.pc)
  BY <1>2, NoWorkOK, NoWindowOK
<1>4. /\ UNCHANGED <<lastCell, files, containers, matrixInputs, summary>>
      /\ runner' = [runner EXCEPT ![r] = x] /\ doubtful'
      /\ doubtful' \in BOOLEAN
      /\ gpuLock' = IF gpuLock = r THEN NoRunner ELSE gpuLock
      /\ lingering' = lingering \cup ({runner[r].attempt} \cap containers)
      /\ used' = [used EXCEPT !.kills = used.kills + 1]
  BY <1>2 DEF KillRunner
<1>5. used' \in [starts : Nat, kills : Nat, attempts : Nat]
  BY <1>1, <1>4
<1>6. runner' \in [Runner -> Works] /\ lingering' \subseteq Nat
  BY <1>1, <1>3, <1>4 DEF MatrixInv, MatrixTyped
<1>7. MatrixTyped'
  BY <1>4, <1>5, <1>6 DEF MatrixInv, MatrixTyped, Cell, Works, Views
<1>8. r # NoRunner /\ gpuLock' # r
  BY <1>4, MatrixAssumption
<1>9. x.pc \notin Busy /\ x.pc \notin Cells \cup {"generate"} /\ x.pc # "report"
  BY <1>3 DEF Busy, Cells
<1>10. /\ \A a \in containers' \ lingering' : a \in containers \ lingering
       /\ runner[r].attempt \notin containers' \ lingering'
  BY <1>4
<1>11. \A c \in Cell : files'[c] = files[c] /\ Kept(files[c], files'[c])
  BY <1>4 DEF Kept
<1>12. \/ gpuLock' = gpuLock
       \/ gpuLock = r /\ gpuLock' = NoRunner
  BY <1>4
<1>13. lastCell' = lastCell /\ doubtful' /\ runner' = [runner EXCEPT ![r] = x]
  BY <1>4
<1> QED
  BY <1>3, <1>7, <1>8, <1>9, <1>10, <1>11, <1>12, <1>13, MatrixGoes

LEMMA GenerateSafe ==
  ASSUME MatrixInv, NEW r \in Runner, Generate(r)
  PROVE  MatrixInv'
<1>1. /\ runner[r].pc = "generate" /\ runner[r] \in Works /\ runner[r].cell \in Cell /\ gpuLock # r
      /\ WindowOK(runner[r].window, "generate") /\ runner[r].pc \notin Containing
  BY RunnerFacts DEF Generate, RAt, Containing
<1>2. runner \in [Runner -> Works] /\ files \in [Cell -> Directories] /\ Cell' = Cell
      /\ UNCHANGED <<lastCell, gpuLock, containers, lingering, matrixInputs, summary, doubtful, used>>
  BY DEF Generate, MatrixInv, MatrixTyped, Cell
<1>3. PICK k : k = [fingerprint |-> matrixInputs, by |-> "generator"]
  OBVIOUS
<1>4. k \in [fingerprint : Nat, by : {"nobody", "generator", "runner"}] /\ k.by = "generator"
  BY <1>3 DEF MatrixInv, MatrixTyped
<1>5. PICK c, d : c = files[runner[r].cell] /\ d = [c EXCEPT !.config = k]
  OBVIOUS
<1>6. d \in Directories /\ d.status = c.status /\ d.log = c.log /\ d.runtime = c.runtime /\ d.config = k
  BY <1>1, <1>2, <1>4, <1>5 DEF Directories
<1>7. files' = [files EXCEPT ![runner[r].cell] = d]
  BY <1>2, <1>3, <1>5 DEF Generate, CellOf
<1>8. /\ files' \in [Cell -> Directories]
      /\ \A b \in Cell : b # runner[r].cell => files'[b] = files[b]
      /\ files'[runner[r].cell] = d
  BY <1>1, <1>2, <1>6, <1>7
<1>9. \A b \in Cell : Kept(files[b], files'[b]) /\ files'[b].status = files[b].status
  BY <1>4, <1>5, <1>6, <1>8 DEF Kept
<1>10. Good(d)
  BY <1>1, <1>4, <1>5, <1>6, RunnerFacts DEF Good
<1>11. PICK x \in Works : /\ runner' = [runner EXCEPT ![r] = x]
                          /\ \/ x.pc = "generate" /\ x.cell \in Cell
                             \/ x.pc = "report" /\ x.after = "leave" /\ x.view = <<>>
                          /\ WindowOK(x.window, x.pc)
  <2>1. CASE runner[r].cell < lastCell
    <3>1. PICK n : n = runner[r].cell + 1
      OBVIOUS
    <3>2. n \in Cell /\ n \in Nat
      BY <1>1, <2>1, <3>1 DEF Cell, Works, MatrixInv, MatrixTyped
    <3>3. PICK x : x = [runner[r] EXCEPT !.cell = n]
      OBVIOUS
    <3>4. x \in Works /\ x.pc = "generate" /\ x.cell = n /\ x.window = runner[r].window
      BY <1>1, <3>2, <3>3 DEF Works
    <3>5. runner' = [runner EXCEPT ![r] = x]
      BY <2>1, <3>1, <3>3 DEF Generate, CellOf
    <3> QED
      BY <1>1, <3>2, <3>4, <3>5
  <2>2. CASE ~(runner[r].cell < lastCell)
    <3>1. Report(r, "leave")
      BY <2>2 DEF Generate, CellOf
    <3>2. PICK x : x = Reporting(r, "leave")
      OBVIOUS
    <3>3. /\ x \in Works /\ x.pc = "report" /\ x.after = "leave" /\ x.view = <<>>
          /\ runner' = [runner EXCEPT ![r] = x] /\ WindowOK(x.window, x.pc)
      BY <3>1, <3>2, ReportingOK DEF MatrixInv
    <3> QED
      BY <3>3
  <2> QED
    BY <2>1, <2>2
<1>12. MatrixTyped'
  <2>1. runner' \in [Runner -> Works]
    BY <1>2, <1>11
  <2> QED
    BY <1>2, <1>8, <2>1 DEF MatrixInv, MatrixTyped, Works, Views
<1>13. gpuLock' = NoRunner \/ runner'[gpuLock'].pc = "gates" =>
           gpuLock = NoRunner \/ runner[gpuLock].pc = "gates"
  <2>1. gpuLock \in Runner \cup {NoRunner} /\ gpuLock' = gpuLock
    BY <1>2 DEF MatrixInv, MatrixTyped
  <2> QED
    BY <1>1, <1>2, <1>11, <2>1
<1>14. ~doubtful' /\ (gpuLock' = NoRunner \/ runner'[gpuLock'].pc = "gates") => SummaryMatches'
  BY <1>2, <1>9, <1>13, SummaryStays
<1>15. x.pc \notin Busy /\ x.pc \notin Cells /\ gpuLock' = gpuLock /\ gpuLock # r /\ lastCell' = lastCell
  BY <1>1, <1>2, <1>11 DEF Busy, Cells
<1>16. \A b \in Cell : files'[b] = files[b] \/ Good(files'[b])
  BY <1>8, <1>10
<1>17. \A a \in containers' \ lingering' : a \in containers \ lingering
  BY <1>2
<1>18. x.pc \in Cells \cup {"generate"} => x.cell \in Cell
  BY <1>11, <1>15
<1>19. x.pc = "report" /\ x.after # "leave" => gpuLock' = r
  BY <1>11
<1> QED
  BY <1>1, <1>9, <1>11, <1>12, <1>14, <1>15, <1>16, <1>17, <1>18, <1>19, MatrixGoes

LEMMA MatrixFrame ==
  ASSUME MatrixInv, UNCHANGED <<lastCell, runner, gpuLock, files, containers, lingering, summary, doubtful, used>>,
         matrixInputs' \in Nat
  PROVE  MatrixInv'
<1>1. Cell' = Cell
  BY DEF Cell
<1>2. MatrixTyped'
  BY <1>1 DEF MatrixInv, MatrixTyped, Works, Views
<1>3. LockHeld' /\ ContainersOwned' /\ SummaryFollows'
  BY <1>1 DEF MatrixInv, LockHeld, ContainersOwned, SummaryFollows, SummaryMatches, Seen
<1>4. RunnersOK'
  BY DEF MatrixInv, RunnersOK, WindowOK, CellOK
<1>5. \A c \in Cell : Good(files'[c])
  BY DEF MatrixInv
<1> QED
  BY <1>1, <1>2, <1>3, <1>4, <1>5 DEF MatrixInv, Good

LEMMA MatrixStart == MatrixInit => MatrixInv
<1> SUFFICES ASSUME MatrixInit PROVE MatrixInv
  OBVIOUS
<1>1. \A r \in Runner : runner[r] = NoWork /\ runner[r].pc = "idle" /\ runner[r] \in Works
        /\ WindowOK(runner[r].window, "idle")
  BY NoWorkOK, NoWindowOK DEF MatrixInit
<1>2. EmptyDirectory \in Directories /\ EmptyDirectory.status = NoStatus
  BY NoStatusOK DEF EmptyDirectory, Directories, NoConfig
<1>3. MatrixTyped
  <2>1. lastCell \in Nat \ {0}
    BY MatrixAssumption DEF MatrixInit
  <2>2. runner \in [Runner -> Works] /\ files \in [Cell -> Directories]
    <3>1. PICK n, e : n = NoWork /\ e = EmptyDirectory
      OBVIOUS
    <3>2. n \in Works /\ e \in Directories
      BY <1>2, <3>1, NoWorkOK
    <3>3. runner = [r \in Runner |-> n] /\ files = [c \in Cell |-> e]
      BY <3>1 DEF MatrixInit
    <3> QED
      BY <3>2, <3>3
  <2>3. summary \in Views /\ used \in [starts : Nat, kills : Nat, attempts : Nat]
    BY DEF MatrixInit, Views
  <2> QED
    BY <2>1, <2>2, <2>3 DEF MatrixInit, MatrixTyped
<1>4. LockHeld
  BY <1>1, MatrixAssumption DEF LockHeld, MatrixInit, Busy, Cells
<1>5. RunnersOK
  BY <1>1 DEF RunnersOK, Cells
<1>6. ContainersOwned
  BY DEF ContainersOwned, MatrixInit
<1>7. SummaryFollows
  BY <1>1, <1>2 DEF SummaryFollows, SummaryMatches, MatrixInit
<1>8. \A c \in Cell : Good(files[c])
  BY <1>2, NoStatusOK DEF MatrixInit, Good
<1> QED
  BY <1>3, <1>4, <1>5, <1>6, <1>7, <1>8 DEF MatrixInv

LEMMA MatrixStep ==
  ASSUME MatrixInv, [MatrixNext]_matrixVars
  PROVE  MatrixInv'
<1>1. ASSUME NEW r \in Runner, RunnerStep(r) PROVE MatrixInv'
  <2>1. CASE StartUnlocked(r) \/ StartCampaign(r) \/ Generate(r) \/ Gates(r) \/ Choose(r)
    BY <2>1, StartUnlockedSafe, StartCampaignSafe, GenerateSafe, GatesSafe, ChooseSafe
  <2>2. CASE ArchiveFile(r) \/ Render(r) \/ Announce(r) \/ StartContainer(r) \/ Attest(r) \/ BreakOff(r)
    BY <2>2, ArchiveFileSafe, RenderSafe, AnnounceSafe, StartContainerSafe, AttestSafe, BreakOffSafe
  <2>3. CASE Poll(r) \/ Freeze(r) \/ Stop(r) \/ Conclude(r) \/ RunRaises(r) \/ ReadStatuses(r) \/ WriteSummary(r)
    BY <2>3, PollSafe, FreezeSafe, StopSafe, ConcludeSafe, RunRaisesSafe, ReadStatusesSafe, WriteSummarySafe
  <2> QED
    BY <1>1, <2>1, <2>2, <2>3 DEF RunnerStep
<1>2. ASSUME NEW r \in Runner, Row(r) \/ Pass(r) \/ Exit(r) \/ KillRunner(r) PROVE MatrixInv'
  BY <1>2, RowSafe, PassSafe, ExitSafe, KillRunnerSafe
<1>3. CASE EditInputs
  <2>1. UNCHANGED <<lastCell, runner, gpuLock, files, containers, lingering, summary, doubtful, used>>
        /\ matrixInputs' \in Nat
    BY <1>3 DEF EditInputs, KeepFiles, MatrixInv, MatrixTyped
  <2> QED
    BY <2>1, MatrixFrame
<1>4. CASE UNCHANGED matrixVars
  BY <1>4, MatrixFrame DEF matrixVars, MatrixInv, MatrixTyped
<1> QED
  BY <1>1, <1>2, <1>3, <1>4 DEF MatrixNext

LEMMA MatrixMeans ==
  ASSUME MatrixInv
  PROVE  CompleteIsSteady /\ CompleteIsWhole /\ OneAtATime /\ SummaryIsCurrent
<1>1. CompleteIsSteady /\ CompleteIsWhole
  BY DEF MatrixInv, Good, CompleteIsSteady, CompleteIsWhole
<1>2. SummaryIsCurrent
  BY DEF MatrixInv, SummaryFollows, SummaryMatches, SummaryIsCurrent
<1>3. OneAtATime
  <2>1. \A q, r \in Runner : runner[q].pc \in Containing /\ runner[r].pc \in Containing => q = r
    BY DEF MatrixInv, LockHeld, Containing, Busy, Cells
  <2>2. \A a, b \in containers \ lingering : a = b
    BY <2>1 DEF MatrixInv, ContainersOwned
  <2>3. CASE containers \ lingering = {}
    BY <2>3, FS_EmptySet DEF OneAtATime
  <2>4. CASE containers \ lingering # {}
    <3>1. PICK a : containers \ lingering = {a}
      BY <2>2, <2>4
    <3>2. Cardinality(containers \ lingering) = 1
      BY <3>1, FS_Singleton
    <3> QED
      BY <3>2 DEF OneAtATime
  <2> QED
    BY <2>3, <2>4
<1> QED
  BY <1>1, <1>2, <1>3

\* What a step of the holder may write into the directory of its cell.
LEMMA EvidenceStays ==
  ASSUME MatrixInv, [MatrixNext]_matrixVars
  PROVE  EvidenceStep
<1> DEFINE Still(d, e) == /\ d.status.attempt # 0 => e.status.attempt \in {0, d.status.attempt}
                          /\ d.log # 0 => e.log \in {0, d.log}
                          /\ d.runtime # 0 => e.runtime \in {0, d.runtime}
<1>1. files \in [Cell -> Directories]
  BY DEF MatrixInv, MatrixTyped
<1>2. ASSUME NEW r \in Runner, NEW d \in Directories, runner[r].cell \in Cell,
             files' = [files EXCEPT ![runner[r].cell] = d], Still(files[runner[r].cell], d)
      PROVE  EvidenceStep
  <2>1. files'[runner[r].cell] = d /\ \A c \in Cell : c # runner[r].cell => files'[c] = files[c]
    BY <1>1, <1>2
  <2> QED
    BY <1>2, <2>1 DEF EvidenceStep
<1>3. files' = files => EvidenceStep
  BY DEF EvidenceStep
<1>4. ASSUME NEW r \in Runner, runner[r].pc \in Cells
      PROVE  /\ runner[r].cell \in Cell /\ files[runner[r].cell] \in Directories /\ runner[r] \in Works
             /\ CellOK(runner[r], files[runner[r].cell])
  BY <1>4, DirectoryFacts
<1>5. ASSUME NEW r \in Runner, ArchiveFile(r) PROVE EvidenceStep
  <2>1. runner[r].pc \in Cells
    BY <1>5 DEF ArchiveFile, RAt, Cells
  <2>2. PICK name \in Name : files' = [files EXCEPT ![runner[r].cell] = Without(files[runner[r].cell], name)]
    <3>1. PICK name \in NextMoved(runner[r].moving) :
            files' = [files EXCEPT ![runner[r].cell] = Without(files[runner[r].cell], name)]
      BY <1>1, <1>5 DEF ArchiveFile, CellOf
    <3>2. name \in Name
      BY <1>4, <2>1, <3>1 DEF NextMoved, Works
    <3> QED
      BY <3>1, <3>2
  <2>3. PICK c, d : c = files[runner[r].cell] /\ d = Without(c, name)
    OBVIOUS
  <2>4. /\ c \in Directories /\ d \in Directories
        /\ d.status = IF name = "status" THEN NoStatus ELSE c.status
        /\ d.log = IF name = "log" THEN 0 ELSE c.log
        /\ d.runtime = IF name = "runtime" THEN 0 ELSE c.runtime
    BY <1>4, <2>1, <2>3, WithoutFacts
  <2>5. Still(c, d)
    BY <2>4, NoStatusOK
  <2> QED
    BY <1>2, <1>4, <2>1, <2>2, <2>3, <2>4, <2>5
<1>6. ASSUME NEW r \in Runner, Render(r) \/ Generate(r) PROVE EvidenceStep
  <2>1. PICK k : files' = [files EXCEPT ![runner[r].cell] = [files[runner[r].cell] EXCEPT !.config = k]]
    BY <1>1, <1>6 DEF Render, Generate, CellOf
  <2>2. \A c \in Cell : /\ files'[c].status = files[c].status /\ files'[c].log = files[c].log
                        /\ files'[c].runtime = files[c].runtime
    BY <1>1, <2>1 DEF Directories
  <2> QED
    BY <2>2 DEF EvidenceStep
<1>7. ASSUME NEW r \in Runner, Announce(r) PROVE EvidenceStep
  <2>1. runner[r].pc = "announce" /\ runner[r].pc \in Cells
    BY <1>7 DEF Announce, RAt, Cells
  <2>2. files[runner[r].cell].status = NoStatus
    BY <1>4, <2>1 DEF CellOK
  <2>3. PICK s : files' = [files EXCEPT ![runner[r].cell] = [files[runner[r].cell] EXCEPT !.status = s]]
    BY <1>1, <1>7 DEF Announce, CellOf
  <2>4. \A c \in Cell : /\ files'[c].status = files[c].status \/ files[c].status = NoStatus
                        /\ files'[c].log = files[c].log /\ files'[c].runtime = files[c].runtime
    BY <1>1, <2>2, <2>3 DEF Directories
  <2> QED
    BY <2>4, NoStatusOK DEF EvidenceStep
<1>8. ASSUME NEW r \in Runner, StartContainer(r) PROVE EvidenceStep
  <2>1. runner[r].pc = "start" /\ runner[r].pc \in Cells
    BY <1>8 DEF StartContainer, RAt, Cells
  <2>2. files[runner[r].cell].log = 0
    BY <1>4, <2>1 DEF CellOK
  <2>3. PICK a : files' = [files EXCEPT ![runner[r].cell] = [files[runner[r].cell] EXCEPT !.log = a]]
    BY <1>1, <1>8 DEF StartContainer, CellOf
  <2>4. \A c \in Cell : /\ files'[c].log = files[c].log \/ files[c].log = 0
                        /\ files'[c].status = files[c].status /\ files'[c].runtime = files[c].runtime
    BY <1>1, <2>2, <2>3 DEF Directories
  <2> QED
    BY <2>4 DEF EvidenceStep
<1>9. ASSUME NEW r \in Runner, Attest(r) PROVE EvidenceStep
  <2>1. runner[r].pc = "attest" /\ runner[r].pc \in Cells
    BY <1>9 DEF Attest, RAt, Cells
  <2>2. files[runner[r].cell].runtime = 0
    BY <1>4, <2>1 DEF CellOK
  <2>3. PICK a : files' = [files EXCEPT ![runner[r].cell] = [files[runner[r].cell] EXCEPT !.runtime = a]]
    BY <1>1, <1>9 DEF Attest, CellOf
  <2>4. \A c \in Cell : /\ files'[c].runtime = files[c].runtime \/ files[c].runtime = 0
                        /\ files'[c].status = files[c].status /\ files'[c].log = files[c].log
    BY <1>1, <2>2, <2>3 DEF Directories
  <2> QED
    BY <2>4 DEF EvidenceStep
<1>10. ASSUME NEW r \in Runner, Conclude(r) PROVE EvidenceStep
  <2>1. runner[r].pc = "conclude" /\ runner[r].pc \in Cells
    BY <1>10 DEF Conclude, RAt, Cells
  <2>2. files[runner[r].cell].status.attempt = runner[r].attempt
    BY <1>4, <2>1 DEF CellOK, Measured
  <2>3. PICK state \in FinalStates(runner[r].window) :
          files' = [files EXCEPT ![runner[r].cell] = [files[runner[r].cell] EXCEPT !.status = FinalStatus(r, state)]]
    BY <1>1, <1>10 DEF Conclude, CellOf, WindowOf
  <2>4. PICK s : s = FinalStatus(r, state)
    OBVIOUS
  <2>5. s.attempt = runner[r].attempt
    BY <2>4 DEF FinalStatus
  <2>6. \A c \in Cell : /\ files'[c].status = files[c].status \/ files'[c].status.attempt = files[c].status.attempt
                        /\ files'[c].log = files[c].log /\ files'[c].runtime = files[c].runtime
    BY <1>1, <2>2, <2>3, <2>4, <2>5 DEF Directories
  <2> QED
    BY <2>6 DEF EvidenceStep
<1>11. ASSUME NEW r \in Runner, StartUnlocked(r) \/ StartCampaign(r) \/ Gates(r) \/ Choose(r) \/ BreakOff(r)
                 \/ Poll(r) \/ Freeze(r) \/ Stop(r) \/ RunRaises(r) \/ ReadStatuses(r) \/ WriteSummary(r)
       PROVE  files' = files
  BY <1>11 DEF StartUnlocked, StartCampaign, Starting, Gates, Choose, BreakOff, Poll, Freeze, Stop, RunRaises,
               ReadStatuses, WriteSummary, KeepFiles
<1>12. ASSUME NEW r \in Runner, Row(r) \/ Pass(r) \/ Exit(r) \/ KillRunner(r) PROVE files' = files
  BY <1>12 DEF Row, Pass, Exit, KillRunner, KeepFiles
<1>13. EditInputs => files' = files
  BY DEF EditInputs, KeepFiles
<1>14. UNCHANGED matrixVars => files' = files
  BY DEF matrixVars
<1> QED
  BY <1>3, <1>5, <1>6, <1>7, <1>8, <1>9, <1>10, <1>11, <1>12, <1>13, <1>14 DEF MatrixNext, RunnerStep

-----------------------------------------------------------------------------
(* The evidence cards                                                      *)

Reading == {"first", "second", "after", "name"}

CardsTyped ==
  /\ card \in [name : DOMAIN Loaders,
               pc : Reading \cup {"idle", "open", "validate", "root", "show", "shown"},
               at : Nat \ {0}, available : BOOLEAN, current : BOOLEAN]
  /\ file \in [half : [1 .. 2 -> BOOLEAN], frozen : BOOLEAN, named : BOOLEAN, mtime : Nat,
               ctime : Nat, was : [mtime : Nat, ctime : Nat]]
  /\ got \in [1 .. 2 -> BOOLEAN]
  /\ cardEdits \in Nat
  /\ truly \in BOOLEAN

\* No time of the open file is of a change that is still to come.
TimesPassed ==
  card.pc \in Reading =>
    /\ file.mtime <= cardEdits /\ file.ctime <= cardEdits
    /\ file.was.mtime <= cardEdits /\ file.was.ctime <= cardEdits

\* Without a write since the opening the halves read are the halves there; and a file that
\* passes the second look was what its pin says when it was opened.
Untouched == file.mtime = file.was.mtime
LooksTheSame ==
  Untouched /\ Whole(file) /\ (Look = "named" => file.named /\ file.ctime = file.was.ctime)

ReadAsThere ==
  card.pc \in Reading =>
    /\ Untouched /\ card.pc # "first" => got[1] = file.half[1]
    /\ Untouched /\ card.pc \in {"after", "name"} => got[2] = file.half[2]
    /\ LooksTheSame /\ Look # "plain" => truly

\* The files before the one that is looked at are proven: all that are pinned, and the
\* tools while the card is current.
Standing == card.pc # "shown" \/ card.available

ProvenSoFar ==
  Standing /\ Loader.look # "plain" =>
    \A i \in Nat : 1 <= i /\ i < card.at /\ (i <= LastPin \/ card.current) => i \in proven

\* Where the loader is in its files.
Placed ==
  /\ card.available => card.pc = "shown"
  /\ card.pc \in Reading \cup {"open"} =>
       card.at <= LastPin \/ (card.name = "lease" /\ card.at <= LastTool)
  /\ card.pc = "idle" => card.at = 1
  /\ card.pc \in {"validate", "root"} => card.at = LastPin + 1
  /\ card.pc = "root" => card.name = "lease"
  /\ card.pc = "show" \/ card.available =>
       card.at = IF card.name = "lease" THEN LastTool + 1 ELSE LastPin + 1

CardsInv == CardsTyped /\ TimesPassed /\ ReadAsThere /\ ProvenSoFar /\ Placed

LEMMA LoaderFacts ==
  ASSUME NEW n \in DOMAIN Loaders
  PROVE  /\ Len(Loaders[n].pins) \in Nat \ {0}
         /\ Loaders[n].look \in {"held", "named", "plain"}
         /\ n = "lease" => Loaders[n].look = "held"
<1>1. CASE n = "person"
  <2>1. Loaders[n] = LoadPersonR14i
    BY <1>1 DEF Loaders
  <2>2. LoadPersonR14i.look = "held" /\ LoadPersonR14i.pins = PersonPins
    BY DEF LoadPersonR14i
  <2>3. Len(PersonPins) = 13
    BY DEF PersonPins
  <2> QED  BY <1>1, <2>1, <2>2, <2>3
<1>2. CASE n = "ppe"
  <2>1. Loaders[n] = LoadPpeA32
    BY <1>2 DEF Loaders
  <2>2. LoadPpeA32.look = "held" /\ LoadPpeA32.pins = PpePins
    BY DEF LoadPpeA32
  <2>3. Len(PpePins) = 9
    BY DEF PpePins
  <2> QED  BY <1>2, <2>1, <2>2, <2>3
<1>3. CASE n = "pose"
  <2>1. Loaders[n] = LoadPoseR13i
    BY <1>3 DEF Loaders
  <2>2. LoadPoseR13i.look = "held" /\ LoadPoseR13i.pins = PosePins
    BY DEF LoadPoseR13i
  <2>3. Len(PosePins) = 13
    BY DEF PosePins, PersonPins
  <2> QED  BY <1>3, <2>1, <2>2, <2>3
<1>4. CASE n = "preflightR1"
  <2>1. Loaders[n] = LoadPreflightR1
    BY <1>4 DEF Loaders
  <2>2. LoadPreflightR1.look = "named" /\ LoadPreflightR1.pins = PreflightR1Pins
    BY DEF LoadPreflightR1
  <2>3. Len(PreflightR1Pins) = 3
    BY DEF PreflightR1Pins
  <2> QED  BY <1>4, <2>1, <2>2, <2>3
<1>5. CASE n = "preflightR2"
  <2>1. Loaders[n] = LoadPreflightR2
    BY <1>5 DEF Loaders
  <2>2. LoadPreflightR2.look = "named" /\ LoadPreflightR2.pins = PreflightR2Pins
    BY DEF LoadPreflightR2
  <2>3. Len(PreflightR2Pins) = 12
    BY DEF PreflightR2Pins
  <2> QED  BY <1>5, <2>1, <2>2, <2>3
<1>6. CASE n = "lease"
  <2>1. Loaders[n] = LoadGpuLeaseV5
    BY <1>6 DEF Loaders
  <2>2. LoadGpuLeaseV5.look = "held" /\ LoadGpuLeaseV5.pins = LeasePins
    BY DEF LoadGpuLeaseV5
  <2>3. Len(LeasePins) = 4
    BY DEF LeasePins
  <2> QED  BY <1>6, <2>1, <2>2, <2>3
<1>7. CASE n = "safetyvision"
  <2>1. Loaders[n] = LoadSafetyVision
    BY <1>7 DEF Loaders
  <2>2. LoadSafetyVision.look = "held" /\ LoadSafetyVision.pins = SafetyVisionPins
    BY DEF LoadSafetyVision
  <2>3. Len(SafetyVisionPins) = 3
    BY DEF SafetyVisionPins
  <2> QED  BY <1>7, <2>1, <2>2, <2>3
<1>8. CASE n = "construction"
  <2>1. Loaders[n] = LoadConstruction
    BY <1>8 DEF Loaders
  <2>2. LoadConstruction.look = "held" /\ LoadConstruction.pins = ConstructionPins
    BY DEF LoadConstruction
  <2>3. Len(ConstructionPins) = 3
    BY DEF ConstructionPins
  <2> QED  BY <1>8, <2>1, <2>2, <2>3
<1>9. CASE n = "driverR4"
  <2>1. Loaders[n] = LoadDriverR4
    BY <1>9 DEF Loaders
  <2>2. LoadDriverR4.look = "held" /\ LoadDriverR4.pins = DriverR4Pins
    BY DEF LoadDriverR4
  <2>3. Len(DriverR4Pins) = 5
    BY DEF DriverR4Pins
  <2> QED  BY <1>9, <2>1, <2>2, <2>3
<1>10. CASE n = "driverR7"
  <2>1. Loaders[n] = LoadDriverR7
    BY <1>10 DEF Loaders
  <2>2. LoadDriverR7.look = "held" /\ LoadDriverR7.pins = DriverR7Pins
    BY DEF LoadDriverR7
  <2>3. Len(DriverR7Pins) = 10
    BY DEF DriverR7Pins
  <2> QED  BY <1>10, <2>1, <2>2, <2>3
<1>11. CASE n = "builder"
  <2>1. Loaders[n] = LoadEngineBuilder
    BY <1>11 DEF Loaders
  <2>2. LoadEngineBuilder.look = "held" /\ LoadEngineBuilder.pins = EngineBuilderPins
    BY DEF LoadEngineBuilder
  <2>3. Len(EngineBuilderPins) = 8
    BY DEF EngineBuilderPins
  <2> QED  BY <1>11, <2>1, <2>2, <2>3
<1>12. CASE n = "native"
  <2>1. Loaders[n] = LoadNative
    BY <1>12 DEF Loaders
  <2>2. LoadNative.look = "plain" /\ LoadNative.pins = NativePins \o <<"contract", "receipt">>
    BY DEF LoadNative
  <2>3. Len(NativePins \o <<"contract", "receipt">>) = 10
    BY DEF NativePins
  <2> QED  BY <1>12, <2>1, <2>2, <2>3
<1> QED
  BY <1>1, <1>2, <1>3, <1>4, <1>5, <1>6, <1>7, <1>8, <1>9, <1>10, <1>11, <1>12 DEF Loaders

\* What the proofs need to know of the loader of the card that is loaded.
LEMMA TheLoader ==
  ASSUME CardsTyped
  PROVE  /\ LastPin \in Nat \ {0} /\ LastTool = LastPin + 2
         /\ Loader.look \in {"held", "named", "plain"}
         /\ card.name = "lease" => Loader.look = "held"
<1>1. card.name \in DOMAIN Loaders
  BY DEF CardsTyped
<1>2. Len(HostTools) = 2
  BY DEF HostTools
<1> QED
  BY <1>1, <1>2, LoaderFacts DEF Loader, LastPin, LastTool

\* A step that leaves the card's name alone leaves its loader alone.
LEMMA SameLoader ==
  ASSUME card'.name = card.name
  PROVE  Loader' = Loader /\ LastPin' = LastPin /\ LastTool' = LastTool
BY DEF Loader, LastPin, LastTool

LEMMA CardsStart == CardsInit => CardsInv
<1> SUFFICES ASSUME CardsInit PROVE CardsInv
  OBVIOUS
<1>1. card = [name |-> "person", pc |-> "idle", at |-> 1, available |-> FALSE, current |-> TRUE]
  BY DEF CardsInit
<1>2. CardsTyped
  <2>1. "person" \in DOMAIN Loaders
    BY DEF Loaders
  <2>2. card \in [name : DOMAIN Loaders,
                  pc : Reading \cup {"idle", "open", "validate", "root", "show", "shown"},
                  at : Nat \ {0}, available : BOOLEAN, current : BOOLEAN]
    BY <1>1, <2>1
  <2>3. NoHalf \in [1 .. 2 -> BOOLEAN]
    BY DEF NoHalf
  <2> QED
    BY <2>2, <2>3 DEF CardsInit, CardsTyped, Unopened
<1>3. LastPin \in Nat \ {0}
  BY <1>2, TheLoader
<1> QED
  BY <1>1, <1>2, <1>3 DEF CardsInv, TimesPassed, ReadAsThere, ProvenSoFar, Placed, Reading

\* Somebody changes the open file.
LEMMA ChangedStep ==
  ASSUME CardsInv, NEW f, Changed(f),
         f \in [half : [1 .. 2 -> BOOLEAN], frozen : BOOLEAN, named : BOOLEAN, mtime : Nat,
                ctime : Nat, was : [mtime : Nat, ctime : Nat]],
         f.was = file.was, f.ctime = cardEdits + 1,
         \/ f.mtime = cardEdits + 1
         \/ f.mtime = file.mtime /\ f.half = file.half
  PROVE  CardsInv'
<1>1. /\ card' = card /\ got' = got /\ proven' = proven
      /\ file' = f /\ cardEdits' = cardEdits + 1 /\ truly' = (truly \/ AsPinned(f))
      /\ card.pc \in Reading
  BY DEF Changed, Reading
<1>2. Loader' = Loader /\ LastPin' = LastPin /\ LastTool' = LastTool /\ Look' = Look
  BY <1>1, SameLoader DEF Look
<1>3. CardsTyped'
  BY <1>1 DEF CardsInv, CardsTyped
<1>4. /\ file.mtime \in Nat /\ file.ctime \in Nat /\ cardEdits \in Nat
      /\ file.was.mtime \in Nat /\ file.was.ctime \in Nat
      /\ file.mtime <= cardEdits /\ file.ctime <= cardEdits
      /\ file.was.mtime <= cardEdits /\ file.was.ctime <= cardEdits
  BY <1>1 DEF CardsInv, CardsTyped, TimesPassed
<1>5. TimesPassed'
  BY <1>1, <1>4 DEF TimesPassed
<1>6. Untouched' => Untouched /\ f.half = file.half
  BY <1>1, <1>4 DEF Untouched
<1>7. LooksTheSame' => LooksTheSame /\ Look # "named"
  BY <1>1, <1>2, <1>4, <1>6 DEF LooksTheSame, Whole
<1>8. ReadAsThere'
  BY <1>1, <1>2, <1>6, <1>7 DEF CardsInv, CardsTyped, ReadAsThere
<1>9. ProvenSoFar' /\ Placed'
  BY <1>1, <1>2 DEF CardsInv, ProvenSoFar, Standing, Placed
<1> QED
  BY <1>3, <1>5, <1>8, <1>9 DEF CardsInv

\* Any exception: the card is not available.
LEMMA UnavailableStep ==
  ASSUME CardsInv, Unavailable, CardsTyped'
  PROVE  CardsInv'
<1>1. /\ card' = [card EXCEPT !.pc = "shown", !.available = FALSE, !.current = FALSE]
      /\ card'.pc = "shown" /\ ~card'.available
  BY DEF Unavailable, CardsInv, CardsTyped
<1> QED
  BY <1>1 DEF CardsInv, TimesPassed, ReadAsThere, ProvenSoFar, Standing, Placed, Reading

\* A file is accepted that was as pinned at one moment.
LEMMA AcceptStep ==
  ASSUME CardsInv, Accept, card.pc \in Reading, Loader.look = "plain" \/ truly,
         UNCHANGED <<file, got, cardEdits, truly>>
  PROVE  CardsInv'
<1>1. /\ card.name \in DOMAIN Loaders /\ card.at \in Nat \ {0}
      /\ LastPin \in Nat \ {0} /\ LastTool = LastPin + 2
      /\ ~card.available
      /\ card.at <= LastPin \/ (card.name = "lease" /\ card.at <= LastTool)
  BY TheLoader DEF CardsInv, CardsTyped, Placed, Reading
<1> DEFINE pc == IF card.at = LastPin THEN "validate"
                 ELSE IF card.at = LastTool THEN "show" ELSE "open"
<1>2. /\ card' = [card EXCEPT !.at = @ + 1, !.pc = pc]
      /\ card'.at = card.at + 1 /\ card'.pc = pc /\ card'.name = card.name
      /\ card'.available = card.available /\ card'.current = card.current
  BY DEF Accept, CardsInv, CardsTyped
<1>3. Loader' = Loader /\ LastPin' = LastPin /\ LastTool' = LastTool
  BY <1>2, SameLoader
<1>4. CardsTyped'
  <2>1. pc \in Reading \cup {"idle", "open", "validate", "root", "show", "shown"}
    OBVIOUS
  <2>2. card.at + 1 \in Nat \ {0}
    BY <1>1
  <2> HIDE DEF pc
  <2> QED
    BY <1>2, <2>1, <2>2 DEF CardsInv, CardsTyped
<1>5. pc \notin Reading /\ pc \in {"validate", "show", "open"}
  BY DEF Reading
<1>6. TimesPassed' /\ ReadAsThere'
  BY <1>2, <1>5 DEF TimesPassed, ReadAsThere
<1>7. ProvenSoFar'
  <2>1. Loader.look # "plain" => proven' = proven \cup {card.at}
    BY DEF Accept
  <2>2. card.pc # "shown"
    BY DEF Reading
  <2> QED
    BY <1>1, <1>2, <1>3, <2>1, <2>2 DEF CardsInv, ProvenSoFar, Standing
<1>8. Placed'
  <2> HIDE DEF pc
  <2>1. /\ pc = "validate" => card.at = LastPin
        /\ pc = "show" => card.at = LastTool
        /\ pc = "open" => card.at # LastPin /\ card.at # LastTool
    BY <1>1 DEF pc
  <2> QED
    BY <1>1, <1>2, <1>3, <1>5, <2>1 DEF Placed
<1> QED
  BY <1>4, <1>6, <1>7, <1>8 DEF CardsInv

LEMMA CardsStep == CardsInv /\ CardsNext => CardsInv'
<1> SUFFICES ASSUME CardsInv, CardsNext PROVE CardsInv'
  OBVIOUS
<1>t. /\ LastPin \in Nat \ {0} /\ LastTool = LastPin + 2
      /\ Loader.look \in {"held", "named", "plain"}
      /\ card.name = "lease" => Loader.look = "held"
  BY TheLoader DEF CardsInv
<1>1. CASE BeginCard
  <2>1. PICK name \in DOMAIN Loaders : card' = [card EXCEPT !.name = name, !.pc = "open"]
    BY <1>1 DEF BeginCard
  <2>2. /\ card'.name = name /\ card'.pc = "open" /\ card'.at = 1 /\ ~card'.available
        /\ UNCHANGED <<file, got, cardEdits, truly, proven>>
    BY <1>1, <2>1 DEF BeginCard, CardsInv, CardsTyped, Placed
  <2>3. CardsTyped'
    BY <2>1, <2>2 DEF CardsInv, CardsTyped
  <2>4. LastPin' \in Nat \ {0}
    BY <2>2, LoaderFacts DEF LastPin, Loader
  <2>5. TimesPassed' /\ ReadAsThere'
    BY <2>2 DEF TimesPassed, ReadAsThere, Reading
  <2>6. ProvenSoFar'
    BY <2>2 DEF ProvenSoFar
  <2>7. Placed'
    <3>1. card'.at <= LastPin' /\ card'.pc = "open" /\ ~card'.available
      BY <2>2, <2>4
    <3> QED
      BY <3>1 DEF Placed
  <2> QED
    BY <2>3, <2>5, <2>6, <2>7 DEF CardsInv
<1>2. CASE OpenFile
  <2>1. PICK half \in [1 .. 2 -> BOOLEAN], frozen \in BOOLEAN, named \in BOOLEAN :
          LET f == [half |-> half, frozen |-> frozen, named |-> named, mtime |-> cardEdits,
                    ctime |-> cardEdits, was |-> [mtime |-> cardEdits, ctime |-> cardEdits]]
          IN  /\ file' = f /\ truly' = AsPinned(f)
              /\ IF Look \in {"held", "named"} /\ ~frozen
                   THEN Unavailable
                   ELSE Go("first") /\ UNCHANGED proven
    BY <1>2 DEF OpenFile
  <2> DEFINE f == [half |-> half, frozen |-> frozen, named |-> named, mtime |-> cardEdits,
                    ctime |-> cardEdits, was |-> [mtime |-> cardEdits, ctime |-> cardEdits]]
  <2>2. /\ file' = f /\ truly' = AsPinned(f) /\ card.pc = "open"
        /\ got' = NoHalf /\ UNCHANGED <<cardEdits>>
    BY <1>2, <2>1 DEF OpenFile
  <2>3. /\ file' \in [half : [1 .. 2 -> BOOLEAN], frozen : BOOLEAN, named : BOOLEAN, mtime : Nat,
                      ctime : Nat, was : [mtime : Nat, ctime : Nat]]
        /\ got' \in [1 .. 2 -> BOOLEAN] /\ truly' \in BOOLEAN /\ cardEdits' \in Nat
    <3>1. NoHalf \in [1 .. 2 -> BOOLEAN]
      BY DEF NoHalf
    <3>2. AsPinned(f) \in BOOLEAN
      BY DEF AsPinned
    <3> QED
      BY <2>2, <3>1, <3>2 DEF CardsInv, CardsTyped
  <2>4. CASE Unavailable
    <3>1. CardsTyped'
      BY <2>3, <2>4 DEF CardsInv, CardsTyped, Unavailable
    <3> QED
      BY <2>4, <3>1, UnavailableStep
  <2>5. CASE ~Unavailable
    <3>1. /\ ~(Look \in {"held", "named"} /\ ~frozen)
          /\ card' = [card EXCEPT !.pc = "first"] /\ UNCHANGED proven
      BY <2>1, <2>5 DEF Go
    <3>2. /\ card'.name = card.name /\ card'.pc = "first" /\ card'.at = card.at
          /\ card'.available = card.available /\ card'.current = card.current
      BY <3>1 DEF CardsInv, CardsTyped
    <3>3. Loader' = Loader /\ LastPin' = LastPin /\ LastTool' = LastTool /\ Look' = Look
      BY <3>2, SameLoader DEF Look
    <3>4. CardsTyped'
      BY <2>3, <3>1 DEF CardsInv, CardsTyped, Reading
    <3>5. /\ file'.mtime = cardEdits /\ file'.ctime = cardEdits /\ file'.was.mtime = cardEdits
          /\ file'.was.ctime = cardEdits /\ cardEdits' = cardEdits /\ cardEdits \in Nat
          /\ file'.half = half /\ file'.frozen = frozen /\ file'.named = named
      BY <2>2 DEF CardsInv, CardsTyped
    <3>6. TimesPassed'
      BY <3>5 DEF TimesPassed
    <3>7. LooksTheSame' => AsPinned(f)
      BY <3>1, <3>3, <3>5 DEF LooksTheSame, Whole, AsPinned
    <3>8. ReadAsThere'
      BY <2>2, <3>2, <3>7 DEF ReadAsThere
    <3>9. ProvenSoFar' /\ Placed'
      BY <1>t, <2>2, <3>1, <3>2, <3>3
      DEF CardsInv, ProvenSoFar, Standing, Placed, Reading
    <3> QED
      BY <3>4, <3>6, <3>8, <3>9 DEF CardsInv
  <2> QED
    BY <2>4, <2>5
<1>3. CASE ReadHalf
  <2>1. /\ UNCHANGED <<file, cardEdits, truly, proven>>
        /\ \/ /\ card.pc = "first" /\ got' = [got EXCEPT ![1] = file.half[1]]
              /\ card' = [card EXCEPT !.pc = "second"]
           \/ /\ card.pc = "second" /\ got' = [got EXCEPT ![2] = file.half[2]]
              /\ card' = [card EXCEPT !.pc = "after"]
    BY <1>3 DEF ReadHalf, Go
  <2>2. /\ card'.name = card.name /\ card'.at = card.at
        /\ card'.available = card.available /\ card'.current = card.current
        /\ card.pc \in Reading /\ card'.pc \in {"second", "after"}
        /\ card'.pc = "second" => got'[1] = file.half[1]
        /\ card'.pc = "after" => got'[1] = got[1] /\ got'[2] = file.half[2] /\ card.pc = "second"
    BY <2>1 DEF CardsInv, CardsTyped, Reading
  <2>3. Loader' = Loader /\ LastPin' = LastPin /\ LastTool' = LastTool /\ Look' = Look
    BY <2>2, SameLoader DEF Look
  <2>4. CardsTyped'
    BY <2>1 DEF CardsInv, CardsTyped, Reading
  <2>5. TimesPassed' /\ ReadAsThere'
    BY <2>1, <2>2, <2>3
    DEF CardsInv, TimesPassed, ReadAsThere, Untouched, LooksTheSame, Whole, Reading
  <2>6. ProvenSoFar' /\ Placed'
    BY <1>t, <2>1, <2>2, <2>3
    DEF CardsInv, ProvenSoFar, Standing, Placed, Reading
  <2> QED
    BY <2>4, <2>5, <2>6 DEF CardsInv
<1>4. CASE CompareRead
  <2>1. /\ card.pc = "after" /\ card.pc \in Reading /\ UNCHANGED <<file, got, cardEdits, truly>>
    BY <1>4 DEF CompareRead, Reading
  <2>2. CASE Unavailable
    <3>1. CardsTyped'
      BY <2>1, <2>2 DEF CardsInv, CardsTyped, Unavailable
    <3> QED
      BY <2>1, <2>2, <3>1, UnavailableStep
  <2>3. CASE Go("name") /\ UNCHANGED proven /\ Look = "named"
    <3>1. /\ card' = [card EXCEPT !.pc = "name"] /\ card'.name = card.name /\ card'.at = card.at
          /\ card'.available = card.available /\ card'.current = card.current /\ card'.pc = "name"
      BY <2>3 DEF Go, CardsInv, CardsTyped
    <3>2. Loader' = Loader /\ LastPin' = LastPin /\ LastTool' = LastTool /\ Look' = Look
      BY <3>1, SameLoader DEF Look
    <3>3. CardsTyped'
      BY <2>1, <3>1 DEF CardsInv, CardsTyped, Reading
    <3>4. TimesPassed' /\ ReadAsThere'
      BY <2>1, <3>1, <3>2
      DEF CardsInv, TimesPassed, ReadAsThere, Untouched, LooksTheSame, Whole, Reading
    <3>5. ProvenSoFar' /\ Placed'
      BY <1>t, <2>1, <2>3, <3>1, <3>2
      DEF CardsInv, ProvenSoFar, Standing, Placed, Reading
    <3> QED
      BY <3>3, <3>4, <3>5 DEF CardsInv
  <2>4. CASE Accept /\ Unchanged /\ Digested /\ Look # "named"
    <3>1. Loader.look = "plain" \/ truly
      <4>1. Look = "plain" => Loader.look = "plain"
        BY DEF Look
      <4>2. Look # "plain" => LooksTheSame
        BY <2>1, <2>4 DEF CardsInv, ReadAsThere, Unchanged, Digested, LooksTheSame, Untouched, Whole
      <4> QED
        BY <2>1, <4>1, <4>2 DEF CardsInv, ReadAsThere
    <3> QED
      BY <2>1, <2>4, <3>1, AcceptStep
  <2>5. CASE /\ Look = "tool" /\ UNCHANGED proven
             /\ card' = [card EXCEPT !.current = FALSE, !.at = @ + 1,
                                     !.pc = IF card.at = LastTool THEN "show" ELSE "open"]
    <3> DEFINE pc == IF card.at = LastTool THEN "show" ELSE "open"
    <3>1. card.at > LastPin
      BY <1>t, <2>5 DEF Look, CardsInv, CardsTyped
    <3>2. card.name = "lease" /\ card.at <= LastTool /\ card.at \in Nat
      BY <1>t, <2>1, <3>1 DEF CardsInv, Placed, CardsTyped
    <3>3. /\ card'.name = card.name /\ card'.at = card.at + 1 /\ ~card'.current
          /\ card'.available = card.available /\ card'.pc = pc
      BY <2>5 DEF CardsInv, CardsTyped
    <3>4. Loader' = Loader /\ LastPin' = LastPin /\ LastTool' = LastTool
      BY <3>3, SameLoader
    <3>6. pc \notin Reading /\ pc \in {"show", "open"}
      BY DEF Reading
    <3>5. CardsTyped'
      <4>1. card' = [card EXCEPT !.current = FALSE, !.at = @ + 1, !.pc = pc]
        BY <2>5
      <4>2. card.at + 1 \in Nat \ {0}
        BY <3>2
      <4> HIDE DEF pc
      <4>3. pc \in Reading \cup {"idle", "open", "validate", "root", "show", "shown"}
        BY <3>6
      <4> QED
        BY <2>1, <4>1, <4>2, <4>3 DEF CardsInv, CardsTyped
    <3>7. TimesPassed' /\ ReadAsThere'
      BY <3>3, <3>6 DEF TimesPassed, ReadAsThere
    <3>8. ProvenSoFar'
      BY <1>t, <2>1, <2>5, <3>1, <3>2, <3>3, <3>4 DEF CardsInv, ProvenSoFar, Standing
    <3>9. Placed'
      BY <1>t, <2>1, <3>1, <3>2, <3>3, <3>4, <3>6 DEF CardsInv, Placed
    <3> QED
      BY <3>5, <3>7, <3>8, <3>9 DEF CardsInv
  <2> QED
    BY <1>4, <2>2, <2>3, <2>4, <2>5 DEF CompareRead
<1>5. CASE CompareName
  <2>1. /\ card.pc = "name" /\ card.pc \in Reading /\ UNCHANGED <<file, got, cardEdits, truly>>
    BY <1>5 DEF CompareName, Reading
  <2>2. CASE Unavailable
    <3>1. CardsTyped'
      BY <2>1, <2>2 DEF CardsInv, CardsTyped, Unavailable
    <3> QED
      BY <2>1, <2>2, <3>1, UnavailableStep
  <2>3. CASE Accept /\ file.named /\ Unchanged /\ Digested
    <3>1. Loader.look = "plain" \/ truly
      <4>1. Look = "plain" => Loader.look = "plain"
        BY DEF Look
      <4>2. Look # "plain" => LooksTheSame
        BY <2>1, <2>3 DEF CardsInv, ReadAsThere, Unchanged, Digested, LooksTheSame, Untouched, Whole
      <4> QED
        BY <2>1, <4>1, <4>2 DEF CardsInv, ReadAsThere
    <3> QED
      BY <2>1, <2>3, <3>1, AcceptStep
  <2> QED
    BY <1>5, <2>2, <2>3 DEF CompareName
<1>6. CASE Validate
  <2>1. card.pc = "validate" /\ UNCHANGED <<file, got, cardEdits, truly>>
    BY <1>6 DEF Validate
  <2>2. CASE Unavailable
    <3>1. CardsTyped'
      BY <2>1, <2>2 DEF CardsInv, CardsTyped, Unavailable
    <3> QED
      BY <2>1, <2>2, <3>1, UnavailableStep
  <2>3. CASE ~Unavailable
    <3> DEFINE pc == IF card.name = "lease" THEN "root" ELSE "show"
    <3>1. /\ card' = [card EXCEPT !.pc = pc] /\ proven' = proven
      BY <1>6, <2>3 DEF Validate, Go
    <3>3. /\ card'.name = card.name /\ card'.at = card.at /\ card'.pc = pc
          /\ card'.available = card.available /\ card'.current = card.current
      BY <3>1 DEF CardsInv, CardsTyped
    <3>4. Loader' = Loader /\ LastPin' = LastPin /\ LastTool' = LastTool
      BY <3>3, SameLoader
    <3>5. CardsTyped'
      BY <2>1, <3>1 DEF CardsInv, CardsTyped, Reading
    <3>6. pc \notin Reading /\ pc \in {"root", "show"} /\ (pc = "root" <=> card.name = "lease")
      BY DEF Reading
    <3> HIDE DEF pc
    <3>7. TimesPassed' /\ ReadAsThere'
      BY <3>3, <3>6 DEF TimesPassed, ReadAsThere
    <3>8. ProvenSoFar' /\ Placed'
      BY <1>t, <2>1, <3>1, <3>3, <3>4, <3>6 DEF CardsInv, ProvenSoFar, Standing, Placed
    <3> QED
      BY <3>5, <3>7, <3>8 DEF CardsInv
  <2> QED
    BY <2>2, <2>3
<1>7. CASE ResultRoot
  <2>1. card.pc = "root" /\ UNCHANGED <<file, got, cardEdits, truly>>
    BY <1>7 DEF ResultRoot
  <2>2. CASE Unavailable
    <3>1. CardsTyped'
      BY <2>1, <2>2 DEF CardsInv, CardsTyped, Unavailable
    <3> QED
      BY <2>1, <2>2, <3>1, UnavailableStep
  <2>3. CASE Go("open") /\ UNCHANGED proven
    <3>1. /\ card' = [card EXCEPT !.pc = "open"] /\ card'.name = card.name /\ card'.at = card.at
          /\ card'.available = card.available /\ card'.current = card.current /\ card'.pc = "open"
      BY <2>3 DEF Go, CardsInv, CardsTyped
    <3>2. Loader' = Loader /\ LastPin' = LastPin /\ LastTool' = LastTool
      BY <3>1, SameLoader
    <3>3. CardsTyped'
      BY <2>1, <3>1 DEF CardsInv, CardsTyped, Reading
    <3>4. TimesPassed' /\ ReadAsThere'
      BY <3>1 DEF TimesPassed, ReadAsThere, Reading
    <3>5. ProvenSoFar' /\ Placed'
      BY <1>t, <2>1, <2>3, <3>1, <3>2
      DEF CardsInv, ProvenSoFar, Standing, Placed, Reading
    <3> QED
      BY <3>3, <3>4, <3>5 DEF CardsInv
  <2> QED
    BY <1>7, <2>2, <2>3 DEF ResultRoot
<1>8. CASE Show
  <2>1. PICK boot \in BOOLEAN :
          card' = [card EXCEPT !.pc = "shown", !.available = TRUE, !.current = @ /\ boot]
    BY <1>8 DEF Show
  <2>2. card.pc = "show" /\ UNCHANGED <<file, got, cardEdits, truly, proven>>
    BY <1>8 DEF Show
  <2>3. /\ card'.name = card.name /\ card'.at = card.at /\ card'.pc = "shown"
        /\ card'.available /\ (card'.current => card.current)
    BY <2>1 DEF CardsInv, CardsTyped
  <2>4. Loader' = Loader /\ LastPin' = LastPin /\ LastTool' = LastTool
    BY <2>3, SameLoader
  <2>5. CardsTyped'
    BY <2>1, <2>2 DEF CardsInv, CardsTyped, Reading
  <2>6. TimesPassed' /\ ReadAsThere'
    BY <2>3 DEF TimesPassed, ReadAsThere, Reading
  <2>7. ProvenSoFar' /\ Placed'
    BY <1>t, <2>2, <2>3, <2>4
    DEF CardsInv, ProvenSoFar, Standing, Placed, Reading
  <2> QED
    BY <2>5, <2>6, <2>7 DEF CardsInv
<1>9. CASE Chmod \/ RenameFile \/ \E h \in {1, 2} : WriteHalf(h)
  <2>1. /\ file \in [half : [1 .. 2 -> BOOLEAN], frozen : BOOLEAN, named : BOOLEAN, mtime : Nat,
                     ctime : Nat, was : [mtime : Nat, ctime : Nat]]
        /\ cardEdits + 1 \in Nat
    BY DEF CardsInv, CardsTyped
  <2>2. CASE Chmod
    <3> DEFINE f == [file EXCEPT !.frozen = ~@, !.ctime = cardEdits + 1]
    <3>1. Changed(f)
      BY <2>2 DEF Chmod
    <3>2. /\ f \in [half : [1 .. 2 -> BOOLEAN], frozen : BOOLEAN, named : BOOLEAN, mtime : Nat,
                    ctime : Nat, was : [mtime : Nat, ctime : Nat]]
          /\ f.was = file.was /\ f.ctime = cardEdits + 1
          /\ f.mtime = file.mtime /\ f.half = file.half
      BY <2>1
    <3> HIDE DEF f
    <3> QED
      BY <3>1, <3>2, ChangedStep
  <2>3. CASE RenameFile
    <3> DEFINE f == [file EXCEPT !.named = ~@, !.ctime = cardEdits + 1]
    <3>1. Changed(f)
      BY <2>3 DEF RenameFile
    <3>2. /\ f \in [half : [1 .. 2 -> BOOLEAN], frozen : BOOLEAN, named : BOOLEAN, mtime : Nat,
                    ctime : Nat, was : [mtime : Nat, ctime : Nat]]
          /\ f.was = file.was /\ f.ctime = cardEdits + 1
          /\ f.mtime = file.mtime /\ f.half = file.half
      BY <2>1
    <3> HIDE DEF f
    <3> QED
      BY <3>1, <3>2, ChangedStep
  <2>4. ASSUME NEW h \in {1, 2}, WriteHalf(h) PROVE CardsInv'
    <3> DEFINE f == [file EXCEPT !.half[h] = ~@, !.mtime = cardEdits + 1, !.ctime = cardEdits + 1]
    <3>1. Changed(f)
      BY <2>4 DEF WriteHalf
    <3>2. /\ f \in [half : [1 .. 2 -> BOOLEAN], frozen : BOOLEAN, named : BOOLEAN, mtime : Nat,
                    ctime : Nat, was : [mtime : Nat, ctime : Nat]]
          /\ f.was = file.was /\ f.ctime = cardEdits + 1 /\ f.mtime = cardEdits + 1
      BY <2>1
    <3> HIDE DEF f
    <3> QED
      BY <3>1, <3>2, ChangedStep
  <2> QED
    BY <1>9, <2>2, <2>3, <2>4
<1> QED
  BY <1>1, <1>2, <1>3, <1>4, <1>5, <1>6, <1>7, <1>8, <1>9 DEF CardsNext

LEMMA CardsInvSound == CardsInv => CardsAreTrue
<1> SUFFICES ASSUME CardsInv PROVE CardsAreTrue
  OBVIOUS
<1>1. /\ LastPin \in Nat \ {0} /\ LastTool = LastPin + 2
      /\ card.name = "lease" => Loader.look = "held"
  BY TheLoader DEF CardsInv
<1>2. ShownWasThere
  BY <1>1 DEF CardsInv, ShownWasThere, ProvenSoFar, Standing, Placed
<1>3. CurrentToolsWereThere
  BY <1>1 DEF CardsInv, CurrentToolsWereThere, ProvenSoFar, Standing, Placed
<1> QED
  BY <1>2, <1>3 DEF CardsAreTrue

-----------------------------------------------------------------------------
(* The validation page                                                     *)

Version == {"v1", "v2"}
Among(x, s) == \E i \in 1 .. Len(s) : s[i] = x

\* The files that a receipt pins, and how.
Inputs(v)  == IF v = "v1" THEN EnduranceFiles \cup {"generators"} ELSE {"evidence"}
Outputs(v) == IF v = "v1" THEN Reports ELSE {"objective", "product"}
PinnedFiles(v)  == Inputs(v) \cup Outputs(v)
Pin(v, receipt, f) == IF f \in Inputs(v) THEN receipt.inputs[f] ELSE receipt.outputs[f]

\* What a generator or a finalizer never writes otherwise: a report that names its documents
\* accepts the endurance run only when it is complete, decides for the campaign and claims
\* it only when it accepts the endurance run, and a complete objective is of such a run.
SoundCampaign(c) ==
  /\ c \in CampaignReports
  /\ c.pins # Absent => /\ c.endurance => Completed(c.pins)
                        /\ c.accepted \/ c.claims => c.endurance
SoundObjective(c) == c \in ObjectiveReports /\ (c.complete => c.campaign.endurance)

SoundReceipt(c) ==
  /\ c \in Receipts
  /\ \A f \in EnduranceFiles : c.inputs[f] \in Documents /\ c.inputs[f].run = c.run
  /\ c.inputs["status"].state = "complete" /\ c.inputs["generators"] \in Nat
  /\ SoundCampaign(c.outputs["campaign"]) /\ c.outputs["campaign"].pins # Absent
  /\ SoundObjective(c.outputs["objective"])

SoundReceiptV2(c) == c \in ReceiptsV2 /\ SoundObjective(c.outputs["objective"])

SoundFor(v, c) == IF v = "v1" THEN SoundReceipt(c) ELSE SoundReceiptV2(c)

Sound(f, c) ==
  /\ f \in EnduranceFiles => c \in Documents
  /\ f \in {"generators", "evidence"} => c \in Nat
  /\ f = "campaign" => SoundCampaign(c)
  /\ f = "objective" => c = Absent \/ SoundObjective(c)
  /\ f = "product" => c = Absent \/ c \in ProductReports
  /\ f = "receipt" => c = Absent \/ SoundReceipt(c)
  /\ f = "receiptV2" => c = Absent \/ SoundReceiptV2(c)

\* The files and who writes them.
ByFinalizer == Reports \cup {"receipt", "receiptV2"}

FilesTyped ==
  /\ disk = [f \in File |-> disk[f]]
  /\ \A f \in File : Sound(f, disk[f])
  /\ runs \in Nat /\ reports \in Nat
  /\ writing \in Seq(EnduranceFiles \X Documents)
  /\ finalizing \in Seq(ByFinalizer) /\ (writing = <<>> \/ finalizing = <<>>)
  /\ disk["status"].run <= runs
  /\ \A i \in 1 .. Len(writing) : writing[i][2].run <= runs
  /\ \A f \in Reports : disk[f] # Absent => disk[f].report <= reports

\* A pinned file is as pinned, or so far ahead that it is never again.
Age(c) == IF c = Absent THEN 0 ELSE c.report + 1
Overtaken(f, pin, c) ==
  /\ f \in EnduranceFiles => pin.run < c.run
  /\ f \in {"generators", "evidence"} => pin < c
  /\ f \in Reports => Age(pin) < Age(c)

PinsLast(v, receipt) ==
  /\ \A f \in PinnedFiles(v) :
       disk[f] = Pin(v, receipt, f) \/ Overtaken(f, Pin(v, receipt, f), disk[f])
  /\ v = "v1" => receipt.run <= runs /\ \A i \in 1 .. Len(writing) : receipt.run < writing[i][2].run

Known(v) == {disk[ReceiptFile(v)], cache[ReceiptFile(v)]} \ {Absent, Unread}

\* How far the request is.
Checking(v) == IF v = "v1" THEN {"inputs", "lineage", "outputs"} ELSE {"inputsV2", "outputsV2"}
BeforeV2 == {"inputs", "lineage", "outputs", "receiptV2"}
Looking == Checking("v1") \cup Checking("v2") \cup {"sections"}
Stages == Looking \cup {"idle", "receiptV2", "shown"}
Shown == EnduranceFiles \cup Reports

RequestTyped ==
  /\ stage \in Stages /\ left \in Seq(File)
  /\ stage \in Looking => left # <<>>
  /\ cache = [f \in File |-> cache[f]]
  /\ \A f \in File : cache[f] = Unread \/ Sound(f, cache[f])
  /\ bundle = [v \in Version |-> bundle[v]]
  /\ together = [v \in Version |-> together[v]]
  /\ stage = "idle" => (\A f \in File : cache[f] = Unread) /\ Committed = {}

ToRead(those) == \A f \in those : Among(f, left) \/ cache[f] # Unread
ToCompare(v) == \A f \in Outputs(v) : Among(f, left) \/ cache[f] = ReceiptOf(v).outputs[f]
LineageHolds ==
  (\A f \in EnduranceFiles : cache[f] # Unread) /\ IdentityHolds(ShownDocs)

\* What is done of a stage, and what a committed receipt rests on.
Progress ==
  /\ \A v \in Version : stage \in Checking(v) =>
       ReceiptOf(v) \notin {Absent, Unread} /\ ReceiptOf(v).whole
  /\ stage \in BeforeV2 => cache["receiptV2"] = Unread
  /\ stage = "inputs" => \A i \in 1 .. Len(left) : left[i] \in Inputs("v1")
  /\ stage = "inputsV2" => \A i \in 1 .. Len(left) : left[i] \in Inputs("v2")
  /\ stage = "outputs" => \A i \in 1 .. Len(left) : left[i] \in Outputs("v1")
  /\ stage = "outputsV2" => \A i \in 1 .. Len(left) : left[i] \in Outputs("v2")
  /\ stage = "lineage" => ToRead(EnduranceFiles) /\ \A i \in 1 .. Len(left) : left[i] \in EnduranceFiles
  /\ stage = "outputs" => LineageHolds /\ ToCompare("v1")
  /\ stage = "outputsV2" => ToCompare("v2")
  /\ stage = "sections" => ToRead(Shown)
  /\ stage = "shown" => \A f \in Shown : cache[f] # Unread

Earned(v) ==
  v \in Committed =>
    /\ ReceiptOf(v) \notin {Absent, Unread}
    /\ ReceiptOf(v) \in together[v]
    /\ \A f \in Outputs(v) : cache[f] = ReceiptOf(v).outputs[f]
    /\ SemanticsHold(v, cache)
    /\ v = "v1" => LineageHolds

\* A receipt was true at one moment of the request, or the request will still find the file
\* that makes it wrong.
Awaits(v, f) ==
  \/ stage = (IF v = "v1" THEN "inputs" ELSE "inputsV2") /\ Among(f, left)
  \/ v = "v2" /\ stage \in BeforeV2

Found(v, receipt) ==
  \E f \in PinnedFiles(v) :
    /\ disk[f] # Pin(v, receipt, f)
    /\ IF f \in Inputs(v) THEN Awaits(v, f) ELSE cache[f] # Pin(v, receipt, f)

Witnessed(v, receipt) == receipt.whole => receipt \in together[v] \/ Found(v, receipt)

Honest ==
  /\ \A v \in Version : stage \in Checking(v) => Witnessed(v, ReceiptOf(v))
  /\ stage \in BeforeV2 /\ disk["receiptV2"] # Absent => Witnessed("v2", disk["receiptV2"])

StatusInv ==
  /\ FilesTyped /\ RequestTyped /\ Progress /\ Honest
  /\ \A v \in Version : \A receipt \in Known(v) : PinsLast(v, receipt)
  /\ \A v \in Version : Earned(v)

-----------------------------------------------------------------------------
LEMMA HeadAndTail ==
  ASSUME NEW S, NEW s \in Seq(S), s # <<>>
  PROVE  /\ Len(s) > 0 /\ Head(s) \in S /\ Head(s) = s[1] /\ Tail(s) \in Seq(S)
         /\ Len(Tail(s)) = Len(s) - 1
         /\ \A i \in 1 .. Len(Tail(s)) : i + 1 \in 1 .. Len(s) /\ Tail(s)[i] = s[i + 1]
OBVIOUS

LEMMA AmongTail ==
  ASSUME NEW S, NEW s \in Seq(S), s # <<>>, NEW x, Among(x, s)
  PROVE  x = Head(s) \/ Among(x, Tail(s))
<1>1. PICK i \in 1 .. Len(s) : s[i] = x
  BY DEF Among
<1>2. CASE i = 1
  BY <1>1, <1>2, HeadAndTail
<1>3. CASE i # 1
  <2>1. i - 1 \in 1 .. Len(Tail(s)) /\ Tail(s)[i - 1] = s[i]
    BY <1>1, <1>3, HeadAndTail
  <2> QED
    BY <1>1, <2>1 DEF Among
<1> QED
  BY <1>2, <1>3

LEMMA Sequence3 ==
  ASSUME NEW S, NEW a \in S, NEW b \in S, NEW c \in S
  PROVE  <<a, b, c>> \in Seq(S)
OBVIOUS

LEMMA Sequence4 ==
  ASSUME NEW S, NEW a \in S, NEW b \in S, NEW c \in S, NEW d \in S
  PROVE  <<a, b, c, d>> \in Seq(S)
OBVIOUS

\* No mark is taken for a content.
LEMMA MarksAreNoContents ==
  ASSUME NEW f \in File, NEW c, Sound(f, c)
  PROVE  c # Unread
<1>1. CASE f \in EnduranceFiles
  BY <1>1, StatusMarks DEF Sound
<1>2. CASE f \in {"generators", "evidence"}
  BY <1>2, StatusMarks DEF Sound
<1>3. CASE f \in Reports
  BY <1>3, StatusMarks DEF Sound, Reports, SoundCampaign, SoundObjective, AnyReport
<1>4. CASE f \in {"receipt", "receiptV2"}
  BY <1>4, StatusMarks DEF Sound, SoundReceipt, SoundReceiptV2
<1> QED
  BY <1>1, <1>2, <1>3, <1>4 DEF File

-----------------------------------------------------------------------------
(* What a step of a writer does *)

\* Contents only go forward.
Forward ==
  /\ \A f \in EnduranceFiles : disk'[f] = disk[f] \/ \E i \in 1 .. Len(writing) : disk'[f].run = writing[i][2].run
  /\ \A f \in {"generators", "evidence"} : disk'[f] = disk[f] \/ disk[f] < disk'[f]
  /\ \A f \in Reports : disk'[f] = disk[f] \/ Age(disk[f]) < Age(disk'[f])
  /\ runs <= runs'
  /\ \A i \in 1 .. Len(writing') :
       \/ runs < writing'[i][2].run
       \/ \E j \in 1 .. Len(writing) : writing'[i][2].run = writing[j][2].run
       \/ disk["status"].state = "running" /\ writing'[i][2].run = disk["status"].run

\* A receipt is written once all that it pins is there, or spoiled.
NewReceipt(v, receipt) ==
  /\ receipt # Absent
  /\ \A f \in PinnedFiles(v) : disk'[f] = Pin(v, receipt, f)
  /\ v = "v1" => receipt.run <= runs' /\ writing' = <<>>

SpoiledReceipt(v, old, receipt) ==
  /\ old # Absent /\ receipt # Absent /\ ~receipt.whole
  /\ \A f \in PinnedFiles(v) : Pin(v, receipt, f) = Pin(v, old, f)
  /\ v = "v1" => receipt.run = old.run

ReceiptGoes(v, old, receipt) ==
  receipt = old \/ NewReceipt(v, receipt) \/ SpoiledReceipt(v, old, receipt)

WriterGoes ==
  /\ FilesTyped' /\ Forward /\ UNCHANGED requestVars
  /\ \A v \in Version : ReceiptGoes(v, disk[ReceiptFile(v)], disk'[ReceiptFile(v)])

LEMMA OneWrite ==
  ASSUME FilesTyped, NEW f \in File, NEW c, Sound(f, c), Written(f, c)
  PROVE  /\ disk' = [g \in File |-> disk'[g]]
         /\ disk'[f] = c
         /\ \A g \in File \ {f} : disk'[g] = disk[g]
         /\ \A g \in File : Sound(g, disk'[g])
<1>1. disk' = [disk EXCEPT ![f] = c] /\ disk = [g \in File |-> disk[g]]
  BY DEF Written, FilesTyped
<1>2. \A g \in File : disk'[g] = IF g = f THEN c ELSE disk[g]
  BY <1>1
<1>3. \A g \in File : Sound(g, disk'[g])
  BY <1>2 DEF FilesTyped
<1>4. disk' = [g \in File |-> disk'[g]]
  BY <1>1
<1> QED
  BY <1>2, <1>3, <1>4

LEMMA DiskFacts ==
  ASSUME FilesTyped
  PROVE  /\ \A f \in EnduranceFiles : disk[f] \in Documents
         /\ disk["generators"] \in Nat /\ disk["evidence"] \in Nat
         /\ SoundCampaign(disk["campaign"])
         /\ disk["objective"] # Absent => SoundObjective(disk["objective"])
         /\ disk["product"] # Absent => disk["product"] \in ProductReports
         /\ disk["receipt"] # Absent => SoundReceipt(disk["receipt"])
         /\ disk["receiptV2"] # Absent => SoundReceiptV2(disk["receiptV2"])
         /\ Docs \in Lineages
<1>1. \A f \in File : Sound(f, disk[f])
  BY DEF FilesTyped
<1>2. \A f \in EnduranceFiles : disk[f] \in Documents
  BY <1>1 DEF Sound, File
<1>3. Docs \in Lineages
  BY <1>2 DEF Docs, Lineages
<1> QED
  BY <1>1, <1>2, <1>3 DEF Sound, File, Reports

\* Steps that write no file.
LEMMA QueuesGo ==
  ASSUME FilesTyped, disk' = disk, UNCHANGED requestVars, reports' = reports, runs' \in Nat, runs <= runs',
         writing' \in Seq(EnduranceFiles \X Documents), finalizing' \in Seq(ByFinalizer),
         writing' = <<>> \/ finalizing' = <<>>,
         \A i \in 1 .. Len(writing') :
           /\ writing'[i][2].run <= runs'
           /\ \/ runs < writing'[i][2].run
              \/ \E j \in 1 .. Len(writing) : writing'[i][2].run = writing[j][2].run
              \/ disk["status"].state = "running" /\ writing'[i][2].run = disk["status"].run
  PROVE  WriterGoes
<1>1. disk["status"].run \in Nat /\ disk["status"].run <= runs /\ runs \in Nat
  BY DiskFacts DEF FilesTyped, EnduranceFiles, Documents
<1>2. FilesTyped'
  BY <1>1 DEF FilesTyped
<1>3. Forward
  BY DEF Forward
<1>4. \A v \in Version : ReceiptGoes(v, disk[ReceiptFile(v)], disk'[ReceiptFile(v)])
  BY DEF ReceiptGoes
<1> QED
  BY <1>2, <1>3, <1>4 DEF WriterGoes

LEMMA StartEnduranceGoes ==
  ASSUME FilesTyped, StartEndurance
  PROVE  WriterGoes
<1> DEFINE d(state) == Document(runs', state, "real")
<1>1. runs' = runs + 1 /\ runs \in Nat /\ finalizing' = <<>> /\ disk' = disk /\ reports' = reports
      /\ UNCHANGED requestVars
  BY DEF StartEndurance, NobodyWrites, FilesTyped
<1>2. d("planned") \in Documents /\ d("running") \in Documents
      /\ d("planned").run = runs' /\ d("running").run = runs'
  BY <1>1 DEF Document, Documents
<1> HIDE DEF d
<1>3. writing' = << <<"resolved", d("planned")>>, <<"checkpoint", d("running")>>, <<"status", d("running")>> >>
  BY DEF StartEndurance, d
<1>4. writing' \in Seq(EnduranceFiles \X Documents)
  BY <1>2, <1>3 DEF EnduranceFiles
<1>5. \A i \in 1 .. Len(writing') : writing'[i][2].run = runs'
  BY <1>2, <1>3
<1> QED
  BY <1>1, <1>4, <1>5, QueuesGo

LEMMA CompleteEnduranceGoes ==
  ASSUME FilesTyped, CompleteEndurance
  PROVE  WriterGoes
<1>1. runs' = runs /\ runs \in Nat /\ finalizing' = <<>> /\ disk' = disk /\ reports' = reports
      /\ UNCHANGED requestVars /\ disk["status"].state = "running"
  BY DEF CompleteEndurance, NobodyWrites, FilesTyped
<1>2. disk["status"] \in Documents /\ disk["status"].run <= runs
  BY DiskFacts DEF FilesTyped, EnduranceFiles
<1>3. PICK final : final = [disk["status"] EXCEPT !.state = "complete"]
  OBVIOUS
<1>4. final \in Documents /\ final.run = disk["status"].run
  BY <1>2, <1>3 DEF Documents
<1>5. writing' = << <<"checkpoint", final>>, <<"status", final>> >>
  BY <1>3 DEF CompleteEndurance
<1>6. writing' \in Seq(EnduranceFiles \X Documents)
  BY <1>4, <1>5 DEF EnduranceFiles
<1>7. \A i \in 1 .. Len(writing') : writing'[i][2].run = disk["status"].run
  BY <1>4, <1>5
<1> QED
  BY <1>1, <1>2, <1>6, <1>7, QueuesGo

LEMMA StartFinalizerGoes ==
  ASSUME FilesTyped, StartFinalizer
  PROVE  WriterGoes
<1>1. runs' = runs /\ runs \in Nat /\ writing' = <<>> /\ disk' = disk /\ reports' = reports
      /\ UNCHANGED requestVars
  BY DEF StartFinalizer, NobodyWrites, FilesTyped
<1>2. finalizing' = <<"campaign", "objective", "product", "receipt">>
      \/ finalizing' = <<"objective", "product", "receiptV2">>
  BY DEF StartFinalizer
<1>3. {"campaign", "objective", "product", "receipt", "receiptV2"} \subseteq ByFinalizer
  BY DEF ByFinalizer, Reports
<1>4. finalizing' \in Seq(ByFinalizer)
  BY <1>2, <1>3, Sequence3, Sequence4
<1> QED
  BY <1>1, <1>4, QueuesGo

LEMMA KillWriterGoes ==
  ASSUME FilesTyped, KillWriter
  PROVE  WriterGoes
<1>1. runs' = runs /\ runs \in Nat /\ writing' = <<>> /\ finalizing' = <<>> /\ disk' = disk /\ reports' = reports
      /\ UNCHANGED requestVars
  BY DEF KillWriter, FilesTyped
<1> QED
  BY <1>1, QueuesGo

LEMMA WriteDocumentGoes ==
  ASSUME FilesTyped, WriteDocument
  PROVE  WriterGoes
<1>1. writing # <<>> /\ writing \in Seq(EnduranceFiles \X Documents) /\ finalizing = <<>>
      /\ writing' = Tail(writing) /\ UNCHANGED <<runs, finalizing, reports, requestVars>>
  BY DEF WriteDocument, FilesTyped
<1>2. PICK f, c : f = Head(writing)[1] /\ c = Head(writing)[2]
  OBVIOUS
<1>3. f \in EnduranceFiles /\ c \in Documents /\ Written(f, c) /\ Head(writing) = writing[1] /\ Len(writing) > 0
  BY <1>1, <1>2, HeadAndTail DEF WriteDocument
<1>4. f \in File /\ Sound(f, c)
  BY <1>3 DEF File, Sound, EnduranceFiles, Reports
<1>5. /\ disk' = [g \in File |-> disk'[g]] /\ disk'[f] = c
      /\ \A g \in File \ {f} : disk'[g] = disk[g]
      /\ \A g \in File : Sound(g, disk'[g])
  BY <1>3, <1>4, OneWrite
<1>6. \A i \in 1 .. Len(writing') : i + 1 \in 1 .. Len(writing) /\ writing'[i] = writing[i + 1]
  BY <1>1, HeadAndTail
<1>7. c.run <= runs /\ 1 \in 1 .. Len(writing) /\ c.run = writing[1][2].run
  BY <1>1, <1>2, <1>3 DEF FilesTyped
<1>8. \A i \in 1 .. Len(writing') : writing'[i][2].run <= runs
  BY <1>6 DEF FilesTyped
<1>9. writing' \in Seq(EnduranceFiles \X Documents)
  BY <1>1, HeadAndTail
<1>10. disk'["status"].run <= runs
  BY <1>3, <1>5, <1>7 DEF FilesTyped, File, EnduranceFiles
<1>11. \A g \in Reports : disk'[g] = disk[g]
  BY <1>3, <1>5 DEF File, Reports, EnduranceFiles
<1>12. FilesTyped'
  BY <1>1, <1>5, <1>8, <1>9, <1>10, <1>11 DEF FilesTyped
<1>13. Forward
  <2>1. \A g \in EnduranceFiles : disk'[g] = disk[g] \/ \E i \in 1 .. Len(writing) : disk'[g].run = writing[i][2].run
    BY <1>5, <1>7 DEF File
  <2>2. \A g \in {"generators", "evidence"} : disk'[g] = disk[g]
    BY <1>3, <1>5 DEF File, EnduranceFiles
  <2>3. runs <= runs'
    BY <1>1 DEF FilesTyped
  <2>4. \A i \in 1 .. Len(writing') : \E j \in 1 .. Len(writing) : writing'[i][2].run = writing[j][2].run
    BY <1>6
  <2> QED
    BY <1>11, <2>1, <2>2, <2>3, <2>4 DEF Forward
<1>14. \A v \in Version : disk'[ReceiptFile(v)] = disk[ReceiptFile(v)]
  BY <1>3, <1>5 DEF Version, ReceiptFile, File, EnduranceFiles
<1> QED
  BY <1>1, <1>12, <1>13, <1>14 DEF WriterGoes, ReceiptGoes

LEMMA EditGoes ==
  ASSUME FilesTyped, NEW f \in {"generators", "evidence"}, Written(f, disk[f] + 1),
         UNCHANGED <<runs, writing, finalizing, reports, requestVars>>
  PROVE  WriterGoes
<1>1. disk[f] \in Nat
  BY DiskFacts
<1>2. f \in File /\ Sound(f, disk[f] + 1)
  BY <1>1 DEF File, Sound, EnduranceFiles
<1>3. /\ disk' = [g \in File |-> disk'[g]] /\ disk'[f] = disk[f] + 1
      /\ \A g \in File \ {f} : disk'[g] = disk[g]
      /\ \A g \in File : Sound(g, disk'[g])
  BY <1>2, OneWrite
<1>4. \A g \in EnduranceFiles \cup Reports \cup {"receipt", "receiptV2"} : disk'[g] = disk[g]
  BY <1>3 DEF File, Reports, EnduranceFiles
<1>5. FilesTyped'
  BY <1>3, <1>4 DEF FilesTyped, EnduranceFiles
<1>6. \A g \in {"generators", "evidence"} : disk'[g] = disk[g] \/ disk[g] < disk'[g]
  BY <1>1, <1>3 DEF File
<1>7. Forward
  BY <1>4, <1>6 DEF Forward, FilesTyped
<1>8. \A v \in Version : disk'[ReceiptFile(v)] = disk[ReceiptFile(v)]
  BY <1>4 DEF ReceiptFile
<1> QED
  BY <1>5, <1>7, <1>8 DEF WriterGoes, ReceiptGoes

LEMMA ReportGoesForward ==
  ASSUME FilesTyped, NEW f \in Reports, NEW c, Sound(f, c), c # Absent, c.report = reports + 1, Written(f, c),
         reports' = reports + 1, finalizing' \in Seq(ByFinalizer), finalizing' = <<>> \/ writing = <<>>,
         UNCHANGED <<runs, writing, requestVars>>
  PROVE  WriterGoes
<1>1. f \in File
  BY DEF File
<1>2. /\ disk' = [g \in File |-> disk'[g]] /\ disk'[f] = c
      /\ \A g \in File \ {f} : disk'[g] = disk[g]
      /\ \A g \in File : Sound(g, disk'[g])
  BY <1>1, OneWrite
<1>3. \A g \in EnduranceFiles \cup {"generators", "evidence", "receipt", "receiptV2"} : disk'[g] = disk[g]
  BY <1>2 DEF File, Reports, EnduranceFiles
<1>4. \A g \in Reports : disk[g] # Absent => disk[g].report \in Nat /\ disk[g].report <= reports
  BY DiskFacts DEF FilesTyped, Reports, SoundCampaign, SoundObjective, CampaignReports, ObjectiveReports, ProductReports
<1>5. reports \in Nat
  BY DEF FilesTyped
<1>6. \A g \in Reports : disk'[g] # Absent => disk'[g].report <= reports'
  BY <1>2, <1>4, <1>5 DEF File
<1>7. FilesTyped'
  BY <1>2, <1>3, <1>5, <1>6 DEF FilesTyped, EnduranceFiles
<1>8. Age(disk[f]) < Age(c)
  BY <1>4, <1>5 DEF Age
<1>9. Forward
  <2>1. \A g \in Reports : disk'[g] = disk[g] \/ Age(disk[g]) < Age(disk'[g])
    BY <1>2, <1>8 DEF File
  <2> QED
    BY <1>3, <2>1 DEF Forward, FilesTyped
<1>10. \A v \in Version : disk'[ReceiptFile(v)] = disk[ReceiptFile(v)]
  BY <1>3 DEF ReceiptFile
<1> QED
  BY <1>7, <1>9, <1>10 DEF WriterGoes, ReceiptGoes

LEMMA NewReportIsSound ==
  ASSUME FilesTyped, NEW f \in Reports, reports' = reports + 1, NEW c \in NewReports(f)
  PROVE  Sound(f, c) /\ c # Absent /\ c.report = reports + 1
<1>1. reports + 1 \in Nat /\ Docs \in Lineages
  BY DiskFacts DEF FilesTyped
<1>2. CASE f = "campaign"
  <2>1. PICK done \in BOOLEAN : done <=> Completed(Docs)
    OBVIOUS
  <2>2. Completed(Docs) \in BOOLEAN
    BY DEF Completed, Coherent
  <2>3. PICK decided \in {FALSE, Completed(Docs)} :
          c = [report |-> reports + 1, pins |-> Docs, endurance |-> Completed(Docs),
               accepted |-> decided, claims |-> decided]
    BY <1>2 DEF NewReports
  <2>4. decided \in BOOLEAN /\ (decided => Completed(Docs))
    BY <2>2, <2>3
  <2>5. c \in CampaignReports
    BY <1>1, <2>2, <2>3, <2>4 DEF CampaignReports
  <2>6. /\ c.report = reports + 1 /\ c.pins = Docs /\ c.endurance = Completed(Docs)
        /\ c.accepted = decided /\ c.claims = decided
    BY <2>3
  <2>7. c # Absent
    BY <2>5, StatusMarks DEF AnyReport
  <2> QED
    BY <1>2, <2>4, <2>5, <2>6, <2>7 DEF Sound, SoundCampaign, EnduranceFiles
<1>3. CASE f = "objective"
  <2>1. c = [report |-> reports + 1, campaign |-> disk["campaign"],
             checkpoint |-> disk["checkpoint"], status |-> disk["status"],
             complete |-> Completed(Docs) /\ disk["campaign"].endurance]
    BY <1>3 DEF NewReports
  <2>2. disk["campaign"] \in CampaignReports /\ disk["checkpoint"] \in Documents /\ disk["status"] \in Documents
    BY DiskFacts DEF EnduranceFiles, SoundCampaign
  <2>3. c \in ObjectiveReports
    BY <1>1, <2>1, <2>2 DEF ObjectiveReports, Completed, Coherent
  <2>4. c.report = reports + 1 /\ c.campaign = disk["campaign"] /\ (c.complete => disk["campaign"].endurance)
    BY <2>1
  <2>5. c # Absent
    BY <2>3, StatusMarks DEF AnyReport
  <2> QED
    BY <1>3, <2>3, <2>4, <2>5 DEF Sound, SoundObjective, EnduranceFiles
<1>4. CASE f = "product"
  <2>1. c = [report |-> reports + 1, ready |-> finalizing # <<>> /\ finalizing[Len(finalizing)] = "receiptV2"]
    BY <1>4 DEF NewReports
  <2>2. c \in ProductReports
    BY <1>1, <2>1 DEF ProductReports
  <2>3. c.report = reports + 1
    BY <2>1
  <2>4. c # Absent
    BY <2>2, StatusMarks DEF AnyReport
  <2> QED
    BY <1>4, <2>2, <2>3, <2>4 DEF Sound, EnduranceFiles
<1> QED
  BY <1>2, <1>3, <1>4 DEF Reports

LEMMA RegenerateGoes ==
  ASSUME FilesTyped, Regenerate
  PROVE  WriterGoes
<1>1. PICK f \in {"campaign", "objective"} : GenerateReport(f)
  BY DEF Regenerate
<1>2. PICK c \in NewReports(f) : f \in Reports /\ reports' = reports + 1 /\ Written(f, c)
  BY <1>1 DEF GenerateReport, Reports
<1> QED
  BY <1>2, NewReportIsSound, ReportGoesForward DEF Regenerate, FilesTyped

LEMMA VerifiedFacts ==
  ASSUME FilesTyped, BundleVerified
  PROVE  /\ Completed(Docs)
         /\ \A f \in EnduranceFiles : disk[f] \in Documents /\ disk[f].run = disk["status"].run
         /\ disk["status"].state = "complete"
         /\ SoundCampaign(disk["campaign"]) /\ disk["campaign"].pins # Absent
         /\ disk["objective"] # Absent /\ SoundObjective(disk["objective"])
<1>1. /\ disk["objective"] # Absent /\ disk["campaign"].pins = Docs /\ disk["campaign"].endurance
  BY DEF BundleVerified, ObjectiveMatches, CampaignMatches
<1>2. SoundCampaign(disk["campaign"]) /\ SoundObjective(disk["objective"]) /\ Docs \in Lineages
      /\ \A f \in EnduranceFiles : disk[f] \in Documents
  BY <1>1, DiskFacts
<1>3. Docs # Absent
  BY <1>2, StatusMarks
<1>4. Completed(Docs)
  BY <1>1, <1>2, <1>3 DEF SoundCampaign
<1>5. \A f \in EnduranceFiles : Docs[f] = disk[f]
  BY DEF Docs
<1>6. Docs["resolved"].run = Docs["status"].run /\ Docs["checkpoint"] = Docs["status"] /\ Docs["status"].state = "complete"
  BY <1>4 DEF Completed, Coherent
<1>7. disk["resolved"].run = disk["status"].run /\ disk["checkpoint"] = disk["status"] /\ disk["status"].state = "complete"
  BY <1>5, <1>6 DEF EnduranceFiles
<1>8. \A f \in EnduranceFiles : disk[f].run = disk["status"].run
  BY <1>7 DEF EnduranceFiles
<1> QED
  BY <1>1, <1>2, <1>3, <1>4, <1>7, <1>8

\* The receipts as the finalizers make them.
LEMMA ReceiptIsSound ==
  ASSUME FilesTyped, BundleVerified
  PROVE  /\ SoundReceipt(Receipt) /\ Receipt # Absent
         /\ Receipt.run = disk["status"].run
         /\ \A f \in PinnedFiles("v1") : Pin("v1", Receipt, f) = disk[f]
<1>1. PICK pins : pins = [f \in EnduranceFiles \cup {"generators"} |-> disk[f]]
  OBVIOUS
<1>2. PICK outs : outs = [f \in Reports |-> disk[f]]
  OBVIOUS
<1>3. pins \in [EnduranceFiles \cup {"generators"} -> Documents \cup Nat]
  BY <1>1, DiskFacts
<1>4. outs \in [Reports -> AnyReport \cup {Absent}]
  BY <1>2, DiskFacts DEF Reports, AnyReport, SoundCampaign, SoundObjective
<1>5. disk["status"].run \in Nat /\ disk["status"] \in Documents
  BY DiskFacts DEF EnduranceFiles, Documents
<1>6. Receipt = [run |-> disk["status"].run, whole |-> TRUE, overall |-> disk["campaign"].accepted,
                 inputs |-> pins, outputs |-> outs]
  BY <1>1, <1>2 DEF Receipt
<1>7. Receipt \in Receipts /\ Receipt.run = disk["status"].run /\ Receipt.inputs = pins /\ Receipt.outputs = outs
  <2>1. disk["campaign"].accepted \in BOOLEAN
    BY DiskFacts DEF SoundCampaign, CampaignReports
  <2> QED
    BY <1>3, <1>4, <1>5, <1>6, <2>1 DEF Receipts
<1>8. \A f \in EnduranceFiles \cup {"generators"} : pins[f] = disk[f]
  BY <1>1
<1>9. \A f \in Reports : outs[f] = disk[f]
  BY <1>2
<1>10. SoundReceipt(Receipt)
  BY <1>7, <1>8, <1>9, VerifiedFacts, DiskFacts DEF SoundReceipt, EnduranceFiles, Reports
<1>11. Receipt # Absent
  BY <1>7, StatusMarks
<1>12. \A f \in PinnedFiles("v1") : Pin("v1", Receipt, f) = disk[f]
  BY <1>7, <1>8, <1>9 DEF PinnedFiles, Pin, Inputs, Outputs
<1> QED
  BY <1>7, <1>10, <1>11, <1>12

LEMMA ReceiptV2IsSound ==
  ASSUME FilesTyped, BundleVerified
  PROVE  /\ SoundReceiptV2(ReceiptV2) /\ ReceiptV2 # Absent
         /\ \A f \in PinnedFiles("v2") : Pin("v2", ReceiptV2, f) = disk[f]
<1>1. PICK pins : pins = [f \in {"evidence"} |-> disk[f]]
  OBVIOUS
<1>2. PICK outs : outs = [f \in {"objective", "product"} |-> disk[f]]
  OBVIOUS
<1>3. pins \in [{"evidence"} -> Nat]
  BY <1>1, DiskFacts
<1>4. outs \in [{"objective", "product"} -> AnyReport \cup {Absent}]
  BY <1>2, DiskFacts DEF AnyReport, SoundObjective
<1>6. ReceiptV2 = [whole |-> TRUE, inputs |-> pins, outputs |-> outs]
  BY <1>1, <1>2 DEF ReceiptV2
<1>7. ReceiptV2 \in ReceiptsV2 /\ ReceiptV2.inputs = pins /\ ReceiptV2.outputs = outs
  BY <1>3, <1>4, <1>6 DEF ReceiptsV2
<1>8. pins["evidence"] = disk["evidence"] /\ \A f \in {"objective", "product"} : outs[f] = disk[f]
  BY <1>1, <1>2
<1>10. SoundReceiptV2(ReceiptV2)
  BY <1>7, <1>8, VerifiedFacts DEF SoundReceiptV2
<1>11. ReceiptV2 # Absent
  BY <1>7, StatusMarks
<1>12. \A f \in PinnedFiles("v2") : Pin("v2", ReceiptV2, f) = disk[f]
  BY <1>7, <1>8 DEF PinnedFiles, Pin, Inputs, Outputs
<1> QED
  BY <1>7, <1>10, <1>11, <1>12

\* The writes of a receipt, new or spoiled.
LEMMA ReceiptWritten ==
  ASSUME FilesTyped, NEW v \in Version, NEW c, SoundFor(v, c), c # Absent, Written(ReceiptFile(v), c),
         finalizing' \in Seq(ByFinalizer), finalizing' = <<>> \/ writing = <<>>,
         UNCHANGED <<runs, writing, reports, requestVars>>
  PROVE  /\ FilesTyped' /\ Forward /\ disk'[ReceiptFile(v)] = c
         /\ \A f \in File \ {ReceiptFile(v)} : disk'[f] = disk[f]
         /\ \A w \in Version \ {v} : disk'[ReceiptFile(w)] = disk[ReceiptFile(w)]
         /\ \A w \in Version : \A f \in PinnedFiles(w) : disk'[f] = disk[f]
<1>1. ReceiptFile(v) \in File /\ Sound(ReceiptFile(v), c)
  BY DEF File, Sound, SoundFor, Version, ReceiptFile, EnduranceFiles
<1>2. /\ disk' = [g \in File |-> disk'[g]] /\ disk'[ReceiptFile(v)] = c
      /\ \A g \in File \ {ReceiptFile(v)} : disk'[g] = disk[g]
      /\ \A g \in File : Sound(g, disk'[g])
  BY <1>1, OneWrite
<1>3. \A g \in EnduranceFiles \cup Reports \cup {"generators", "evidence"} : disk'[g] = disk[g]
  BY <1>2 DEF File, Reports, EnduranceFiles, ReceiptFile
<1>4. FilesTyped'
  BY <1>2, <1>3 DEF FilesTyped, EnduranceFiles
<1>5. Forward
  <2>1. /\ \A f \in EnduranceFiles : disk'[f] = disk[f]
        /\ \A f \in {"generators", "evidence"} : disk'[f] = disk[f]
        /\ \A f \in Reports : disk'[f] = disk[f]
    BY <1>3
  <2>2. runs <= runs' /\ writing' = writing
    BY DEF FilesTyped
  <2> QED
    BY <2>1, <2>2 DEF Forward
<1>6. \A w \in Version \ {v} : disk'[ReceiptFile(w)] = disk[ReceiptFile(w)]
  BY <1>2 DEF Version, ReceiptFile, File
<1>7. \A w \in Version : \A f \in PinnedFiles(w) : disk'[f] = disk[f]
  BY <1>3 DEF PinnedFiles, Inputs, Outputs, Reports
<1> QED
  BY <1>2, <1>4, <1>5, <1>6, <1>7

LEMMA FinalizerWritesGoes ==
  ASSUME FilesTyped, FinalizerWrites
  PROVE  WriterGoes
<1>1. PICK f : f = Head(finalizing)
  OBVIOUS
<1>2. finalizing # <<>> /\ finalizing \in Seq(ByFinalizer) /\ writing = <<>> /\ f \in ByFinalizer /\ Tail(finalizing) \in Seq(ByFinalizer)
  BY <1>1, HeadAndTail DEF FinalizerWrites, FilesTyped
<1>3. UNCHANGED <<runs, writing, requestVars>>
  BY DEF FinalizerWrites
<1>4. CASE f \in Reports
  <2>1. GenerateReport(f) /\ finalizing' = Tail(finalizing)
    BY <1>1, <1>4 DEF FinalizerWrites
  <2>2. PICK c \in NewReports(f) : reports' = reports + 1 /\ Written(f, c)
    BY <2>1 DEF GenerateReport
  <2> QED
    BY <1>2, <1>3, <1>4, <2>1, <2>2, NewReportIsSound, ReportGoesForward
<1>5. CASE f \notin Reports
  <2>1. /\ finalizing' = <<>> /\ reports' = reports
        /\ IF BundleVerified THEN Written(f, IF f = "receipt" THEN Receipt ELSE ReceiptV2) ELSE disk' = disk
    BY <1>1, <1>5 DEF FinalizerWrites
  <2>2. CASE ~BundleVerified
    BY <1>2, <1>3, <2>1, <2>2, QueuesGo DEF FilesTyped
  <2>3. CASE BundleVerified /\ f = "receipt"
    <3>1. SoundFor("v1", Receipt) /\ Receipt # Absent /\ Written(ReceiptFile("v1"), Receipt) /\ "v1" \in Version
      BY <2>1, <2>3, ReceiptIsSound DEF SoundFor, ReceiptFile, Version
    <3>2. /\ FilesTyped' /\ Forward /\ disk'[ReceiptFile("v1")] = Receipt
          /\ \A w \in Version \ {"v1"} : disk'[ReceiptFile(w)] = disk[ReceiptFile(w)]
          /\ \A g \in PinnedFiles("v1") : disk'[g] = disk[g]
      BY <1>2, <1>3, <2>1, <3>1, ReceiptWritten
    <3>3. NewReceipt("v1", Receipt)
      BY <1>2, <1>3, <2>3, <3>1, <3>2, ReceiptIsSound DEF NewReceipt, FilesTyped
    <3> QED
      BY <1>3, <3>2, <3>3 DEF WriterGoes, ReceiptGoes
  <2>4. CASE BundleVerified /\ f = "receiptV2"
    <3>1. SoundFor("v2", ReceiptV2) /\ ReceiptV2 # Absent /\ Written(ReceiptFile("v2"), ReceiptV2) /\ "v2" \in Version
      BY <2>1, <2>4, ReceiptV2IsSound DEF SoundFor, ReceiptFile, Version
    <3>2. /\ FilesTyped' /\ Forward /\ disk'[ReceiptFile("v2")] = ReceiptV2
          /\ \A w \in Version \ {"v2"} : disk'[ReceiptFile(w)] = disk[ReceiptFile(w)]
          /\ \A g \in PinnedFiles("v2") : disk'[g] = disk[g]
      BY <1>2, <1>3, <2>1, <3>1, ReceiptWritten
    <3>3. NewReceipt("v2", ReceiptV2)
      BY <2>4, <3>1, <3>2, ReceiptV2IsSound DEF NewReceipt
    <3> QED
      BY <1>3, <3>2, <3>3 DEF WriterGoes, ReceiptGoes
  <2> QED
    BY <1>2, <1>5, <2>2, <2>3, <2>4 DEF ByFinalizer
<1> QED
  BY <1>4, <1>5

LEMMA SpoilGoes ==
  ASSUME FilesTyped, NEW v \in Version, disk[ReceiptFile(v)] # Absent,
         Written(ReceiptFile(v), [disk[ReceiptFile(v)] EXCEPT !.whole = FALSE]),
         UNCHANGED <<runs, writing, finalizing, reports, requestVars>>
  PROVE  WriterGoes
<1>1. PICK old : old = disk[ReceiptFile(v)]
  OBVIOUS
<1>2. PICK c : c = [old EXCEPT !.whole = FALSE]
  OBVIOUS
<1>3. SoundFor(v, old)
  BY <1>1, DiskFacts DEF SoundFor, ReceiptFile, Version
<1>4. SoundFor(v, c) /\ ~c.whole /\ c.inputs = old.inputs /\ c.outputs = old.outputs
      /\ (v = "v1" => c.run = old.run)
  <2>1. CASE v = "v1"
    <3>1. old \in Receipts
      BY <1>3, <2>1 DEF SoundFor, SoundReceipt
    <3>2. c \in Receipts /\ ~c.whole /\ c.inputs = old.inputs /\ c.outputs = old.outputs /\ c.run = old.run
      BY <1>2, <3>1 DEF Receipts
    <3> QED
      BY <1>3, <2>1, <3>2 DEF SoundFor, SoundReceipt
  <2>2. CASE v # "v1"
    <3>1. old \in ReceiptsV2
      BY <1>3, <2>2 DEF SoundFor, SoundReceiptV2
    <3>2. c \in ReceiptsV2 /\ ~c.whole /\ c.inputs = old.inputs /\ c.outputs = old.outputs
      BY <1>2, <3>1 DEF ReceiptsV2
    <3> QED
      BY <1>3, <2>2, <3>2 DEF SoundFor, SoundReceiptV2
  <2> QED
    BY <2>1, <2>2
<1>5. c # Absent
  BY <1>4, StatusMarks DEF SoundFor, SoundReceipt, SoundReceiptV2
<1>6. Written(ReceiptFile(v), c)
  BY <1>1, <1>2
<1>7. /\ FilesTyped' /\ Forward /\ disk'[ReceiptFile(v)] = c
      /\ \A w \in Version \ {v} : disk'[ReceiptFile(w)] = disk[ReceiptFile(w)]
  BY <1>4, <1>5, <1>6, ReceiptWritten DEF FilesTyped
<1>8. SpoiledReceipt(v, old, c)
  BY <1>1, <1>4, <1>5 DEF SpoiledReceipt, Pin
<1> QED
  BY <1>1, <1>7, <1>8 DEF WriterGoes, ReceiptGoes

LEMMA ReviseGoes ==
  ASSUME FilesTyped, Revise
  PROVE  WriterGoes
<1>1. UNCHANGED <<runs, writing, finalizing, reports, requestVars>>
  BY DEF Revise
<1>2. ASSUME NEW f \in {"generators", "evidence"}, Written(f, disk[f] + 1) PROVE WriterGoes
  BY <1>1, <1>2, EditGoes
<1>3. ASSUME NEW f \in {"receipt", "receiptV2"}, disk[f] # Absent, Written(f, [disk[f] EXCEPT !.whole = FALSE])
      PROVE  WriterGoes
  <2>1. PICK v \in Version : f = ReceiptFile(v)
    BY DEF Version, ReceiptFile
  <2> QED
    BY <1>1, <1>3, <2>1, SpoilGoes
<1> QED
  BY <1>2, <1>3 DEF Revise

LEMMA WritersGo ==
  ASSUME FilesTyped,
         \/ StartEndurance \/ CompleteEndurance \/ WriteDocument
         \/ Regenerate \/ StartFinalizer \/ FinalizerWrites \/ KillWriter \/ Revise
  PROVE  WriterGoes
BY StartEnduranceGoes, CompleteEnduranceGoes, WriteDocumentGoes, RegenerateGoes, StartFinalizerGoes,
   FinalizerWritesGoes, KillWriterGoes, ReviseGoes

-----------------------------------------------------------------------------
(* What that means for a receipt *)

LEMMA KnownIsSound ==
  ASSUME FilesTyped, RequestTyped, NEW v \in Version, NEW receipt \in Known(v)
  PROVE  SoundFor(v, receipt)
<1>1. ReceiptFile(v) \in File
  BY DEF ReceiptFile, File
<1>2. Sound(ReceiptFile(v), receipt) /\ receipt # Absent
  BY <1>1 DEF Known, FilesTyped, RequestTyped
<1> QED
  BY <1>2 DEF Sound, SoundFor, ReceiptFile, Version

\* The domains of a receipt, and what its pins are.
LEMMA PinFacts ==
  ASSUME NEW v \in Version, NEW receipt, SoundFor(v, receipt)
  PROVE  /\ DOMAIN receipt.inputs = Inputs(v) /\ DOMAIN receipt.outputs = Outputs(v)
         /\ receipt \notin {Absent, Unread}
         /\ \A f \in PinnedFiles(v) \cap EnduranceFiles :
              v = "v1" /\ Pin(v, receipt, f) \in Documents /\ Pin(v, receipt, f).run = receipt.run
         /\ v = "v1" => receipt.run \in Nat /\ Pin(v, receipt, "status").state = "complete"
         /\ \A f \in PinnedFiles(v) \cap {"generators", "evidence"} : Pin(v, receipt, f) \in Nat
         /\ \A f \in PinnedFiles(v) \cap Reports :
              Pin(v, receipt, f) \in AnyReport \cup {Absent} /\ Age(Pin(v, receipt, f)) \in Nat
         /\ \A f \in PinnedFiles(v) : Pin(v, receipt, f) # Unread
<1>1. receipt \notin {Absent, Unread}
  BY StatusMarks DEF SoundFor, SoundReceipt, SoundReceiptV2
<1>2. \A c \in AnyReport \cup {Absent} : Age(c) \in Nat /\ c # Unread
  BY StatusMarks DEF Age, AnyReport, CampaignReports, ObjectiveReports, ProductReports
<1>3. \A c \in Documents \cup Nat : c # Unread
  BY StatusMarks
<1>4. CASE v = "v1"
  <2>1. /\ receipt.inputs \in [EnduranceFiles \cup {"generators"} -> Documents \cup Nat]
        /\ receipt.outputs \in [Reports -> AnyReport \cup {Absent}] /\ receipt.run \in Nat
        /\ \A f \in EnduranceFiles : receipt.inputs[f] \in Documents /\ receipt.inputs[f].run = receipt.run
        /\ receipt.inputs["status"].state = "complete" /\ receipt.inputs["generators"] \in Nat
    BY <1>4 DEF SoundFor, SoundReceipt, Receipts
  <2>2. Inputs(v) = EnduranceFiles \cup {"generators"} /\ Outputs(v) = Reports
    BY <1>4 DEF Inputs, Outputs
  <2>3. \A f \in Inputs(v) : Pin(v, receipt, f) = receipt.inputs[f] /\ Pin(v, receipt, f) # Unread
    BY <1>3, <2>1, <2>2 DEF Pin
  <2>4. \A f \in Reports : f \notin Inputs(v) /\ f \notin EnduranceFiles /\ f \notin {"generators", "evidence"}
    BY <2>2 DEF Reports, EnduranceFiles
  <2>5. \A f \in Reports : Pin(v, receipt, f) = receipt.outputs[f] /\ receipt.outputs[f] \in AnyReport \cup {Absent}
    BY <2>1, <2>4 DEF Pin
  <2>6. "status" \in EnduranceFiles /\ "evidence" \notin EnduranceFiles \cup {"generators"} \cup Reports
        /\ "generators" \notin EnduranceFiles
    BY DEF EnduranceFiles, Reports
  <2> QED
    BY <1>1, <1>2, <1>4, <2>1, <2>2, <2>3, <2>4, <2>5, <2>6 DEF PinnedFiles
<1>5. CASE v = "v2"
  <2>1. /\ receipt.inputs \in [{"evidence"} -> Nat]
        /\ receipt.outputs \in [{"objective", "product"} -> AnyReport \cup {Absent}]
    BY <1>5 DEF SoundFor, SoundReceiptV2, ReceiptsV2
  <2>2. Inputs(v) = {"evidence"} /\ Outputs(v) = {"objective", "product"}
    BY <1>5 DEF Inputs, Outputs
  <2>3. Pin(v, receipt, "evidence") = receipt.inputs["evidence"] /\ receipt.inputs["evidence"] \in Nat
    BY <2>1, <2>2 DEF Pin
  <2>4. \A f \in {"objective", "product"} : Pin(v, receipt, f) = receipt.outputs[f] /\ receipt.outputs[f] \in AnyReport \cup {Absent}
    BY <2>1, <2>2 DEF Pin
  <2>5. PinnedFiles(v) \cap EnduranceFiles = {} /\ PinnedFiles(v) \cap {"generators", "evidence"} = {"evidence"}
        /\ PinnedFiles(v) \cap Reports = {"objective", "product"} /\ PinnedFiles(v) = {"evidence", "objective", "product"}
    BY <2>2 DEF PinnedFiles, EnduranceFiles, Reports
  <2> QED
    BY <1>1, <1>2, <1>3, <1>5, <2>1, <2>2, <2>3, <2>4, <2>5
<1> QED
  BY <1>4, <1>5 DEF Version

\* Once a pinned file differs it differs for good.
LEMMA PinsGoForward ==
  ASSUME FilesTyped, WriterGoes, NEW v \in Version, NEW receipt, SoundFor(v, receipt), PinsLast(v, receipt)
  PROVE  /\ PinsLast(v, receipt)'
         /\ \A f \in PinnedFiles(v) : disk[f] # Pin(v, receipt, f) => disk'[f] # Pin(v, receipt, f)
<1> DEFINE pin(f) == Pin(v, receipt, f)
<1>1. /\ \A f \in File : Sound(f, disk[f]) /\ Sound(f, disk'[f])
      /\ runs \in Nat /\ runs' \in Nat /\ runs <= runs'
      /\ writing \in Seq(EnduranceFiles \X Documents) /\ writing' \in Seq(EnduranceFiles \X Documents)
  BY DEF WriterGoes, FilesTyped, Forward
<1>2. ASSUME NEW f \in PinnedFiles(v) \cap EnduranceFiles
      PROVE  disk'[f] = disk[f] \/ Overtaken(f, pin(f), disk'[f])
  <2>1. v = "v1" /\ pin(f).run = receipt.run
    BY <1>2, PinFacts
  <2>2. disk'[f] = disk[f] \/ \E i \in 1 .. Len(writing) : disk'[f].run = writing[i][2].run
    BY DEF WriterGoes, Forward
  <2>3. \A i \in 1 .. Len(writing) : receipt.run < writing[i][2].run
    BY <2>1 DEF PinsLast
  <2> QED
    BY <2>1, <2>2, <2>3 DEF Overtaken, EnduranceFiles, Reports
<1>3. ASSUME NEW f \in PinnedFiles(v) \cap {"generators", "evidence"}
      PROVE  disk'[f] = disk[f] \/ Overtaken(f, pin(f), disk'[f])
  <2>1. pin(f) \in Nat /\ disk[f] \in Nat /\ disk'[f] \in Nat
    BY <1>1, PinFacts DEF Sound, File
  <2>2. disk[f] = pin(f) \/ pin(f) < disk[f]
    BY DEF PinsLast, Overtaken
  <2>3. disk'[f] = disk[f] \/ disk[f] < disk'[f]
    BY DEF WriterGoes, Forward
  <2> QED
    BY <2>1, <2>2, <2>3 DEF Overtaken, EnduranceFiles, Reports
<1>4. ASSUME NEW f \in PinnedFiles(v) \cap Reports
      PROVE  disk'[f] = disk[f] \/ Overtaken(f, pin(f), disk'[f])
  <2>1. f \in File
    BY DEF File
  <2>2. disk[f] \in AnyReport \cup {Absent} /\ disk'[f] \in AnyReport \cup {Absent}
    BY <1>1, <2>1 DEF Sound, Reports, AnyReport, SoundCampaign, SoundObjective
  <2>3. Age(disk[f]) \in Nat /\ Age(disk'[f]) \in Nat /\ Age(pin(f)) \in Nat
    BY <2>2, PinFacts DEF Age, AnyReport, CampaignReports, ObjectiveReports, ProductReports
  <2>4. disk[f] = pin(f) \/ Age(pin(f)) < Age(disk[f])
    BY DEF PinsLast, Overtaken
  <2>5. disk'[f] = disk[f] \/ Age(disk[f]) < Age(disk'[f])
    BY DEF WriterGoes, Forward
  <2>6. disk'[f] = disk[f] \/ Age(pin(f)) < Age(disk'[f])
    BY <2>3, <2>4, <2>5
  <2> QED
    BY <2>6 DEF Overtaken, EnduranceFiles, Reports
<1>5. PinnedFiles(v) \subseteq EnduranceFiles \cup {"generators", "evidence"} \cup Reports
  BY DEF PinnedFiles, Inputs, Outputs, Reports
<1>6. \A f \in PinnedFiles(v) : disk'[f] = disk[f] \/ Overtaken(f, pin(f), disk'[f])
  BY <1>2, <1>3, <1>4, <1>5
<1>7. \A f \in PinnedFiles(v) : disk'[f] = pin(f) \/ Overtaken(f, pin(f), disk'[f])
  BY <1>6 DEF PinsLast
<1>8. ASSUME NEW f \in PinnedFiles(v), Overtaken(f, pin(f), disk'[f]) PROVE disk'[f] # pin(f)
  <2>1. CASE f \in EnduranceFiles
    <3>1. pin(f).run \in Nat
      BY <2>1, PinFacts
    <3> QED
      BY <1>8, <2>1, <3>1 DEF Overtaken
  <2>2. CASE f \in {"generators", "evidence"}
    BY <1>8, <2>2, PinFacts DEF Overtaken
  <2>3. CASE f \in Reports
    <3>1. Age(pin(f)) \in Nat
      BY <2>3, PinFacts
    <3> QED
      BY <1>8, <2>3, <3>1 DEF Overtaken
  <2> QED
    BY <1>5, <2>1, <2>2, <2>3
<1>9. v = "v1" => receipt.run <= runs' /\ \A i \in 1 .. Len(writing') : receipt.run < writing'[i][2].run
  <2> SUFFICES ASSUME v = "v1" PROVE receipt.run <= runs' /\ \A i \in 1 .. Len(writing') : receipt.run < writing'[i][2].run
    OBVIOUS
  <2>1. receipt.run \in Nat /\ receipt.run <= runs /\ \A j \in 1 .. Len(writing) : receipt.run < writing[j][2].run
    BY PinFacts DEF PinsLast
  <2>2. disk["status"].state = "running" => receipt.run < disk["status"].run
    <3>1. "status" \in PinnedFiles(v) /\ "status" \in EnduranceFiles
      BY DEF PinnedFiles, Inputs, EnduranceFiles
    <3>2. pin("status").state = "complete" /\ pin("status").run = receipt.run
      BY <3>1, PinFacts
    <3>3. disk["status"] = pin("status") \/ pin("status").run < disk["status"].run
      BY <3>1 DEF PinsLast, Overtaken
    <3> QED
      BY <3>2, <3>3
  <2>3. ASSUME NEW i \in 1 .. Len(writing') PROVE receipt.run < writing'[i][2].run
    <3>1. \/ runs < writing'[i][2].run
          \/ \E j \in 1 .. Len(writing) : writing'[i][2].run = writing[j][2].run
          \/ disk["status"].state = "running" /\ writing'[i][2].run = disk["status"].run
      BY DEF WriterGoes, Forward
    <3>2. writing'[i] \in EnduranceFiles \X Documents
      BY <1>1
    <3>3. writing'[i][2].run \in Nat
      BY <3>2 DEF Documents
    <3> QED
      BY <1>1, <2>1, <2>2, <3>1, <3>3
  <2> QED
    BY <1>1, <2>1, <2>3
<1>10. PinsLast(v, receipt)'
  BY <1>7, <1>9 DEF PinsLast
<1> QED
  BY <1>6, <1>8, <1>10

-----------------------------------------------------------------------------
(* What the steps leave true *)

\* The history of the receipts that held.
Remembers ==
  /\ together' = [v \in Version |-> together'[v]]
  /\ \A v \in Version : together[v] \subseteq together'[v]
  /\ stage' # "idle" => \A v \in Version : HoldsNow(v)' \subseteq together'[v]

LEMMA HoldsWhenPinned ==
  ASSUME NEW v \in Version, NEW receipt, SoundFor(v, receipt), disk'[ReceiptFile(v)] = receipt,
         \A f \in PinnedFiles(v) : disk'[f] = Pin(v, receipt, f), stage' # "idle", Remembers
  PROVE  receipt \in together'[v]
<1>1. DOMAIN receipt.inputs = Inputs(v) /\ DOMAIN receipt.outputs = Outputs(v) /\ receipt # Absent
  BY PinFacts
<1>2. \A f \in Outputs(v) : f \notin Inputs(v)
  BY DEF Version, Inputs, Outputs, EnduranceFiles, Reports
<1>3. \A f \in Inputs(v) : disk'[f] = receipt.inputs[f]
  BY DEF PinnedFiles, Pin
<1>4. \A f \in Outputs(v) : disk'[f] = receipt.outputs[f]
  BY <1>2 DEF PinnedFiles, Pin
<1>5. receipt \in HoldsNow(v)'
  BY <1>1, <1>3, <1>4 DEF HoldsNow
<1> QED
  BY <1>5 DEF Remembers

LEMMA WriterKeepsPins ==
  ASSUME StatusInv, WriterGoes
  PROVE  \A v \in Version : \A receipt \in Known(v)' : PinsLast(v, receipt)'
<1> SUFFICES ASSUME NEW v \in Version, NEW receipt \in Known(v)' PROVE PinsLast(v, receipt)'
  OBVIOUS
<1>1. FilesTyped /\ RequestTyped /\ cache' = cache
  BY DEF StatusInv, WriterGoes, requestVars
<1>2. ASSUME NEW r \in Known(v) PROVE PinsLast(v, r)'
  <2>1. SoundFor(v, r) /\ PinsLast(v, r)
    BY <1>1, KnownIsSound DEF StatusInv
  <2> QED
    BY <1>1, <2>1, PinsGoForward
<1>3. PICK old : old = disk[ReceiptFile(v)]
  OBVIOUS
<1>4. CASE receipt \in Known(v)
  BY <1>2, <1>4
<1>5. CASE receipt \notin Known(v)
  <2>1. receipt = disk'[ReceiptFile(v)] /\ receipt # old
    BY <1>1, <1>3, <1>5 DEF Known
  <2>2. CASE NewReceipt(v, receipt)
    BY <2>2 DEF NewReceipt, PinsLast
  <2>3. CASE SpoiledReceipt(v, old, receipt)
    <3>1. ReceiptFile(v) \in File
      BY DEF ReceiptFile, File
    <3>2. old # Unread
      BY <1>1, <1>3, <3>1, MarksAreNoContents DEF FilesTyped
    <3>3. old \in Known(v)
      BY <1>3, <2>3, <3>2 DEF Known, SpoiledReceipt
    <3>4. PinsLast(v, old)'
      BY <1>2, <3>3
    <3> QED
      BY <2>3, <3>4 DEF PinsLast, SpoiledReceipt
  <2> QED
    BY <1>3, <2>1, <2>2, <2>3 DEF WriterGoes, ReceiptGoes
<1> QED
  BY <1>4, <1>5

LEMMA WriterKeepsWitness ==
  ASSUME FilesTyped, WriterGoes, Remembers, NEW v \in Version, NEW receipt, SoundFor(v, receipt), PinsLast(v, receipt),
         Witnessed(v, receipt)
  PROVE  Witnessed(v, receipt)'
<1>1. stage' = stage /\ left' = left /\ cache' = cache
  BY DEF WriterGoes, requestVars
<1>2. \A f \in PinnedFiles(v) : disk[f] # Pin(v, receipt, f) => disk'[f] # Pin(v, receipt, f)
  BY PinsGoForward
<1>3. \A f \in Inputs(v) : Awaits(v, f) => Awaits(v, f)'
  BY <1>1 DEF Awaits
<1>4. Found(v, receipt) => Found(v, receipt)'
  BY <1>1, <1>2, <1>3 DEF Found
<1> QED
  BY <1>4 DEF Witnessed, Remembers

LEMMA WriterKeeps ==
  ASSUME StatusInv, WriterGoes, Remembers
  PROVE  StatusInv'
<1>1. FilesTyped /\ RequestTyped /\ Progress /\ Honest /\ \A v \in Version : Earned(v)
  BY DEF StatusInv
<1>2. stage' = stage /\ left' = left /\ cache' = cache /\ bundle' = bundle
  BY DEF WriterGoes, requestVars
<1>3. RequestTyped'
  BY <1>1, <1>2 DEF RequestTyped, Remembers, Committed
<1>4. Progress'
  BY <1>1, <1>2 DEF Progress, ReceiptOf, ToRead, ToCompare, LineageHolds, IdentityHolds, ShownDocs
<1>5. \A v \in Version : Earned(v)'
  BY <1>1, <1>2 DEF Earned, Remembers, Committed, ReceiptOf, LineageHolds, IdentityHolds, ShownDocs
<1>6. Honest'
  <2>1. ASSUME NEW v \in Version, stage \in Checking(v) PROVE Witnessed(v, ReceiptOf(v))'
    <3>1. PICK r : r = ReceiptOf(v)
      OBVIOUS
    <3>2. r \in Known(v) /\ ReceiptOf(v)' = r
      BY <1>1, <1>2, <2>1, <3>1 DEF Progress, Known, ReceiptOf
    <3>3. SoundFor(v, r) /\ PinsLast(v, r) /\ Witnessed(v, r)
      BY <1>1, <2>1, <3>1, <3>2, KnownIsSound DEF StatusInv, Honest
    <3>4. Witnessed(v, r)'
      BY <1>1, <3>3, WriterKeepsWitness
    <3> QED
      BY <3>2, <3>4
  <2>2. ASSUME stage \in BeforeV2, disk'["receiptV2"] # Absent PROVE Witnessed("v2", disk["receiptV2"])'
    <3>1. PICK old, r : old = disk["receiptV2"] /\ r = disk'["receiptV2"]
      OBVIOUS
    <3>2. "v2" \in Version /\ ReceiptFile("v2") = "receiptV2" /\ "receiptV2" \in File
      BY DEF Version, ReceiptFile, File
    <3>3. SoundFor("v2", r) /\ FilesTyped'
      BY <2>2, <3>1, <3>2 DEF WriterGoes, FilesTyped, Sound, SoundFor
    <3>4. CASE r = old
      <4>1. r \in Known("v2")
        BY <1>1, <2>2, <3>1, <3>2, <3>4, MarksAreNoContents DEF Known, FilesTyped
      <4>2. PinsLast("v2", r) /\ Witnessed("v2", r)
        BY <1>1, <2>2, <3>1, <3>2, <3>4, <4>1 DEF StatusInv, Honest
      <4>3. Witnessed("v2", r)'
        BY <1>1, <3>2, <3>3, <4>2, WriterKeepsWitness
      <4> QED
        BY <3>1, <4>3
    <3>5. CASE NewReceipt("v2", r)
      <4>1. stage' # "idle"
        BY <1>2, <2>2 DEF BeforeV2
      <4>2. r \in together'["v2"]
        BY <3>1, <3>2, <3>3, <3>5, <4>1, HoldsWhenPinned DEF NewReceipt
      <4> QED
        BY <3>1, <4>2 DEF Witnessed
    <3>6. CASE SpoiledReceipt("v2", old, r)
      BY <3>1, <3>6 DEF SpoiledReceipt, Witnessed
    <3> QED
      BY <3>1, <3>2, <3>4, <3>5, <3>6 DEF WriterGoes, ReceiptGoes
  <2> QED
    BY <1>2, <2>1, <2>2 DEF Honest
<1>7. \A v \in Version : \A receipt \in Known(v)' : PinsLast(v, receipt)'
  BY WriterKeepsPins
<1> QED
  BY <1>3, <1>4, <1>5, <1>6, <1>7 DEF StatusInv, WriterGoes

-----------------------------------------------------------------------------
(* What a step of the request does *)

\* A file that was read stays what it was read as.
CacheGrows ==
  /\ cache' = [f \in File |-> cache'[f]]
  /\ \A f \in File : cache'[f] = cache[f] \/ (cache[f] = Unread /\ cache'[f] = disk[f])

LEMMA ReadOnceGrows ==
  ASSUME FilesTyped, RequestTyped, NEW f \in File, cache' = ReadOnce(f)
  PROVE  /\ CacheGrows /\ cache'[f] # Unread
         /\ cache[f] # Unread => cache'[f] = cache[f]
         /\ cache[f] = Unread => cache'[f] = disk[f]
         /\ \A g \in File \ {f} : cache'[g] = cache[g]
<1>1. cache = [g \in File |-> cache[g]]
  BY DEF RequestTyped
<1>2. disk[f] # Unread
  BY MarksAreNoContents DEF FilesTyped
<1>3. cache' = IF cache[f] = Unread THEN [cache EXCEPT ![f] = disk[f]] ELSE cache
  BY DEF ReadOnce
<1>4. \A g \in File : cache'[g] = IF g = f /\ cache[f] = Unread THEN disk[f] ELSE cache[g]
  BY <1>1, <1>3
<1>5. cache' = [g \in File |-> cache'[g]]
  BY <1>1, <1>3
<1> QED
  BY <1>2, <1>4, <1>5 DEF CacheGrows

\* What every step of the request leaves true; the rest is left to the step.
RequestGoes ==
  /\ UNCHANGED <<disk, runs, writing, finalizing, reports>> /\ CacheGrows /\ Remembers
  /\ stage' \in Stages \ {"idle"} /\ left' \in Seq(File) /\ (stage' \in Looking => left' # <<>>)
  /\ bundle' = [v \in Version |-> bundle'[v]]

LEMMA EarnedStays ==
  ASSUME StatusInv, RequestGoes, NEW v \in Committed
  PROVE  /\ ReceiptOf(v)' = ReceiptOf(v) /\ ReceiptOf(v) \notin {Absent, Unread}
         /\ ReceiptOf(v) \in together'[v]
         /\ \A f \in Outputs(v) : cache'[f] = ReceiptOf(v).outputs[f]
         /\ SemanticsHold(v, cache')
         /\ v = "v1" => LineageHolds'
<1>1. v \in Version /\ ReceiptFile(v) \in File /\ FilesTyped /\ RequestTyped
  BY DEF Committed, Version, ReceiptFile, File, StatusInv
<1>2. /\ ReceiptOf(v) \notin {Absent, Unread} /\ ReceiptOf(v) \in together[v]
      /\ \A f \in Outputs(v) : cache[f] = ReceiptOf(v).outputs[f]
      /\ SemanticsHold(v, cache)
      /\ v = "v1" => LineageHolds
  BY <1>1 DEF StatusInv, Earned
<1>3. ReceiptOf(v)' = ReceiptOf(v)
  BY <1>1, <1>2 DEF ReceiptOf, RequestGoes, CacheGrows
<1>4. SoundFor(v, ReceiptOf(v))
  BY <1>1, <1>2, KnownIsSound DEF Known, ReceiptOf
<1>5. ASSUME NEW f \in Outputs(v) PROVE cache[f] # Unread /\ cache'[f] = cache[f] /\ f \in File
  <2>1. f \in PinnedFiles(v) /\ f \in File /\ f \notin Inputs(v)
    BY DEF PinnedFiles, Inputs, Outputs, File, Reports, EnduranceFiles
  <2>2. Pin(v, ReceiptOf(v), f) = ReceiptOf(v).outputs[f]
    BY <2>1 DEF Pin
  <2>3. cache[f] # Unread
    BY <1>1, <1>2, <1>4, <2>1, <2>2, PinFacts
  <2> QED
    BY <2>1, <2>3 DEF RequestGoes, CacheGrows
<1>6. SemanticsHold(v, cache')
  <2>1. v = "v1" => cache'["receipt"] = cache["receipt"]
    BY <1>3 DEF ReceiptOf, ReceiptFile
  <2> QED
    BY <1>1, <1>2, <1>5, <2>1 DEF SemanticsHold, Outputs, Version, Reports
<1>7. ReceiptOf(v) \in together'[v]
  BY <1>1, <1>2 DEF RequestGoes, Remembers
<1>8. ASSUME v = "v1" PROVE LineageHolds'
  <2>1. \A f \in EnduranceFiles : cache[f] # Unread /\ cache'[f] = cache[f]
    BY <1>2, <1>8 DEF LineageHolds, RequestGoes, CacheGrows, File
  <2>2. ShownDocs' = ShownDocs
    BY <2>1 DEF ShownDocs
  <2>3. cache'["receipt"] = cache["receipt"]
    BY <1>3, <1>8 DEF ReceiptOf, ReceiptFile
  <2> QED
    BY <1>2, <1>8, <2>1, <2>2, <2>3 DEF LineageHolds, IdentityHolds
<1> QED
  BY <1>2, <1>3, <1>5, <1>6, <1>7, <1>8

LEMMA RequestKeeps ==
  ASSUME StatusInv, RequestGoes, Progress', Honest',
         \A v \in Version : v \in Committed' => v \in Committed \/ Earned(v)'
  PROVE  StatusInv'
<1>1. FilesTyped /\ RequestTyped
  BY DEF StatusInv
<1>2. FilesTyped'
  BY <1>1 DEF FilesTyped, RequestGoes
<1>3. RequestTyped'
  BY <1>1 DEF RequestTyped, RequestGoes, CacheGrows, FilesTyped, Remembers
<1>4. ASSUME NEW v \in Version PROVE Known(v)' \subseteq Known(v)
  BY DEF Known, RequestGoes, CacheGrows, ReceiptFile, File
<1>5. \A v \in Version : \A r \in Known(v)' : PinsLast(v, r)'
  BY <1>4 DEF StatusInv, PinsLast, RequestGoes
<1>6. ASSUME NEW v \in Version PROVE Earned(v)'
  BY <1>6, EarnedStays DEF Earned
<1> QED
  BY <1>2, <1>3, <1>5, <1>6 DEF StatusInv

\* Reading more does not hide the file that makes a receipt wrong.
LEMMA FoundStays ==
  ASSUME RequestGoes, NEW v \in Version, NEW receipt, Witnessed(v, receipt),
         \A f \in Inputs(v) : disk[f] # Pin(v, receipt, f) /\ Awaits(v, f) => Awaits(v, f)'
  PROVE  Witnessed(v, receipt)'
<1>1. PinnedFiles(v) \subseteq File
  BY DEF PinnedFiles, Inputs, Outputs, File, Reports
<1>2. ASSUME NEW f \in PinnedFiles(v), disk[f] # Pin(v, receipt, f), cache[f] # Pin(v, receipt, f)
      PROVE  cache'[f] # Pin(v, receipt, f)
  BY <1>1, <1>2 DEF RequestGoes, CacheGrows
<1>3. Found(v, receipt) => Found(v, receipt)'
  BY <1>2 DEF Found, RequestGoes
<1> QED
  BY <1>3 DEF Witnessed, RequestGoes, Remembers

\* At the beginning of a request a receipt holds, or a file that it pins differs for good.
LEMMA FirstLook ==
  ASSUME FilesTyped, RequestTyped, RequestGoes, NEW v \in Version,
         NEW receipt, disk[ReceiptFile(v)] = receipt, receipt # Absent,
         \A f \in Outputs(v) : cache'[f] = Unread,
         \A f \in Inputs(v) : Awaits(v, f)'
  PROVE  Witnessed(v, receipt)'
<1>1. SoundFor(v, receipt) /\ disk' = disk
  BY DEF FilesTyped, RequestGoes, Sound, SoundFor, File, ReceiptFile, Version
<1>2. CASE \A f \in PinnedFiles(v) : disk[f] = Pin(v, receipt, f)
  <2>1. receipt \in together'[v]
    BY <1>1, <1>2, HoldsWhenPinned DEF RequestGoes
  <2> QED
    BY <2>1 DEF Witnessed
<1>3. ASSUME NEW f \in PinnedFiles(v), disk[f] # Pin(v, receipt, f)
      PROVE  Witnessed(v, receipt)'
  <2>1. f \notin Inputs(v) => cache'[f] # Pin(v, receipt, f)
    BY <1>1, PinFacts DEF PinnedFiles
  <2> QED
    BY <1>1, <1>3, <2>1 DEF Witnessed, Found
<1> QED
  BY <1>2, <1>3

LEMMA AmongLiterals ==
  /\ \A x, a : Among(x, <<a>>) <=> x = a
  /\ \A x, a, b : Among(x, <<a, b>>) <=> x \in {a, b}
  /\ \A x, a, b, c : Among(x, <<a, b, c>>) <=> x \in {a, b, c}
  /\ \A x, a, b, c, d : Among(x, <<a, b, c, d>>) <=> x \in {a, b, c, d}
  /\ \A x : ~Among(x, <<>>)
<1>1. \A x, a : Among(x, <<a>>) <=> x = a
  BY DEF Among
<1>2. \A x, a, b : Among(x, <<a, b>>) <=> x \in {a, b}
  BY DEF Among
<1>3. \A x, a, b, c : Among(x, <<a, b, c>>) <=> x \in {a, b, c}
  BY DEF Among
<1>4. \A x, a, b, c, d : Among(x, <<a, b, c, d>>) <=> x \in {a, b, c, d}
  BY DEF Among
<1>5. \A x : ~Among(x, <<>>)
  BY DEF Among
<1> QED
  BY <1>1, <1>2, <1>3, <1>4, <1>5

LEMMA SectionsAreShown ==
  Sections \in Seq(File) /\ Sections # <<>> /\ \A f \in Shown : Among(f, Sections)
<1>1. Sections = <<"objective", "resolved", "checkpoint", "status", "campaign", "product">>
  BY DEF Sections
<1>2. Len(Sections) = 6 /\ Sections[1] = "objective" /\ Sections[2] = "resolved" /\ Sections[3] = "checkpoint"
      /\ Sections[4] = "status" /\ Sections[5] = "campaign" /\ Sections[6] = "product"
  BY <1>1
<1>3. Sections \in Seq(File)
  BY <1>1 DEF File, EnduranceFiles, Reports
<1>4. \A f \in Shown : Among(f, Sections)
  BY <1>2 DEF Among, Shown, EnduranceFiles, Reports
<1> QED
  BY <1>2, <1>3, <1>4

LEMMA Judged ==
  ASSUME RequestTyped, NEW v \in Version, NEW verdict, Judge(v, verdict)
  PROVE  /\ bundle' = [w \in Version |-> bundle'[w]]
         /\ \A w \in Version \ {v} : w \in Committed' => w \in Committed
         /\ verdict # "complete" => Committed' \subseteq Committed
<1>1. bundle = [w \in Version |-> bundle[w]] /\ bundle' = [bundle EXCEPT ![v] = verdict]
  BY DEF RequestTyped, Judge
<1>2. bundle' = [w \in Version |-> bundle'[w]] /\ \A w \in Version : bundle'[w] = IF w = v THEN verdict ELSE bundle[w]
  BY <1>1
<1> QED
  BY <1>2 DEF Committed, Version

\* Until its receipt is read, v2 waits for what it pins.
LEMMA V2Waits ==
  ASSUME StatusInv, RequestGoes, stage \in BeforeV2, stage' \in BeforeV2, disk["receiptV2"] # Absent
  PROVE  Witnessed("v2", disk["receiptV2"])'
<1>1. PICK r : r = disk["receiptV2"]
  OBVIOUS
<1>2. Witnessed("v2", r) /\ "v2" \in Version /\ disk' = disk
  BY <1>1 DEF StatusInv, Honest, Version, RequestGoes
<1>3. \A f \in Inputs("v2") : Awaits("v2", f)'
  BY DEF Awaits
<1>4. Witnessed("v2", r)'
  BY <1>2, <1>3, FoundStays
<1> QED
  BY <1>1, <1>2, <1>4

\* A receipt is read: it is missing or spoiled, or its inputs are looked at next.
LEMMA ReceiptRead ==
  ASSUME FilesTyped, RequestTyped, NEW v \in Version, cache[ReceiptFile(v)] = Unread,
         NEW pins, NEW inputStage, NEW after,
         ReadReceipt(ReceiptFile(v), v, pins, inputStage, after)
  PROVE  /\ CacheGrows /\ cache'[ReceiptFile(v)] = disk[ReceiptFile(v)]
         /\ \A g \in File \ {ReceiptFile(v)} : cache'[g] = cache[g]
         /\ UNCHANGED fileVars
         /\ bundle' = [w \in Version |-> bundle'[w]] /\ Committed' \subseteq Committed
         /\ \/ Enter(after[1], after[2])
            \/ /\ Enter(inputStage, pins)
               /\ disk[ReceiptFile(v)] \notin {Absent, Unread} /\ disk[ReceiptFile(v)].whole
<1>1. ReceiptFile(v) \in File /\ cache' = ReadOnce(ReceiptFile(v)) /\ UNCHANGED fileVars
  BY DEF ReceiptFile, File, ReadReceipt
<1>2. /\ CacheGrows /\ cache'[ReceiptFile(v)] = disk[ReceiptFile(v)] /\ cache'[ReceiptFile(v)] # Unread
      /\ \A g \in File \ {ReceiptFile(v)} : cache'[g] = cache[g]
  BY <1>1, ReadOnceGrows
<1>3. \/ \E verdict \in {"pending", "invalid"} : Judge(v, verdict) /\ Enter(after[1], after[2])
      \/ /\ Enter(inputStage, pins) /\ bundle' = bundle
         /\ disk[ReceiptFile(v)] # Absent /\ disk[ReceiptFile(v)].whole
  BY <1>2 DEF ReadReceipt, WellFormed
<1>4. ASSUME NEW verdict \in {"pending", "invalid"}, Judge(v, verdict)
      PROVE  bundle' = [w \in Version |-> bundle'[w]] /\ Committed' \subseteq Committed
  BY <1>4, Judged
<1>5. bundle' = bundle => bundle' = [w \in Version |-> bundle'[w]] /\ Committed' \subseteq Committed
  BY DEF RequestTyped, Committed
<1> QED
  BY <1>1, <1>2, <1>3, <1>4, <1>5

LEMMA BeginRequestKeeps ==
  ASSUME StatusInv, Remembers, BeginRequest
  PROVE  StatusInv'
<1>1. FilesTyped /\ RequestTyped /\ stage = "idle" /\ "v1" \in Version /\ "v2" \in Version
      /\ ReceiptFile("v1") = "receipt" /\ ReceiptFile("v2") = "receiptV2" /\ "receipt" \in File /\ "receiptV2" \in File
  BY DEF StatusInv, BeginRequest, Version, ReceiptFile, File
<1>2. (\A f \in File : cache[f] = Unread) /\ Committed = {}
  BY <1>1 DEF RequestTyped
<1>3. PICK pins, after : /\ pins = <<"checkpoint", "status", "resolved", "generators">>
                         /\ after = <<"receiptV2", <<>> >>
  OBVIOUS
<1>4. ReadReceipt("receipt", "v1", pins, "inputs", after)
  BY <1>3 DEF BeginRequest
<1>5. /\ CacheGrows /\ cache'["receipt"] = disk["receipt"]
      /\ \A g \in File \ {"receipt"} : cache'[g] = Unread
      /\ UNCHANGED fileVars
      /\ bundle' = [w \in Version |-> bundle'[w]] /\ Committed' = {}
      /\ \/ Enter("receiptV2", <<>>)
         \/ Enter("inputs", pins) /\ disk["receipt"] \notin {Absent, Unread} /\ disk["receipt"].whole
  BY <1>1, <1>2, <1>3, <1>4, ReceiptRead
<1>6. pins \in Seq(File) /\ pins # <<>> /\ \A f \in Inputs("v1") : Among(f, pins)
  BY <1>3, AmongLiterals DEF File, EnduranceFiles, Inputs
<1>7. \A i \in 1 .. Len(pins) : pins[i] \in Inputs("v1")
  BY <1>3 DEF Inputs, EnduranceFiles
<1>8. stage' \in {"inputs", "receiptV2"} /\ (stage' = "inputs" => left' = pins) /\ (stage' = "receiptV2" => left' = <<>>)
      /\ <<>> \in Seq(File)
  BY <1>5 DEF Enter
<1>9. RequestGoes
  BY <1>5, <1>6, <1>8 DEF RequestGoes, fileVars, Stages, Looking, Checking
<1>10. Progress'
  <2>1. stage' = "inputs" => cache'["receipt"] \notin {Absent, Unread} /\ cache'["receipt"].whole
    BY <1>5 DEF Enter
  <2> QED
    BY <1>1, <1>5, <1>7, <1>8, <2>1 DEF Progress, Checking, ReceiptOf, BeforeV2
<1>11. Honest'
  <2>1. ASSUME stage' = "inputs" PROVE Witnessed("v1", disk["receipt"])'
    <3>1. PICK r : r = disk["receipt"]
      OBVIOUS
    <3>2. disk' = disk /\ r # Absent
      BY <1>5, <2>1, <3>1 DEF fileVars, Enter
    <3>3. \A f \in Inputs("v1") : Awaits("v1", f)'
      BY <1>6, <1>8, <2>1 DEF Awaits
    <3>4. \A f \in Outputs("v1") : cache'[f] = Unread
      BY <1>5 DEF Outputs, Reports, File
    <3>5. Witnessed("v1", r)'
      BY <1>1, <1>9, <3>1, <3>2, <3>3, <3>4, FirstLook
    <3> QED
      BY <3>1, <3>2, <3>5
  <2>2. ASSUME disk["receiptV2"] # Absent PROVE Witnessed("v2", disk["receiptV2"])'
    <3>1. PICK r : r = disk["receiptV2"]
      OBVIOUS
    <3>2. disk' = disk
      BY <1>5 DEF fileVars
    <3>3. \A f \in Inputs("v2") : Awaits("v2", f)'
      BY <1>8 DEF Awaits, BeforeV2
    <3>4. \A f \in Outputs("v2") : cache'[f] = Unread
      BY <1>5 DEF Outputs, Reports, File
    <3>5. Witnessed("v2", r)'
      BY <1>1, <1>9, <2>2, <3>1, <3>3, <3>4, FirstLook
    <3> QED
      BY <3>1, <3>2, <3>5
  <2>3. ReceiptOf("v1")' = disk'["receipt"] /\ disk' = disk
    BY <1>5 DEF ReceiptOf, ReceiptFile, fileVars
  <2>4. \A v \in Version : stage' \in Checking(v) => v = "v1" /\ stage' = "inputs"
    BY <1>8 DEF Checking, Version
  <2> QED
    BY <2>1, <2>2, <2>3, <2>4 DEF Honest
<1> QED
  BY <1>5, <1>9, <1>10, <1>11, RequestKeeps

LEMMA ReadReceiptV2Keeps ==
  ASSUME StatusInv, Remembers, ReadReceiptV2
  PROVE  StatusInv'
<1>1. FilesTyped /\ RequestTyped /\ Progress /\ Honest /\ stage = "receiptV2" /\ "v2" \in Version
      /\ ReceiptFile("v2") = "receiptV2" /\ "receiptV2" \in File
  BY DEF StatusInv, ReadReceiptV2, Version, ReceiptFile, File
<1>2. cache["receiptV2"] = Unread
  BY <1>1 DEF Progress, BeforeV2
<1>3. PICK pins, after : pins = <<"evidence">> /\ after = <<"sections", Sections>>
  OBVIOUS
<1>4. ReadReceipt("receiptV2", "v2", pins, "inputsV2", after)
  BY <1>3 DEF ReadReceiptV2
<1>5. /\ CacheGrows /\ cache'["receiptV2"] = disk["receiptV2"]
      /\ UNCHANGED fileVars
      /\ bundle' = [w \in Version |-> bundle'[w]] /\ Committed' \subseteq Committed
      /\ \/ Enter("sections", Sections)
         \/ Enter("inputsV2", pins) /\ disk["receiptV2"] \notin {Absent, Unread} /\ disk["receiptV2"].whole
  BY <1>1, <1>2, <1>3, <1>4, ReceiptRead
<1>6. pins \in Seq(File) /\ pins # <<>> /\ (\A i \in 1 .. Len(pins) : pins[i] \in Inputs("v2"))
      /\ \A f \in Inputs("v2") : Among(f, pins)
  BY <1>3, AmongLiterals DEF File, Inputs
<1>7. stage' \in {"sections", "inputsV2"} /\ (stage' = "sections" => left' = Sections) /\ (stage' = "inputsV2" => left' = pins)
  BY <1>5 DEF Enter
<1>8. RequestGoes
  BY <1>5, <1>6, <1>7, SectionsAreShown DEF RequestGoes, fileVars, Stages, Looking, Checking
<1>9. stage' = "inputsV2" => cache'["receiptV2"] \notin {Absent, Unread} /\ cache'["receiptV2"].whole
  BY <1>5 DEF Enter
<1>10. Progress'
  <2>1. stage' = "sections" => \A f \in Shown : Among(f, left')
    BY <1>7, SectionsAreShown
  <2>2. \A v \in Version : stage' \in Checking(v) => v = "v2" /\ stage' = "inputsV2"
    BY <1>7 DEF Checking, Version
  <2>3. ReceiptOf("v2")' = cache'["receiptV2"]
    BY <1>1 DEF ReceiptOf
  <2> QED
    BY <1>6, <1>7, <1>9, <2>1, <2>2, <2>3 DEF Progress, BeforeV2, ToRead
<1>11. Honest'
  <2>1. ASSUME stage' = "inputsV2" PROVE Witnessed("v2", ReceiptOf("v2"))'
    <3>1. PICK r : r = disk["receiptV2"]
      OBVIOUS
    <3>2. Witnessed("v2", r) /\ ReceiptOf("v2")' = r
      BY <1>1, <1>5, <2>1, <3>1 DEF Honest, BeforeV2, Enter, ReceiptOf
    <3>3. \A f \in Inputs("v2") : Awaits("v2", f)'
      BY <1>6, <1>7, <2>1 DEF Awaits
    <3>4. Witnessed("v2", r)'
      BY <1>1, <1>8, <3>2, <3>3, FoundStays
    <3> QED
      BY <3>2, <3>4
  <2>2. \A v \in Version : stage' \in Checking(v) => v = "v2" /\ stage' = "inputsV2"
    BY <1>7 DEF Checking, Version
  <2> QED
    BY <1>7, <2>1, <2>2 DEF Honest, BeforeV2
<1> QED
  BY <1>5, <1>8, <1>10, <1>11, RequestKeeps

\* One pinned input is looked at: as the disk is now.
LEMMA InputFacts ==
  ASSUME StatusInv, NEW v \in Version, stage \in Checking(v), left # <<>>,
         \A i \in 1 .. Len(left) : left[i] \in Inputs(v), NEW f, f = Head(left)
  PROVE  /\ f \in Inputs(v) /\ f \in PinnedFiles(v) /\ Tail(left) \in Seq(File)
         /\ \A i \in 1 .. Len(Tail(left)) : Tail(left)[i] \in Inputs(v)
         /\ InputHolds(ReceiptOf(v).inputs[f], f) <=> disk[f] = Pin(v, ReceiptOf(v), f)
         /\ \A g : Among(g, left) => g = f \/ Among(g, Tail(left))
<1>1. left \in Seq(File)
  BY DEF StatusInv, RequestTyped
<1>2. /\ Len(left) > 0 /\ f = left[1] /\ Tail(left) \in Seq(File)
      /\ \A i \in 1 .. Len(Tail(left)) : i + 1 \in 1 .. Len(left) /\ Tail(left)[i] = left[i + 1]
  BY <1>1, HeadAndTail
<1>3. f \in Inputs(v)
  BY <1>2
<1>4. \A g : Among(g, left) => g = f \/ Among(g, Tail(left))
  BY <1>1, AmongTail
<1> QED
  BY <1>2, <1>3, <1>4 DEF PinnedFiles, Pin, InputHolds

\* What was looked at and is as pinned is not the file that makes the receipt wrong.
LEMMA LookedAt ==
  ASSUME StatusInv, RequestGoes, NEW v \in Version, NEW receipt, Witnessed(v, receipt),
         NEW f \in Inputs(v), disk[f] = Pin(v, receipt, f), v = "v2" => stage \notin BeforeV2,
         \A g : Among(g, left) => g = f \/ Awaits(v, g)'
  PROVE  Witnessed(v, receipt)'
<1>1. ASSUME NEW g \in Inputs(v), disk[g] # Pin(v, receipt, g), Awaits(v, g) PROVE Awaits(v, g)'
  <2>1. g # f /\ Among(g, left)
    BY <1>1 DEF Awaits, Version
  <2> QED
    BY <2>1
<1> QED
  BY <1>1, FoundStays

LEMMA VerifyInputV1Keeps ==
  ASSUME StatusInv, Remembers, stage = "inputs",
         VerifyInput("receipt", "v1", <<"lineage", <<"resolved", "checkpoint", "status">> >>, <<"receiptV2", <<>> >>)
  PROVE  StatusInv'
<1>1. FilesTyped /\ RequestTyped /\ Progress /\ Honest /\ "v1" \in Version /\ "v2" \in Version
      /\ ReceiptFile("v1") = "receipt" /\ ReceiptFile("v2") = "receiptV2"
      /\ stage \in Checking("v1") /\ left # <<>> /\ left \in Seq(File)
  BY DEF StatusInv, Version, ReceiptFile, Checking, RequestTyped, Looking
<1>2. PICK f, docs : f = Head(left) /\ docs = <<"resolved", "checkpoint", "status">>
  OBVIOUS
<1>3. /\ f \in Inputs("v1") /\ Tail(left) \in Seq(File)
      /\ \A i \in 1 .. Len(Tail(left)) : Tail(left)[i] \in Inputs("v1")
      /\ InputHolds(ReceiptOf("v1").inputs[f], f) <=> disk[f] = Pin("v1", ReceiptOf("v1"), f)
      /\ \A g : Among(g, left) => g = f \/ Among(g, Tail(left))
  BY <1>1, <1>2, InputFacts DEF Progress
<1>4. cache' = cache /\ UNCHANGED fileVars
  BY DEF VerifyInput
<1>5. \/ disk[f] = Pin("v1", ReceiptOf("v1"), f) /\ Tail(left) = <<>> /\ Enter("lineage", docs) /\ bundle' = bundle
      \/ disk[f] = Pin("v1", ReceiptOf("v1"), f) /\ Tail(left) # <<>> /\ Enter("inputs", Tail(left)) /\ bundle' = bundle
      \/ Judge("v1", "stale_lineage") /\ Enter("receiptV2", <<>>)
  BY <1>1, <1>2, <1>3 DEF VerifyInput, ReceiptOf
<1>6. bundle' = [w \in Version |-> bundle'[w]] /\ Committed' \subseteq Committed
  BY <1>1, <1>5, Judged DEF RequestTyped, Committed
<1>7. docs \in Seq(File) /\ docs # <<>> /\ (\A g \in EnduranceFiles : Among(g, docs)) /\ <<>> \in Seq(File)
      /\ \A i \in 1 .. Len(docs) : docs[i] \in EnduranceFiles
  BY <1>2, AmongLiterals DEF File, EnduranceFiles
<1>8. CacheGrows
  BY <1>1, <1>4 DEF CacheGrows, RequestTyped
<1>9. RequestGoes
  BY <1>3, <1>4, <1>5, <1>6, <1>7, <1>8 DEF RequestGoes, fileVars, Enter, Stages, Looking, Checking
<1>10. stage' \in {"inputs", "lineage", "receiptV2"} /\ stage \in BeforeV2 /\ stage' \in BeforeV2
  BY <1>5 DEF Enter, BeforeV2
<1>11. Progress'
  <2>1. ReceiptOf("v1")' = ReceiptOf("v1") /\ ReceiptOf("v1") \notin {Absent, Unread} /\ ReceiptOf("v1").whole
    BY <1>1, <1>4 DEF Progress, ReceiptOf
  <2>2. stage' = "inputs" => \A i \in 1 .. Len(left') : left'[i] \in Inputs("v1")
    BY <1>3, <1>5 DEF Enter
  <2>3. stage' = "lineage" =>
          (\A g \in EnduranceFiles : Among(g, left')) /\ \A i \in 1 .. Len(left') : left'[i] \in EnduranceFiles
    BY <1>5, <1>7 DEF Enter
  <2>4. \A v \in Version : stage' \in Checking(v) => v = "v1"
    BY <1>10 DEF Checking, Version
  <2>5. cache'["receiptV2"] = Unread
    BY <1>1, <1>4, <1>10 DEF Progress
  <2> QED
    BY <1>10, <2>1, <2>2, <2>3, <2>4, <2>5 DEF Progress, ToRead
<1>12. Honest'
  <2>1. ASSUME stage' # "receiptV2" PROVE Witnessed("v1", ReceiptOf("v1"))'
    <3>1. PICK r : r = ReceiptOf("v1")
      OBVIOUS
    <3>2. Witnessed("v1", r) /\ ReceiptOf("v1")' = r /\ disk[f] = Pin("v1", r, f)
      BY <1>1, <1>4, <1>5, <2>1, <3>1 DEF Honest, ReceiptOf, Enter
    <3>3. ASSUME NEW g, Among(g, left), g # f PROVE Awaits("v1", g)'
      <4>1. Among(g, Tail(left))
        BY <1>3, <3>3
      <4>2. Tail(left) # <<>>
        BY <4>1, AmongLiterals
      <4>3. stage' = "inputs" /\ left' = Tail(left)
        BY <1>5, <2>1, <4>2 DEF Enter
      <4> QED
        BY <4>1, <4>3 DEF Awaits
    <3>4. Witnessed("v1", r)'
      BY <1>1, <1>3, <1>9, <3>2, <3>3, LookedAt
    <3> QED
      BY <3>2, <3>4
  <2>2. disk' = disk
    BY <1>4 DEF fileVars
  <2>3. disk["receiptV2"] # Absent => Witnessed("v2", disk["receiptV2"])'
    BY <1>9, <1>10, V2Waits
  <2>4. \A v \in Version : stage' \in Checking(v) => v = "v1" /\ stage' # "receiptV2"
    BY <1>10 DEF Checking, Version
  <2> QED
    BY <2>1, <2>2, <2>3, <2>4 DEF Honest
<1> QED
  BY <1>6, <1>9, <1>11, <1>12, RequestKeeps

LEMMA VerifyInputV2Keeps ==
  ASSUME StatusInv, Remembers, stage = "inputsV2",
         VerifyInput("receiptV2", "v2", <<"outputsV2", <<"objective", "product">> >>, <<"sections", Sections>>)
  PROVE  StatusInv'
<1>1. FilesTyped /\ RequestTyped /\ Progress /\ Honest /\ "v2" \in Version
      /\ ReceiptFile("v2") = "receiptV2"
      /\ stage \in Checking("v2") /\ left # <<>> /\ left \in Seq(File) /\ stage \notin BeforeV2
  BY DEF StatusInv, Version, ReceiptFile, Checking, RequestTyped, Looking, BeforeV2
<1>2. PICK f, outs : f = Head(left) /\ outs = <<"objective", "product">>
  OBVIOUS
<1>3. /\ f \in Inputs("v2") /\ Tail(left) \in Seq(File)
      /\ \A i \in 1 .. Len(Tail(left)) : Tail(left)[i] \in Inputs("v2")
      /\ InputHolds(ReceiptOf("v2").inputs[f], f) <=> disk[f] = Pin("v2", ReceiptOf("v2"), f)
      /\ \A g : Among(g, left) => g = f \/ Among(g, Tail(left))
  BY <1>1, <1>2, InputFacts DEF Progress
<1>4. cache' = cache /\ UNCHANGED fileVars
  BY DEF VerifyInput
<1>5. \/ disk[f] = Pin("v2", ReceiptOf("v2"), f) /\ Tail(left) = <<>> /\ Enter("outputsV2", outs) /\ bundle' = bundle
      \/ disk[f] = Pin("v2", ReceiptOf("v2"), f) /\ Tail(left) # <<>> /\ Enter("inputsV2", Tail(left)) /\ bundle' = bundle
      \/ Judge("v2", "stale_lineage") /\ Enter("sections", Sections)
  BY <1>1, <1>2, <1>3 DEF VerifyInput, ReceiptOf
<1>6. bundle' = [w \in Version |-> bundle'[w]] /\ Committed' \subseteq Committed
  BY <1>1, <1>5, Judged DEF RequestTyped, Committed
<1>7. outs \in Seq(File) /\ outs # <<>> /\ (\A g \in Outputs("v2") : Among(g, outs))
      /\ \A i \in 1 .. Len(outs) : outs[i] \in Outputs("v2")
  BY <1>2, AmongLiterals DEF File, Reports, Outputs
<1>8. CacheGrows
  BY <1>1, <1>4 DEF CacheGrows, RequestTyped
<1>9. RequestGoes
  BY <1>3, <1>4, <1>5, <1>6, <1>7, <1>8, SectionsAreShown DEF RequestGoes, fileVars, Enter, Stages, Looking, Checking
<1>10. stage' \in {"inputsV2", "outputsV2", "sections"} /\ stage' \notin BeforeV2
  BY <1>5 DEF Enter, BeforeV2
<1>11. Progress'
  <2>1. ReceiptOf("v2")' = ReceiptOf("v2") /\ ReceiptOf("v2") \notin {Absent, Unread} /\ ReceiptOf("v2").whole
    BY <1>1, <1>4 DEF Progress, ReceiptOf
  <2>2. stage' = "inputsV2" => \A i \in 1 .. Len(left') : left'[i] \in Inputs("v2")
    BY <1>3, <1>5 DEF Enter
  <2>3. stage' = "outputsV2" => (\A g \in Outputs("v2") : Among(g, left')) /\ \A i \in 1 .. Len(left') : left'[i] \in Outputs("v2")
    BY <1>5, <1>7 DEF Enter
  <2>4. \A v \in Version : stage' \in Checking(v) => v = "v2"
    BY <1>10 DEF Checking, Version
  <2>5. stage' = "sections" => \A g \in Shown : Among(g, left')
    BY <1>5, SectionsAreShown DEF Enter
  <2> QED
    BY <1>10, <2>1, <2>2, <2>3, <2>4, <2>5 DEF Progress, ToRead, ToCompare
<1>12. Honest'
  <2>1. ASSUME stage' # "sections" PROVE Witnessed("v2", ReceiptOf("v2"))'
    <3>1. PICK r : r = ReceiptOf("v2")
      OBVIOUS
    <3>2. Witnessed("v2", r) /\ ReceiptOf("v2")' = r /\ disk[f] = Pin("v2", r, f)
      BY <1>1, <1>4, <1>5, <2>1, <3>1 DEF Honest, ReceiptOf, Enter
    <3>3. ASSUME NEW g, Among(g, left), g # f PROVE Awaits("v2", g)'
      <4>1. Among(g, Tail(left))
        BY <1>3, <3>3
      <4>2. Tail(left) # <<>>
        BY <4>1, AmongLiterals
      <4>3. stage' = "inputsV2" /\ left' = Tail(left)
        BY <1>5, <2>1, <4>2 DEF Enter
      <4> QED
        BY <4>1, <4>3 DEF Awaits
    <3>4. Witnessed("v2", r)'
      BY <1>1, <1>3, <1>9, <3>2, <3>3, LookedAt
    <3> QED
      BY <3>2, <3>4
  <2>2. \A v \in Version : stage' \in Checking(v) => v = "v2" /\ stage' # "sections"
    BY <1>10 DEF Checking, Version
  <2> QED
    BY <1>10, <2>1, <2>2 DEF Honest
<1> QED
  BY <1>6, <1>9, <1>11, <1>12, RequestKeeps

LEMMA ReadLineageKeeps ==
  ASSUME StatusInv, Remembers, ReadLineage
  PROVE  StatusInv'
<1>1. FilesTyped /\ RequestTyped /\ Progress /\ Honest /\ "v1" \in Version
      /\ ReceiptFile("v1") = "receipt" /\ ReceiptFile("v2") = "receiptV2" /\ "receipt" \in File /\ "receiptV2" \in File
      /\ stage = "lineage" /\ stage \in Checking("v1") /\ stage \in BeforeV2 /\ left # <<>> /\ left \in Seq(File)
  BY DEF StatusInv, Version, ReceiptFile, Checking, RequestTyped, Looking, ReadLineage, BeforeV2, File
<1>2. PICK f, outs : f = Head(left) /\ outs = <<"campaign", "objective", "product">>
  OBVIOUS
<1>3. f \in File /\ Tail(left) \in Seq(File) /\ \A g : Among(g, left) => g = f \/ Among(g, Tail(left))
  BY <1>1, <1>2, HeadAndTail, AmongTail
<1>4. cache' = ReadOnce(f) /\ UNCHANGED fileVars
  BY <1>2 DEF ReadLineage
<1>5. CacheGrows /\ cache'[f] # Unread /\ \A g \in File \ {f} : cache'[g] = cache[g]
  BY <1>1, <1>3, <1>4, ReadOnceGrows
<1>6. \/ Tail(left) # <<>> /\ Enter("lineage", Tail(left)) /\ bundle' = bundle
      \/ Tail(left) = <<>> /\ IdentityHolds([g \in EnduranceFiles |-> cache'[g]]) /\ Enter("outputs", outs) /\ bundle' = bundle
      \/ Judge("v1", "stale_lineage") /\ Enter("receiptV2", <<>>)
  BY <1>1, <1>2 DEF ReadLineage
<1>7. bundle' = [w \in Version |-> bundle'[w]] /\ Committed' \subseteq Committed
  <2>1. ASSUME Judge("v1", "stale_lineage")
        PROVE  bundle' = [w \in Version |-> bundle'[w]] /\ Committed' \subseteq Committed
    BY <1>1, <2>1, Judged
  <2>2. bundle' = bundle => bundle' = [w \in Version |-> bundle'[w]] /\ Committed' \subseteq Committed
    BY <1>1 DEF RequestTyped, Committed
  <2> QED
    BY <1>6, <2>1, <2>2
<1>8. outs \in Seq(File) /\ outs # <<>> /\ (\A g \in Outputs("v1") : Among(g, outs)) /\ <<>> \in Seq(File)
      /\ \A i \in 1 .. Len(outs) : outs[i] \in Outputs("v1")
  BY <1>2, AmongLiterals DEF File, Reports, Outputs
<1>9. RequestGoes
  BY <1>3, <1>4, <1>5, <1>6, <1>7, <1>8 DEF RequestGoes, fileVars, Enter, Stages, Looking, Checking
<1>10. stage' \in {"lineage", "outputs", "receiptV2"} /\ stage' \in BeforeV2
  BY <1>6 DEF Enter, BeforeV2
<1>11. cache["receipt"] # Unread /\ cache'["receipt"] = cache["receipt"]
  BY <1>1, <1>5 DEF Progress, ReceiptOf, CacheGrows
<1>12. f # "receiptV2" /\ \A i \in 1 .. Len(Tail(left)) : Tail(left)[i] \in EnduranceFiles
  <2>1. \A i \in 1 .. Len(left) : left[i] \in EnduranceFiles
    BY <1>1 DEF Progress
  <2>2. /\ Len(left) > 0 /\ f = left[1]
        /\ \A i \in 1 .. Len(Tail(left)) : i + 1 \in 1 .. Len(left) /\ Tail(left)[i] = left[i + 1]
    BY <1>1, <1>2, HeadAndTail
  <2>3. f \in EnduranceFiles
    BY <1>1, <2>1, <2>2
  <2> QED
    BY <2>1, <2>2, <2>3 DEF EnduranceFiles
<1>13. Progress'
  <2>1. ReceiptOf("v1")' = ReceiptOf("v1") /\ ReceiptOf("v1") \notin {Absent, Unread} /\ ReceiptOf("v1").whole
    BY <1>1, <1>11 DEF Progress, ReceiptOf
  <2>2. \A g \in EnduranceFiles : cache'[g] # Unread \/ Among(g, Tail(left))
    BY <1>1, <1>3, <1>5 DEF Progress, ToRead, CacheGrows, File
  <2>3. stage' = "lineage" => ToRead(EnduranceFiles)' /\ \A i \in 1 .. Len(left') : left'[i] \in EnduranceFiles
    BY <1>6, <1>12, <2>2 DEF Enter, ToRead
  <2>4. stage' = "outputs" => LineageHolds' /\ ToCompare("v1")' /\ \A i \in 1 .. Len(left') : left'[i] \in Outputs("v1")
    <3> SUFFICES ASSUME stage' = "outputs"
                 PROVE  LineageHolds' /\ ToCompare("v1")' /\ \A i \in 1 .. Len(left') : left'[i] \in Outputs("v1")
      OBVIOUS
    <3>1. Tail(left) = <<>> /\ IdentityHolds([g \in EnduranceFiles |-> cache'[g]]) /\ left' = outs
      BY <1>6 DEF Enter
    <3>2. \A g \in EnduranceFiles : cache'[g] # Unread
      BY <2>2, <3>1, AmongLiterals
    <3>3. LineageHolds'
      BY <1>11, <3>1, <3>2 DEF LineageHolds, IdentityHolds, ShownDocs
    <3> QED
      BY <1>8, <3>1, <3>3 DEF ToCompare
  <2>5. cache'["receiptV2"] = Unread
    BY <1>1, <1>5, <1>12 DEF Progress
  <2>6. \A v \in Version : stage' \in Checking(v) => v = "v1"
    BY <1>10 DEF Checking, Version
  <2> QED
    BY <1>10, <2>1, <2>3, <2>4, <2>5, <2>6 DEF Progress
<1>14. Honest'
  <2>1. PICK r : r = ReceiptOf("v1")
    OBVIOUS
  <2>2. Witnessed("v1", r) /\ ReceiptOf("v1")' = r
    BY <1>1, <1>11, <2>1 DEF Honest, ReceiptOf
  <2>3. \A g \in Inputs("v1") : ~Awaits("v1", g)
    BY <1>1 DEF Awaits
  <2>4. Witnessed("v1", r)'
    BY <1>1, <1>9, <2>2, <2>3, FoundStays
  <2>5. disk' = disk
    BY <1>4 DEF fileVars
  <2>6. disk["receiptV2"] # Absent => Witnessed("v2", disk["receiptV2"])'
    BY <1>1, <1>9, <1>10, V2Waits
  <2>7. \A v \in Version : stage' \in Checking(v) => v = "v1"
    BY <1>10 DEF Checking, Version
  <2> QED
    BY <2>2, <2>4, <2>5, <2>6, <2>7 DEF Honest
<1> QED
  BY <1>7, <1>9, <1>13, <1>14, RequestKeeps

\* One output is compared, as the request has it, and at the last one the verdict is earned.
LEMMA VerifyOutputKeeps ==
  ASSUME StatusInv, Remembers, NEW v \in Version, stage = (IF v = "v1" THEN "outputs" ELSE "outputsV2"),
         NEW mismatch, mismatch # "complete", NEW after,
         after = (IF v = "v1" THEN <<"receiptV2", <<>> >> ELSE <<"sections", Sections>>),
         VerifyOutput(ReceiptFile(v), v, mismatch, after)
  PROVE  StatusInv'
<1>1. FilesTyped /\ RequestTyped /\ Progress /\ Honest
      /\ ReceiptFile(v) \in {"receipt", "receiptV2"} /\ ReceiptFile(v) \in File
      /\ stage \in Checking(v) /\ left # <<>> /\ left \in Seq(File) /\ stage \notin {"inputs", "inputsV2"}
  BY DEF StatusInv, Version, ReceiptFile, Checking, RequestTyped, Looking, File
<1>2. ReceiptOf(v) \notin {Absent, Unread} /\ ReceiptOf(v).whole /\ ToCompare(v)
      /\ (\A i \in 1 .. Len(left) : left[i] \in Outputs(v)) /\ (v = "v1" => LineageHolds)
      /\ (v = "v1" => cache["receiptV2"] = Unread)
  BY <1>1 DEF Progress, Version, BeforeV2
<1>3. PICK f, r : f = Head(left) /\ r = ReceiptOf(v)
  OBVIOUS
<1>4. /\ f \in Outputs(v) /\ f \in File /\ f \in Reports /\ Tail(left) \in Seq(File)
      /\ \A i \in 1 .. Len(Tail(left)) : Tail(left)[i] \in Outputs(v)
      /\ \A g : Among(g, left) => g = f \/ Among(g, Tail(left))
  <2>1. /\ Len(left) > 0 /\ f = left[1] /\ Tail(left) \in Seq(File)
        /\ \A i \in 1 .. Len(Tail(left)) : i + 1 \in 1 .. Len(left) /\ Tail(left)[i] = left[i + 1]
    BY <1>1, <1>3, HeadAndTail
  <2>2. f \in Outputs(v)
    BY <1>2, <2>1
  <2> QED
    BY <1>1, <1>2, <1>3, <2>1, <2>2, AmongTail DEF Outputs, File, Reports
<1>5. cache' = ReadOnce(f) /\ UNCHANGED fileVars
  BY <1>3 DEF VerifyOutput
<1>6. /\ CacheGrows /\ cache'[f] # Unread
      /\ cache[f] # Unread => cache'[f] = cache[f]
      /\ cache[f] = Unread => cache'[f] = disk[f]
      /\ \A g \in File \ {f} : cache'[g] = cache[g]
  BY <1>1, <1>4, <1>5, ReadOnceGrows
<1>7. SoundFor(v, r) /\ r \in Known(v)
  BY <1>1, <1>2, <1>3, KnownIsSound DEF Known, ReceiptOf
<1>8. \A g \in Outputs(v) : g \in PinnedFiles(v) /\ g \notin Inputs(v) /\ Pin(v, r, g) = r.outputs[g]
  BY DEF Outputs, Inputs, PinnedFiles, Pin, Reports, EnduranceFiles
<1>9. \/ cache'[f] # r.outputs[f] /\ Judge(v, mismatch) /\ Enter(after[1], after[2])
      \/ cache'[f] = r.outputs[f] /\ Tail(left) # <<>> /\ Enter(stage, Tail(left)) /\ bundle' = bundle
      \/ /\ cache'[f] = r.outputs[f] /\ Tail(left) = <<>> /\ Enter(after[1], after[2])
         /\ Judge(v, IF SemanticsHold(v, cache') THEN "complete" ELSE "invalid")
  BY <1>3 DEF VerifyOutput, ReceiptOf
<1>10. /\ bundle' = [w \in Version |-> bundle'[w]]
       /\ \A w \in Version \ {v} : w \in Committed' => w \in Committed
       /\ v \in Committed' => v \in Committed \/ (cache'[f] = r.outputs[f] /\ Tail(left) = <<>> /\ SemanticsHold(v, cache'))
  <2>1. PICK verdict : verdict = IF SemanticsHold(v, cache') THEN "complete" ELSE "invalid"
    OBVIOUS
  <2>2. verdict = "complete" => SemanticsHold(v, cache')
    BY <2>1
  <2>3. ASSUME Judge(v, mismatch)
        PROVE  bundle' = [w \in Version |-> bundle'[w]] /\ Committed' \subseteq Committed
    BY <1>1, <2>3, Judged
  <2>4. ASSUME Judge(v, verdict)
        PROVE  /\ bundle' = [w \in Version |-> bundle'[w]]
               /\ \A w \in Version \ {v} : w \in Committed' => w \in Committed
               /\ verdict # "complete" => Committed' \subseteq Committed
    BY <1>1, <2>4, Judged
  <2>5. bundle' = bundle => bundle' = [w \in Version |-> bundle'[w]] /\ Committed' \subseteq Committed
    BY <1>1 DEF RequestTyped, Committed
  <2> QED
    BY <1>9, <2>1, <2>2, <2>3, <2>4, <2>5
<1>11. after[1] = (IF v = "v1" THEN "receiptV2" ELSE "sections") /\ after[2] = (IF v = "v1" THEN <<>> ELSE Sections)
       /\ <<>> \in Seq(File)
  OBVIOUS
<1>12. /\ stage' \in {stage, after[1]}
       /\ stage' = stage => left' = Tail(left) /\ Tail(left) # <<>> /\ cache'[f] = r.outputs[f]
       /\ stage' = after[1] => left' = after[2]
  BY <1>9, <1>11 DEF Enter
<1>13. RequestGoes
  BY <1>1, <1>4, <1>5, <1>6, <1>10, <1>11, <1>12, SectionsAreShown DEF RequestGoes, fileVars, Stages, Looking, Checking
<1>14. ReceiptOf(v)' = r /\ disk' = disk
  BY <1>1, <1>2, <1>3, <1>5, <1>6 DEF ReceiptOf, CacheGrows, fileVars
<1>15. \A g \in Outputs(v) : Among(g, Tail(left)) \/ g = f \/ cache'[g] = r.outputs[g]
  <2>1. ASSUME NEW g \in Outputs(v), cache[g] = r.outputs[g] PROVE cache'[g] = r.outputs[g]
    <3>1. cache[g] # Unread /\ g \in File
      BY <1>7, <1>8, <2>1, PinFacts DEF Outputs, File, Reports
    <3> QED
      BY <1>6, <2>1, <3>1 DEF CacheGrows
  <2> QED
    BY <1>2, <1>3, <1>4, <2>1 DEF ToCompare
<1>16. v = "v1" => LineageHolds'
  <2> SUFFICES ASSUME v = "v1" PROVE LineageHolds'
    OBVIOUS
  <2>1. \A g \in EnduranceFiles : cache[g] # Unread /\ cache'[g] = cache[g]
    BY <1>2, <1>6 DEF LineageHolds, CacheGrows, File
  <2>2. ShownDocs' = ShownDocs
    BY <2>1 DEF ShownDocs
  <2>3. cache'["receipt"] = cache["receipt"]
    BY <1>3, <1>14 DEF ReceiptOf, ReceiptFile
  <2> QED
    BY <1>2, <2>1, <2>2, <2>3 DEF LineageHolds, IdentityHolds
<1>17. Witnessed(v, r)
  BY <1>1, <1>3 DEF Honest
<1>18. \A g \in Inputs(v) : ~Awaits(v, g)
  BY <1>1 DEF Awaits, BeforeV2, Version
<1>19. ASSUME v \in Committed' PROVE v \in Committed \/ Earned(v)'
  <2> SUFFICES ASSUME cache'[f] = r.outputs[f], Tail(left) = <<>>, SemanticsHold(v, cache') PROVE Earned(v)'
    BY <1>10, <1>19
  <2>1. \A g \in Outputs(v) : cache'[g] = r.outputs[g]
    <3>1. PICK none : none = Tail(left)
      OBVIOUS
    <3>2. none = <<>>
      BY <3>1
    <3>3. \A g : ~Among(g, none)
      BY <3>2 DEF Among
    <3> QED
      BY <1>15, <3>1, <3>3
  <2>2. ASSUME NEW g \in PinnedFiles(v), disk[g] # Pin(v, r, g), g \notin Inputs(v), cache[g] # Pin(v, r, g) PROVE FALSE
    <3>1. g \in Outputs(v) /\ g \in File
      BY <2>2 DEF PinnedFiles, Outputs, File, Reports
    <3>2. cache'[g] = Pin(v, r, g)
      BY <1>8, <2>1, <3>1
    <3> QED
      BY <1>6, <2>2, <3>1, <3>2 DEF CacheGrows
  <2>3. ~Found(v, r)
    BY <1>18, <2>2 DEF Found
  <2>4. r \in together'[v]
    BY <1>2, <1>3, <1>17, <2>3 DEF Witnessed, Remembers
  <2> QED
    BY <1>2, <1>3, <1>14, <1>16, <2>1, <2>4 DEF Earned, ReceiptOf
<1>20. Progress'
  <2>1. stage' = stage => ToCompare(v)' /\ \A i \in 1 .. Len(left') : left'[i] \in Outputs(v)
    BY <1>4, <1>12, <1>14, <1>15 DEF ToCompare
  <2>2. stage' = "sections" => \A g \in Shown : Among(g, left')
    BY <1>1, <1>11, <1>12, SectionsAreShown
  <2>3. v = "v1" => cache'["receiptV2"] = Unread
    BY <1>2, <1>4, <1>6 DEF Reports, File
  <2>4. \A w \in Version : stage' \in Checking(w) => w = v /\ stage' = stage
    BY <1>11, <1>12 DEF Checking, Version
  <2>5. r \notin {Absent, Unread} /\ r.whole
    BY <1>2, <1>3
  <2> QED
    BY <1>11, <1>12, <1>14, <1>16, <2>1, <2>2, <2>3, <2>4, <2>5 DEF Progress, ToRead, BeforeV2, Version
<1>21. Honest'
  <2>1. Witnessed(v, r)'
    BY <1>13, <1>17, <1>18, FoundStays
  <2>2. ASSUME stage' \in BeforeV2, disk["receiptV2"] # Absent PROVE Witnessed("v2", disk["receiptV2"])'
    <3>1. stage \in BeforeV2
      BY <1>11, <1>12, <2>2 DEF BeforeV2, Version
    <3> QED
      BY <1>13, <2>2, <3>1, V2Waits
  <2>3. \A w \in Version : stage' \in Checking(w) => w = v
    BY <1>11, <1>12 DEF Checking, Version
  <2> QED
    BY <1>14, <2>1, <2>2, <2>3 DEF Honest
<1>22. \A w \in Version : w \in Committed' => w \in Committed \/ Earned(w)'
  BY <1>10, <1>19
<1> QED
  BY <1>13, <1>20, <1>21, <1>22, RequestKeeps

LEMMA ReadSectionKeeps ==
  ASSUME StatusInv, Remembers, ReadSection
  PROVE  StatusInv'
<1>1. FilesTyped /\ RequestTyped /\ Progress /\ stage = "sections" /\ left # <<>> /\ left \in Seq(File)
  BY DEF StatusInv, RequestTyped, Looking, ReadSection
<1>2. PICK f : f = Head(left)
  OBVIOUS
<1>3. f \in File /\ Tail(left) \in Seq(File) /\ \A g : Among(g, left) => g = f \/ Among(g, Tail(left))
  BY <1>1, <1>2, HeadAndTail, AmongTail
<1>4. cache' = ReadOnce(f) /\ UNCHANGED <<bundle, fileVars>>
  BY <1>2 DEF ReadSection
<1>5. CacheGrows /\ cache'[f] # Unread /\ \A g \in File \ {f} : cache'[g] = cache[g]
  BY <1>1, <1>3, <1>4, ReadOnceGrows
<1>6. \/ Tail(left) = <<>> /\ Enter("shown", <<>>)
      \/ Tail(left) # <<>> /\ Enter("sections", Tail(left))
  BY <1>1 DEF ReadSection
<1>7. <<>> \in Seq(File)
  OBVIOUS
<1>8. RequestGoes
  BY <1>1, <1>3, <1>4, <1>5, <1>6, <1>7 DEF RequestGoes, RequestTyped, fileVars, Enter, Stages, Looking, Checking
<1>9. \A g \in Shown : cache'[g] # Unread \/ Among(g, Tail(left))
  BY <1>1, <1>3, <1>5 DEF Progress, ToRead, CacheGrows, File, Shown
<1>10. \A g : ~Among(g, <<>>)
  BY AmongLiterals
<1>11. stage' \in {"sections", "shown"}
  BY <1>6 DEF Enter
<1>12. \A v \in Version : stage' \notin Checking(v)
  BY <1>11 DEF Checking
<1>13. Progress'
  BY <1>6, <1>9, <1>10, <1>11, <1>12 DEF Progress, ToRead, Enter, BeforeV2
<1>14. Honest'
  BY <1>11, <1>12 DEF Honest, BeforeV2
<1>15. Committed' = Committed
  BY <1>4 DEF Committed
<1> QED
  BY <1>8, <1>13, <1>14, <1>15, RequestKeeps

-----------------------------------------------------------------------------
(* The invariant and what it means                                         *)

LEMMA RequestStepKeeps ==
  ASSUME StatusInv, Remembers, RequestStep
  PROVE  StatusInv'
<1>1. "v1" \in Version /\ "v2" \in Version /\ ReceiptFile("v1") = "receipt" /\ ReceiptFile("v2") = "receiptV2"
  BY DEF Version, ReceiptFile
<1>2. ASSUME VerifyPins PROVE StatusInv'
  BY <1>2, VerifyInputV1Keeps, VerifyInputV2Keeps DEF VerifyPins
<1>3. ASSUME stage = "outputs", VerifyOutput("receipt", "v1", "invalid", <<"receiptV2", <<>> >>)
      PROVE  StatusInv'
  <2>1. PICK after : after = <<"receiptV2", <<>> >>
    OBVIOUS
  <2> QED
    BY <1>1, <1>3, <2>1, VerifyOutputKeeps
<1>4. ASSUME stage = "outputsV2", VerifyOutput("receiptV2", "v2", "stale_lineage", <<"sections", Sections>>)
      PROVE  StatusInv'
  <2>1. PICK after : after = <<"sections", Sections>>
    OBVIOUS
  <2> QED
    BY <1>1, <1>4, <2>1, VerifyOutputKeeps
<1> QED
  BY <1>2, <1>3, <1>4, BeginRequestKeeps, ReadReceiptV2Keeps, ReadLineageKeeps, ReadSectionKeeps
     DEF RequestStep, VerifyOutputs

LEMMA StatusStepKeeps ==
  ASSUME StatusInv, [StatusNext]_statusVars
  PROVE  StatusInv'
<1>1. ASSUME StatusNext PROVE StatusInv'
  <2>1. together' = [version \in Version |->
                       together[version] \cup IF stage' = "idle" THEN {} ELSE HoldsNow(version)']
    BY <1>1 DEF StatusNext, Version
  <2>2. together' = [v \in Version |-> together'[v]]
    BY <2>1
  <2>3. Remembers
    BY <2>1, <2>2 DEF Remembers
  <2>4. CASE RequestStep
    BY <2>3, <2>4, RequestStepKeeps
  <2>5. CASE \/ StartEndurance \/ CompleteEndurance \/ WriteDocument
             \/ Regenerate \/ StartFinalizer \/ FinalizerWrites \/ KillWriter \/ Revise
    BY <2>3, <2>5, WritersGo, WriterKeeps DEF StatusInv
  <2> QED
    BY <1>1, <2>4, <2>5 DEF StatusNext, StatusStep
<1>2. ASSUME UNCHANGED statusVars PROVE StatusInv'
  <2>1. UNCHANGED <<disk, runs, writing, finalizing, reports, stage, left, cache, bundle, together>>
    BY <1>2 DEF statusVars, fileVars, requestVars
  <2>2. FilesTyped'
    BY <2>1 DEF StatusInv, FilesTyped
  <2>3. RequestTyped'
    BY <2>1 DEF StatusInv, RequestTyped, Committed
  <2>4. Progress'
    BY <2>1 DEF StatusInv, Progress, ReceiptOf, ToRead, ToCompare, LineageHolds, IdentityHolds, ShownDocs
  <2>5. Honest'
    BY <2>1 DEF StatusInv, Honest, ReceiptOf, Witnessed, Found, Awaits
  <2>6. \A v \in Version : \A receipt \in Known(v)' : PinsLast(v, receipt)'
    BY <2>1 DEF StatusInv, Known, PinsLast
  <2>7. \A v \in Version : Earned(v)'
    BY <2>1 DEF StatusInv, Earned, Committed, ReceiptOf, LineageHolds, IdentityHolds, ShownDocs
  <2> QED
    BY <2>2, <2>3, <2>4, <2>5, <2>6, <2>7 DEF StatusInv
<1> QED
  BY <1>1, <1>2

\* What a report that accepts the endurance run it names says of its documents.
LEMMA AcceptedCampaign ==
  ASSUME RequestTyped, cache["campaign"] # Unread, cache["campaign"].endurance, cache["campaign"].pins # Absent,
         CampaignMatches(cache["campaign"], ShownDocs)
  PROVE  Completed(ShownDocs) /\ EnduranceState = "complete"
<1>1. SoundCampaign(cache["campaign"])
  BY DEF RequestTyped, Sound, File, Reports
<1>2. Completed(ShownDocs)
  BY <1>1 DEF SoundCampaign, CampaignMatches
<1>3. ShownDocs["status"] = cache["status"]
  BY DEF ShownDocs, EnduranceFiles
<1> QED
  BY <1>2, <1>3 DEF Completed, EnduranceState, FloorVerified

LEMMA StatusMeans ==
  ASSUME StatusInv
  PROVE  StatusIsHonest
<1>1. RequestTyped /\ Progress /\ \A v \in Version : Earned(v)
  BY DEF StatusInv
<1>2. CommittedWasTrue
  BY <1>1 DEF CommittedWasTrue, Earned, Committed, Version
<1>3. stage = "shown" => \A f \in Shown : cache[f] # Unread
  BY <1>1 DEF Progress
<1>4. AcceptedIsBound
  <2> SUFFICES ASSUME stage = "shown", CampaignAccepted \/ CampaignClaims
               PROVE  CampaignMatches(cache["campaign"], ShownDocs) /\ EnduranceState = "complete"
    BY DEF AcceptedIsBound
  <2>1. (cache["campaign"].accepted \/ cache["campaign"].claims) /\ CampaignReason = "none"
    BY DEF CampaignAccepted, CampaignClaims
  <2>2. cache["campaign"].pins # Absent /\ CampaignMatches(cache["campaign"], ShownDocs)
    BY <2>1 DEF CampaignReason
  <2>3. cache["campaign"] # Unread
    BY <1>3 DEF Shown, Reports
  <2>4. cache["campaign"].endurance
    BY <1>1, <2>1, <2>2, <2>3 DEF RequestTyped, Sound, SoundCampaign, File, Reports
  <2> QED
    BY <1>1, <2>2, <2>3, <2>4, AcceptedCampaign
<1>5. FinalizedIsOneRun
  <2> SUFFICES ASSUME stage = "shown"
               PROVE  /\ Finalized("campaign") =>
                           /\ CampaignMatches(cache["campaign"], ShownDocs) /\ EnduranceState = "complete"
                           /\ cache["status"].run = cache["receipt"].run
                           /\ CampaignAccepted = cache["receipt"].overall
                      /\ Finalized("objective") =>
                           /\ ObjectiveComplete /\ CampaignReason = "none" /\ EnduranceState = "complete"
                           /\ cache["objective"].campaign = cache["campaign"]
                      /\ Finalized("product") =>
                           \E version \in Committed : \A f \in {"objective", "product"} :
                             cache[f] = ReceiptOf(version).outputs[f]
    BY DEF FinalizedIsOneRun
  <2>1. cache["campaign"] # Unread /\ cache["objective"] # Unread
    BY <1>3 DEF Shown, Reports
  <2>2. ASSUME Finalized("campaign")
        PROVE  /\ CampaignMatches(cache["campaign"], ShownDocs) /\ EnduranceState = "complete"
               /\ cache["status"].run = cache["receipt"].run
               /\ CampaignAccepted = cache["receipt"].overall
    <3>1. "v1" \in Committed /\ CampaignReason # "stale_lineage" /\ "v1" \in Version /\ ReceiptOf("v1") = cache["receipt"]
      BY <2>2 DEF Finalized, Version, ReceiptOf, ReceiptFile
    <3>2. /\ cache["receipt"] \notin {Absent, Unread} /\ cache["campaign"] = cache["receipt"].outputs["campaign"]
          /\ cache["campaign"].endurance /\ cache["campaign"].accepted = cache["receipt"].overall
          /\ IdentityHolds(ShownDocs)
      BY <1>1, <3>1 DEF Earned, Outputs, Reports, SemanticsHold, LineageHolds
    <3>3. SoundReceipt(cache["receipt"])
      BY <1>1, <3>2 DEF RequestTyped, Sound, File
    <3>4. cache["campaign"].pins # Absent
      BY <3>2, <3>3 DEF SoundReceipt
    <3>5. CampaignMatches(cache["campaign"], ShownDocs) /\ CampaignReason = "none"
      BY <3>1, <3>4 DEF CampaignReason
    <3>6. ShownDocs["status"] = cache["status"]
      BY DEF ShownDocs, EnduranceFiles
    <3>7. CampaignAccepted = cache["receipt"].overall
      <4>1. SoundCampaign(cache["campaign"])
        BY <1>1, <2>1 DEF RequestTyped, Sound, File, Reports
      <4>2. cache["campaign"].accepted \in BOOLEAN
        BY <4>1 DEF SoundCampaign, CampaignReports
      <4> QED
        BY <3>2, <3>5, <4>2 DEF CampaignAccepted
    <3> QED
      BY <1>1, <2>1, <3>2, <3>4, <3>5, <3>6, <3>7, AcceptedCampaign DEF IdentityHolds
  <2>3. ASSUME Finalized("objective")
        PROVE  /\ ObjectiveComplete /\ CampaignReason = "none" /\ EnduranceState = "complete"
               /\ cache["objective"].campaign = cache["campaign"]
    <3>1. PICK v \in Committed : v \in Version
      BY <2>3 DEF Finalized, Committed, Version
    <3>2. ObjectiveReason # "stale_lineage"
      BY <2>3 DEF Finalized
    <3>3. cache["objective"].complete /\ cache["objective"] = ReceiptOf(v).outputs["objective"]
          /\ ReceiptOf(v) \notin {Absent, Unread}
      BY <1>1, <3>1 DEF Earned, Outputs, Reports, SemanticsHold, Version
    <3>4. SoundObjective(cache["objective"]) /\ cache["objective"] # Absent
      <4>1. ReceiptFile(v) \in File /\ (v = "v1" => ReceiptFile(v) = "receipt") /\ (v = "v2" => ReceiptFile(v) = "receiptV2")
        BY DEF ReceiptFile, File
      <4>2. Sound(ReceiptFile(v), ReceiptOf(v))
        BY <1>1, <3>3, <4>1 DEF RequestTyped, ReceiptOf
      <4>3. SoundObjective(cache["objective"])
        BY <3>1, <3>3, <4>1, <4>2 DEF Sound, SoundReceipt, SoundReceiptV2, Version
      <4> QED
        BY <4>3, StatusMarks DEF SoundObjective, AnyReport
    <3>5. ObjectiveReason = "none" /\ ObjectiveMatches(cache["objective"], cache["campaign"], ShownDocs)
      BY <3>2, <3>4 DEF ObjectiveReason
    <3>6. cache["campaign"].endurance /\ cache["objective"].campaign = cache["campaign"]
          /\ CampaignMatches(cache["campaign"], ShownDocs)
      BY <3>3, <3>4, <3>5 DEF SoundObjective, ObjectiveMatches
    <3>7. cache["campaign"].pins # Absent
      <4>1. SoundCampaign(cache["campaign"])
        BY <1>1, <2>1 DEF RequestTyped, Sound, File, Reports
      <4>2. \A g \in EnduranceFiles : cache[g] \in Documents
        BY <1>1, <1>3 DEF RequestTyped, Sound, File, Shown
      <4>3. ShownDocs \in Lineages
        BY <4>2 DEF ShownDocs, Lineages
      <4> QED
        BY <3>6, <4>3, StatusMarks DEF CampaignMatches
    <3>8. CampaignReason = "none"
      BY <3>6, <3>7 DEF CampaignReason
    <3> QED
      BY <1>1, <2>1, <3>3, <3>4, <3>5, <3>6, <3>7, <3>8, AcceptedCampaign DEF ObjectiveComplete
  <2>4. ASSUME Finalized("product")
        PROVE  \E version \in Committed : \A f \in {"objective", "product"} : cache[f] = ReceiptOf(version).outputs[f]
    <3>1. PICK v \in Committed : v \in Version
      BY <2>4 DEF Finalized, Committed, Version
    <3>2. \A f \in {"objective", "product"} : cache[f] = ReceiptOf(v).outputs[f]
      BY <1>1, <3>1 DEF Earned, Outputs, Reports
    <3> QED
      BY <3>2
  <2> QED
    BY <2>2, <2>3, <2>4
<1> QED
  BY <1>2, <1>4, <1>5 DEF StatusIsHonest

LEMMA StatusStart ==
  ASSUME StatusInit
  PROVE  StatusInv
<1> DEFINE Docs0(past) ==
             [f \in EnduranceFiles |->
                Document(0, IF f = "resolved" THEN "planned" ELSE "complete",
                         IF past = "dry" THEN "dry" ELSE "real")]
           Report0(past, accepted, claims) ==
             [report |-> 0, endurance |-> past # "dry", accepted |-> accepted,
              claims |-> IF past = "dry" THEN claims ELSE accepted,
              pins |-> IF past = "dry" THEN Absent ELSE Docs0(past)]
           Made0(past, accepted, claims) ==
             [campaign |-> Report0(past, accepted, claims),
              objective |-> [report |-> 0, campaign |-> Report0(past, accepted, claims), complete |-> TRUE,
                             checkpoint |-> Docs0(past)["checkpoint"], status |-> Docs0(past)["status"]],
              product |-> [report |-> 0, ready |-> FALSE]]
           Receipt0(past, accepted, claims) ==
             [run |-> 0, whole |-> TRUE, overall |-> accepted, outputs |-> Made0(past, accepted, claims),
              inputs |-> [g \in EnduranceFiles \cup {"generators"} |-> IF g = "generators" THEN 1 ELSE Docs0(past)[g]]]
           Disk0(past, accepted, claims) ==
             [f \in File |->
                CASE f \in EnduranceFiles -> Docs0(past)[f]
                  [] f \in {"generators", "evidence"} -> 1
                  [] f = "campaign" \/ (f \in Reports /\ past = "finalized") -> Made0(past, accepted, claims)[f]
                  [] f = "receipt" /\ past = "finalized" -> Receipt0(past, accepted, claims)
                  [] OTHER -> Absent]
<1>0. PICK past \in {"real", "dry", "finalized"}, accepted \in BOOLEAN, claims \in BOOLEAN :
        disk = Disk0(past, accepted, claims)
  BY DEF StatusInit
<1>1. PICK docs, report, made, receipt :
        /\ docs = Docs0(past) /\ report = Report0(past, accepted, claims)
        /\ made = Made0(past, accepted, claims) /\ receipt = Receipt0(past, accepted, claims)
  OBVIOUS
<1>2. /\ docs = [f \in EnduranceFiles |->
                   Document(0, IF f = "resolved" THEN "planned" ELSE "complete",
                            IF past = "dry" THEN "dry" ELSE "real")]
      /\ report = [report |-> 0, endurance |-> past # "dry", accepted |-> accepted,
                   claims |-> IF past = "dry" THEN claims ELSE accepted,
                   pins |-> IF past = "dry" THEN Absent ELSE docs]
      /\ made = [campaign |-> report,
                 objective |-> [report |-> 0, campaign |-> report, complete |-> TRUE,
                                checkpoint |-> docs["checkpoint"], status |-> docs["status"]],
                 product |-> [report |-> 0, ready |-> FALSE]]
      /\ receipt = [run |-> 0, whole |-> TRUE, overall |-> accepted, outputs |-> made,
                    inputs |-> [g \in EnduranceFiles \cup {"generators"} |-> IF g = "generators" THEN 1 ELSE docs[g]]]
  BY <1>1
<1> HIDE DEF Docs0, Report0, Made0, Receipt0
<1>3. /\ runs = 0 /\ writing = <<>> /\ finalizing = <<>> /\ reports = 0
      /\ stage = "idle" /\ left = <<>> /\ cache = [f \in File |-> Unread]
      /\ bundle = [v1 |-> "unread", v2 |-> "unread"] /\ together = [v1 |-> {}, v2 |-> {}]
  BY DEF StatusInit
<1>4. EnduranceFiles \subseteq File /\ Reports \subseteq File
      /\ \A f \in EnduranceFiles : f \notin Reports /\ f \notin {"generators", "evidence", "receipt", "receiptV2"}
  BY DEF File, EnduranceFiles, Reports
\* What lies on the disk.
<1>5. /\ \A f \in EnduranceFiles : disk[f] = docs[f]
      /\ disk["generators"] = 1 /\ disk["evidence"] = 1
      /\ disk["campaign"] = report
      /\ disk["objective"] = IF past = "finalized" THEN made["objective"] ELSE Absent
      /\ disk["product"] = IF past = "finalized" THEN made["product"] ELSE Absent
      /\ disk["receipt"] = IF past = "finalized" THEN receipt ELSE Absent
      /\ disk["receiptV2"] = Absent
      /\ disk = [f \in File |-> disk[f]]
  <2>1. disk = Disk0(past, accepted, claims) /\ DOMAIN disk = File
    BY <1>0
  <2>2. ASSUME NEW f \in EnduranceFiles PROVE disk[f] = docs[f]
    BY <1>1, <2>1 DEF File, EnduranceFiles, Reports
  <2>3. disk["generators"] = 1 /\ disk["evidence"] = 1
    <3>1. disk["generators"] = 1
      BY <2>1 DEF File, EnduranceFiles, Reports
    <3>2. disk["evidence"] = 1
      BY <2>1 DEF File, EnduranceFiles, Reports
    <3> QED
      BY <3>1, <3>2
  <2>4. made["campaign"] = report
    BY <1>2
  <2>5. disk["campaign"] = report
    BY <1>1, <2>1, <2>4 DEF File, EnduranceFiles, Reports
  <2>6. ASSUME NEW f \in {"objective", "product"} PROVE disk[f] = IF past = "finalized" THEN made[f] ELSE Absent
    BY <1>1, <2>1 DEF File, EnduranceFiles, Reports
  <2>7. disk["receipt"] = IF past = "finalized" THEN receipt ELSE Absent
    BY <1>1, <2>1 DEF File, EnduranceFiles, Reports
  <2>8. disk["receiptV2"] = Absent
    BY <2>1 DEF File, EnduranceFiles, Reports
  <2>9. disk = [f \in File |-> disk[f]]
    BY <2>1
  <2> QED
    BY <2>2, <2>3, <2>5, <2>6, <2>7, <2>8, <2>9
<1>6. /\ docs \in Lineages
      /\ \A f \in EnduranceFiles :
           docs[f].run = 0 /\ docs[f].kind = (IF past = "dry" THEN "dry" ELSE "real")
      /\ docs["checkpoint"] = docs["status"] /\ docs["status"].state = "complete"
  <2>1. \A f \in EnduranceFiles :
          docs[f] = [run |-> 0, state |-> IF f = "resolved" THEN "planned" ELSE "complete",
                     kind |-> IF past = "dry" THEN "dry" ELSE "real"]
    BY <1>2 DEF Document
  <2>2. ASSUME NEW f \in EnduranceFiles PROVE docs[f] \in Documents
    <3>1. PICK state \in {"planned", "complete"}, kind \in {"dry", "real"} :
            docs[f] = [run |-> 0, state |-> state, kind |-> kind]
      BY <2>1
    <3> QED
      BY <3>1 DEF Documents
  <2>3. docs \in Lineages
    BY <1>2, <2>2 DEF Lineages
  <2> QED
    BY <2>1, <2>3 DEF EnduranceFiles
<1>7. past # "dry" => Completed(docs)
  <2>1. \A f \in EnduranceFiles : docs[f] # Absent
    BY <1>6, StatusMarks DEF Lineages
  <2>2. docs["resolved"].run = docs["status"].run /\ docs["resolved"].kind = docs["status"].kind
    BY <1>6 DEF EnduranceFiles
  <2>3. past # "dry" => docs["status"].kind = "real"
    BY <1>6 DEF EnduranceFiles
  <2> QED
    BY <1>6, <2>1, <2>2, <2>3 DEF Completed, Coherent
<1>8. /\ SoundCampaign(report) /\ report.report = 0
      /\ past # "dry" => report.pins = docs /\ report.endurance
  <2>1. /\ report.report = 0 /\ (past # "dry" => report.pins = docs /\ report.endurance)
        /\ (past = "dry" => report.pins = Absent) /\ report.endurance \in BOOLEAN
        /\ report.accepted \in BOOLEAN /\ report.claims \in BOOLEAN
    BY <1>2
  <2>2. report.pins \in Lineages \cup {Absent}
    BY <1>6, <2>1
  <2>3. report \in CampaignReports
    BY <1>2, <2>1, <2>2 DEF CampaignReports
  <2> QED
    BY <1>7, <2>1, <2>3 DEF SoundCampaign
<1>9. /\ past # "dry" => SoundObjective(made["objective"])
      /\ made["objective"].report = 0
      /\ made["product"] \in ProductReports /\ made["product"].report = 0
      /\ made["campaign"] = report
  <2>1. docs["checkpoint"] \in Documents /\ docs["status"] \in Documents
    BY <1>6 DEF Lineages, EnduranceFiles
  <2>2. report \in CampaignReports
    BY <1>8 DEF SoundCampaign
  <2>3. made["objective"] = [report |-> 0, campaign |-> report, complete |-> TRUE,
                             checkpoint |-> docs["checkpoint"], status |-> docs["status"]]
        /\ made["product"] = [report |-> 0, ready |-> FALSE] /\ made["campaign"] = report
    BY <1>2
  <2>4. made["objective"] \in ObjectiveReports
    BY <2>1, <2>2, <2>3 DEF ObjectiveReports
  <2> QED
    BY <1>8, <2>3, <2>4 DEF SoundObjective, ProductReports
<1>10. past = "finalized" => SoundReceipt(receipt)
  <2> SUFFICES ASSUME past = "finalized" PROVE SoundReceipt(receipt)
    OBVIOUS
  <2>1. /\ receipt.run = 0 /\ receipt.whole = TRUE /\ receipt.outputs = made
        /\ receipt.inputs = [g \in EnduranceFiles \cup {"generators"} |-> IF g = "generators" THEN 1 ELSE docs[g]]
    BY <1>2
  <2>2. (\A f \in EnduranceFiles : receipt.inputs[f] = docs[f]) /\ receipt.inputs["generators"] = 1
    BY <1>4, <2>1
  <2>3. \A f \in EnduranceFiles : receipt.inputs[f] \in Documents /\ receipt.inputs[f].run = receipt.run
    BY <1>6, <2>1, <2>2 DEF Lineages
  <2>4. receipt.inputs \in [EnduranceFiles \cup {"generators"} -> Documents \cup Nat]
    BY <2>1, <2>2, <2>3
  <2>5. made = [f \in Reports |-> made[f]]
    <3>1. PICK a, b, c : made = [campaign |-> a, objective |-> b, product |-> c]
      BY <1>2
    <3> QED
      BY <3>1 DEF Reports
  <2>6. \A f \in Reports : made[f] \in AnyReport
    BY <1>8, <1>9 DEF Reports, AnyReport, SoundCampaign, SoundObjective
  <2>7. receipt.outputs \in [Reports -> AnyReport \cup {Absent}]
    BY <2>1, <2>5, <2>6
  <2>8. receipt \in Receipts
    BY <1>2, <2>1, <2>4, <2>7 DEF Receipts
  <2>9. report.pins # Absent
    BY <1>6, <1>8, StatusMarks
  <2> QED
    BY <1>6, <1>8, <1>9, <2>1, <2>2, <2>3, <2>8, <2>9 DEF SoundReceipt, EnduranceFiles
<1>11. \A f \in File : Sound(f, disk[f])
  <2>1. \A f \in EnduranceFiles : disk[f] \in Documents
    BY <1>5, <1>6 DEF Lineages
  <2> QED
    BY <1>4, <1>5, <1>8, <1>9, <1>10, <2>1 DEF Sound
<1>12. FilesTyped
  <2>1. disk["status"].run = 0
    BY <1>5, <1>6 DEF EnduranceFiles
  <2>2. \A f \in Reports : disk[f] # Absent => disk[f].report <= 0
    BY <1>5, <1>8, <1>9 DEF Reports
  <2> QED
    BY <1>3, <1>5, <1>11, <2>1, <2>2 DEF FilesTyped
<1>13. RequestTyped
  <2>1. Committed = {} /\ bundle = [v \in Version |-> bundle[v]] /\ together = [v \in Version |-> together[v]]
    BY <1>3 DEF Committed, Version
  <2> QED
    BY <1>3, <2>1 DEF RequestTyped, Stages, Looking, Checking
<1>14. Progress /\ Honest
  BY <1>3 DEF Progress, Honest, Checking, BeforeV2
<1>15. \A v \in Version : Earned(v)
  BY <1>3 DEF Earned, Committed
<1>16. \A v \in Version : \A r \in Known(v) : PinsLast(v, r)
  <2> SUFFICES ASSUME NEW v \in Version, NEW r \in Known(v) PROVE PinsLast(v, r)
    OBVIOUS
  <2>1. v = "v1" /\ past = "finalized" /\ r = receipt
    BY <1>3, <1>5 DEF Known, ReceiptFile, Version, File
  <2>2. Inputs(v) = EnduranceFiles \cup {"generators"} /\ Outputs(v) = Reports
    BY <2>1 DEF Inputs, Outputs
  <2>3. /\ receipt.run = 0 /\ receipt.outputs = made
        /\ receipt.inputs = [g \in EnduranceFiles \cup {"generators"} |-> IF g = "generators" THEN 1 ELSE docs[g]]
    BY <1>2
  <2>4. \A f \in Inputs(v) : disk[f] = Pin(v, r, f)
    BY <1>4, <1>5, <2>1, <2>2, <2>3 DEF Pin
  <2>5. \A f \in Outputs(v) : f \notin Inputs(v) /\ disk[f] = r.outputs[f]
    BY <1>4, <1>5, <1>9, <2>1, <2>2, <2>3 DEF Reports
  <2>6. \A f \in PinnedFiles(v) : disk[f] = Pin(v, r, f)
    BY <2>4, <2>5 DEF Pin, PinnedFiles
  <2> QED
    BY <1>3, <2>1, <2>3, <2>6 DEF PinsLast
<1> QED
  BY <1>12, <1>13, <1>14, <1>15, <1>16 DEF StatusInv

-----------------------------------------------------------------------------
(* The model check that holds all parts                                    *)

\* A step of the model check is a step of each part, or leaves it alone.
LEMMA StepsOfParts ==
  ASSUME [LaunchNext]_launchVars
  PROVE  /\ [RuntimeNext]_runtimeVars
         /\ [FullStackNext]_planVars
         /\ [MatrixNext]_matrixVars
         /\ [StatusNext]_statusVars
         /\ [CardsNext]_cardVars
<1>1. CASE LaunchNext
  BY <1>1 DEF LaunchNext
<1>2. CASE UNCHANGED launchVars
  BY <1>2 DEF launchVars
<1> QED
  BY <1>1, <1>2

\* A published runtime is what was probed, for any number of builders, builds, changes and
\* deaths: what an inspection accepts is published, and failed builds leave nothing behind.
THEOREM PublicationsAreSafe == LaunchSpec => []PublicationIsSafe
<1>1. LaunchInit => RuntimeInv
  BY RuntimeStart DEF LaunchInit
<1>2. RuntimeInv /\ [LaunchNext]_launchVars => RuntimeInv'
  BY RuntimeStep, StepsOfParts
<1>3. RuntimeInv => PublicationIsSafe
  BY RuntimeMeans DEF PublicationIsSafe
<1> QED
  BY <1>1, <1>2, <1>3, PTL DEF LaunchSpec

\* A launch of the full stack is granted only on a plan that is still true and never for a
\* blocked runtime, and a grant is revoked before its files go, for any number of planners.
THEOREM LaunchesAreSafe == LaunchSpec => []LaunchIsSafe
<1>1. LaunchInit => PlanInv
  BY PlanStart DEF LaunchInit
<1>2. PlanInv /\ [LaunchNext]_launchVars => PlanInv'
  BY PlanStep, StepsOfParts
<1>3. PlanInv => LaunchIsSafe
  BY PlanMeans DEF LaunchIsSafe
<1> QED
  BY <1>1, <1>2, <1>3, PTL DEF LaunchSpec

\* A complete run of the scene matrix was measured on steady windows and is whole, one
\* container runs at a time and a summary is of the statuses there are, for any number of
\* runners, cells, rows, starts, edits and deaths.
THEOREM MatrixRunsAreSafe == LaunchSpec => []MatrixIsSafe
<1>1. LaunchInit => MatrixInv
  BY MatrixStart DEF LaunchInit
<1>2. MatrixInv /\ [LaunchNext]_launchVars => MatrixInv'
  BY MatrixStep, StepsOfParts
<1>3. MatrixInv => MatrixIsSafe
  BY MatrixMeans DEF MatrixIsSafe
<1> QED
  BY <1>1, <1>2, <1>3, PTL DEF LaunchSpec

\* No step replaces a published runtime, and none overwrites the evidence of an earlier
\* attempt in the directory of a cell: it is archived first.
THEOREM NothingGetsReplaced == LaunchSpec => NothingIsReplaced
<1>1. LaunchInit => RuntimeInv /\ MatrixInv
  BY RuntimeStart, MatrixStart DEF LaunchInit
<1>2. RuntimeInv /\ MatrixInv /\ [LaunchNext]_launchVars => RuntimeInv' /\ MatrixInv'
  BY RuntimeStep, MatrixStep, StepsOfParts
<1>3. RuntimeInv /\ MatrixInv /\ [LaunchNext]_launchVars =>
        /\ [\A r \in Runtime :
              published[r] # NoPublication =>
                published'[r] = published[r] \/ published'[r].touched]_runtimeVars
        /\ [EvidenceStep]_matrixVars
  BY NothingRepublished, EvidenceStays, StepsOfParts
<1> QED
  BY <1>1, <1>2, <1>3, PTL DEF LaunchSpec, NothingIsReplaced, PublishedOnce, EvidenceIsKept

\* What the page and its cards show: a receipt called committed was true as a whole at one
\* moment of the request; a campaign marked finalized shows the decision of its receipt, for
\* or against, beside the documents of its one complete run, as an objective so marked does;
\* an acceptance or a final claim stands beside the documents it was made from; and behind
\* a card shown as available each file was, at one moment, what its pin says: for any number
\* of campaigns, reports, edits and steps of the writers during a request.
THEOREM PagesAreHonest == LaunchSpec => []PageIsHonest
<1>1. LaunchInit => StatusInv /\ CardsInv
  BY StatusStart, CardsStart DEF LaunchInit
<1>2. StatusInv /\ [LaunchNext]_launchVars => StatusInv'
  BY StatusStepKeeps, StepsOfParts
<1>3. CardsInv /\ UNCHANGED cardVars => CardsInv'
  BY DEF CardsInv, CardsTyped, TimesPassed, ReadAsThere, ProvenSoFar, Placed, cardVars,
         Loader, LastPin, LastTool, Look, Untouched, LooksTheSame, Whole, Standing
<1>4. CardsInv /\ [LaunchNext]_launchVars => CardsInv'
  BY <1>3, CardsStep, StepsOfParts
<1>5. StatusInv /\ CardsInv => PageIsHonest
  BY StatusMeans, CardsInvSound DEF PageIsHonest
<1> QED
  BY <1>1, <1>2, <1>4, <1>5, PTL DEF LaunchSpec
=============================================================================
