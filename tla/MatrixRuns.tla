----------------------------- MODULE MatrixRuns -----------------------------
(***************************************************************************)
(* validation/scene_benchmark/run_matrix.py: one benchmark run for every   *)
(* cell (scene, model size) of a matrix, in a container on one GPU.  A     *)
(* runner takes the GPU's lock, skips the cells that are complete for the  *)
(* same inputs, archives what an earlier attempt left, measures, and       *)
(* writes status and summary.  Runners are started while another one runs, *)
(* interrupted and killed, in the middle of every sequence of file         *)
(* operations; the inputs of the matrix are edited below them.             *)
(*                                                                         *)
(* A fingerprint is the version of the inputs it was taken from.  All      *)
(* runners use one GPU, one output directory and the same warm-up, which   *)
(* may be none.                                                            *)
(***************************************************************************)
EXTENDS Naturals, FiniteSets

CONSTANTS
  Runner,             \* processes
  NoRunner,
  CellCount,          \* bound: cells of a matrix
  Requested,          \* rows a measurement needs: ceil(duration / perf_interval)
  MaxRows,            \* bound: performance rows that a container prints
  MaxStarts,          \* bound: commands started, one fewer for every cell
  MaxEdits,           \* bound: edits of the inputs, one fewer for every cell
  MaxRunnerKills      \* bound: runners killed

ASSUME MatrixAssumption ==
  /\ NoRunner \notin Runner
  /\ CellCount \in Nat \ {0} /\ Requested \in Nat \ {0} /\ MaxRows \in Nat
  /\ MaxStarts \in Nat /\ MaxEdits \in Nat /\ MaxRunnerKills \in Nat

VARIABLES
  lastCell,      \* the matrix of scenes and sizes: cells 1..lastCell
  warms,         \* a run warms up for some seconds before it is measured
  runner,        \* [Runner -> what the process is doing]
  gpuLock,       \* who holds the flock
  files,         \* [Cell -> its directory]
  containers,    \* attempts whose container runs
  lingering,     \* those of them that no runner will stop
  matrixInputs,  \* version of the videos, models and settings
  summary,       \* matrix-summary.json: what it says of every cell
  doubtful,      \* a runner was killed, or a process without the lock wrote the summary
  used           \* the bounds: starts, kills, attempts

matrixVars ==
  <<lastCell, warms, runner, gpuLock, files, containers, lingering, matrixInputs, summary,
    doubtful, used>>

Cell == 1 .. lastCell

NoStatus == [state |-> "pending", attempt |-> 0, fingerprint |-> 0, steady |-> TRUE]
NoConfig == [fingerprint |-> 0, by |-> "nobody"]
NoWindow == [phase |-> "starting", late |-> "no", rows |-> 0, cold |-> 0, boundary |-> 0,
             from |-> 0, to |-> 0, calm |-> 0, complete |-> FALSE, reason |-> "none"]
NoWork == [pc |-> "idle", cell |-> 0, force |-> FALSE, fingerprint |-> 0, attempt |-> 0,
           moving |-> {}, view |-> <<>>, after |-> "leave", window |-> NoWindow]

\* log stands for every file that a run writes while it measures (gpu.csv, thermal, events).
EmptyDirectory == [status |-> NoStatus, log |-> 0, runtime |-> 0, config |-> NoConfig]

MatrixInit ==
  /\ lastCell \in 1 .. CellCount
  /\ warms \in BOOLEAN
  /\ runner = [r \in Runner |-> NoWork]
  /\ gpuLock = NoRunner
  /\ files = [c \in Cell |-> EmptyDirectory]
  /\ containers = {} /\ lingering = {}
  /\ matrixInputs = 1
  /\ summary = <<>>
  /\ doubtful = FALSE
  /\ used = [starts |-> 0, kills |-> 0, attempts |-> 0]

RAt(r, pc) == runner[r].pc = pc
CellOf(r) == runner[r].cell
WindowOf(r) == runner[r].window

RGoto(r, pc) == runner' = [runner EXCEPT ![r].pc = pc]

\* write_matrix_summary starts to read; what follows it is remembered.
Report(r, after) ==
  runner' = [runner EXCEPT ![r] = [NoWork EXCEPT !.pc = "report", !.cell = CellOf(r),
                                                 !.force = runner[r].force, !.after = after]]

KeepFiles == UNCHANGED <<lastCell, warms, files, containers, lingering, summary, doubtful>>

-----------------------------------------------------------------------------
(* main: a command starts                                                  *)

Starting(r) ==
  /\ RAt(r, "idle") /\ used.starts + lastCell < MaxStarts
  /\ used' = [used EXCEPT !.starts = @ + 1]
  /\ KeepFiles /\ UNCHANGED matrixInputs

\* --generate-only, or a compatibility receipt that does not hold: no lock is taken.
StartUnlocked(r) ==
  /\ Starting(r)
  /\ \/ runner' = [runner EXCEPT ![r] = [NoWork EXCEPT !.pc = "generate", !.cell = 1]]
     \/ runner' = [runner EXCEPT ![r] = [NoWork EXCEPT !.pc = "report"]]
  /\ UNCHANGED gpuLock

\* --force makes a difference only when some cell is complete.
Forces == IF \E c \in Cell : files[c].status.state = "complete" THEN BOOLEAN ELSE {FALSE}

\* A lock that refuses nobody.
StartAnyway(r) ==
  /\ Starting(r)
  /\ gpuLock' = r
  /\ \E force \in Forces :
       runner' = [runner EXCEPT ![r] = [NoWork EXCEPT !.pc = "gates", !.force = force]]

\* gpu_lock does not wait: a command that finds it taken exits and changes nothing.
StartCampaign(r) ==
  /\ Starting(r)
  /\ gpuLock = NoRunner
  /\ gpuLock' = r
  /\ \E force \in Forces :
       runner' = [runner EXCEPT ![r] = [NoWork EXCEPT !.pc = "gates", !.force = force]]

Generate(r) ==
  LET c == CellOf(r) IN
  /\ RAt(r, "generate")
  /\ files' = [files EXCEPT ![c].config = [fingerprint |-> matrixInputs, by |-> "generator"]]
  /\ IF c < lastCell THEN runner' = [runner EXCEPT ![r].cell = c + 1] ELSE Report(r, "leave")
  /\ UNCHANGED <<lastCell, warms, gpuLock, containers, lingering, matrixInputs, summary, doubtful, used>>

\* preflight looks at docker, image, power profile, telemetry and Xid log: it allows the
\* campaign, refuses it or raises.
PreflightVerdicts == {"ok", "safety_abort", "raised"}

\* Re-entry evidence and preflight.  A refusal writes a summary, an exception does not.
Gates(r) ==
  /\ RAt(r, "gates")
  /\ \E verdict \in PreflightVerdicts :
       CASE verdict = "ok" ->
              runner' = [runner EXCEPT ![r].pc = "choose", ![r].cell = 1] /\ UNCHANGED gpuLock
         [] verdict = "safety_abort" -> Report(r, "leave") /\ UNCHANGED gpuLock
         [] verdict = "raised" -> runner' = [runner EXCEPT ![r] = NoWork] /\ gpuLock' = NoRunner
  /\ KeepFiles /\ UNCHANGED <<matrixInputs, used>>

-----------------------------------------------------------------------------
(* run_one, before the container                                           *)

\* build_fingerprint covers scene, video, model, settings, image and GPU.
Fingerprint == matrixInputs

\* should_skip.
Skips(r) ==
  LET status == files[CellOf(r)].status IN
  ~runner[r].force /\ status.state = "complete" /\ status.fingerprint = Fingerprint

\* The order of archive_previous_attempt.
ArchiveRank == [status |-> 1, log |-> 2, runtime |-> 3, config |-> 4]
Name == DOMAIN ArchiveRank

Exists(c, name) ==
  CASE name = "status" -> files[c].status # NoStatus
    [] name = "log" -> files[c].log # 0
    [] name = "runtime" -> files[c].runtime # 0
    [] name = "config" -> files[c].config # NoConfig

\* An archive that asks for the status only.
ExistingByStatus(c) == IF Exists(c, "status") THEN {name \in Name : Exists(c, name)} ELSE {}

\* What is archived: nothing when only a configuration is there.
Existing(c) ==
  IF \E name \in Name \ {"config"} : Exists(c, name) THEN {name \in Name : Exists(c, name)} ELSE {}

\* The next of what is still to be moved; and an order with the status last.
NextStatusLast(moving) == {name \in moving : name = "status" => moving = {"status"}}

NextMoved(moving) == {name \in moving : \A other \in moving : ArchiveRank[name] <= ArchiveRank[other]}

\* Receipt, video, profile and fingerprint; a complete cell is left alone.
Choose(r) ==
  /\ RAt(r, "choose")
  /\ \/ Report(r, "leave")
     \/ Skips(r) /\ Report(r, "next")
     \/ /\ ~Skips(r)
        /\ runner' = [runner EXCEPT ![r].pc = "archive", ![r].fingerprint = Fingerprint,
                                    ![r].moving = Existing(CellOf(r))]
  /\ KeepFiles /\ UNCHANGED <<gpuLock, matrixInputs, used>>

Without(directory, name) ==
  CASE name = "status" -> [directory EXCEPT !.status = NoStatus]
    [] name = "log" -> [directory EXCEPT !.log = 0]
    [] name = "runtime" -> [directory EXCEPT !.runtime = 0]
    [] name = "config" -> [directory EXCEPT !.config = NoConfig]

\* One rename into the directory of the attempt.
ArchiveFile(r) ==
  LET c == CellOf(r) IN
  /\ RAt(r, "archive")
  /\ \E name \in NextMoved(runner[r].moving) :
       /\ files' = [files EXCEPT ![c] = Without(@, name)]
       /\ runner' = [runner EXCEPT ![r].moving = @ \ {name}]
  /\ UNCHANGED <<lastCell, warms, gpuLock, containers, lingering, matrixInputs, summary, doubtful, used>>

Render(r) ==
  /\ RAt(r, "archive") /\ runner[r].moving = {}
  /\ files' = [files EXCEPT ![CellOf(r)].config =
                 [fingerprint |-> runner[r].fingerprint, by |-> "runner"]]
  /\ RGoto(r, "announce")
  /\ UNCHANGED <<lastCell, warms, gpuLock, containers, lingering, matrixInputs, summary, doubtful, used>>

\* The status file says running before anything runs.
Announce(r) ==
  LET attempt == used.attempts + 1 IN
  /\ RAt(r, "announce")
  /\ files' = [files EXCEPT ![CellOf(r)].status =
                 [NoStatus EXCEPT !.state = "running", !.attempt = attempt,
                                  !.fingerprint = runner[r].fingerprint]]
  /\ runner' = [runner EXCEPT ![r].pc = "start", ![r].attempt = attempt, ![r].window = NoWindow]
  /\ used' = [used EXCEPT !.attempts = attempt]
  /\ UNCHANGED <<lastCell, warms, gpuLock, containers, lingering, matrixInputs, summary, doubtful>>

\* The measurement ends without a result; nothing below asks for its rows.
Break(r, reason) ==
  runner' = [runner EXCEPT ![r].pc = "freeze", ![r].window = [NoWindow EXCEPT !.reason = reason]]

\* The log is opened for writing, which truncates it; docker may not start.
StartContainer(r) ==
  LET c == CellOf(r) a == runner[r].attempt IN
  /\ RAt(r, "start")
  /\ files' = [files EXCEPT ![c].log = a]
  /\ \/ containers' = containers \cup {a} /\ RGoto(r, "attest")
     \/ Break(r, "failed") /\ UNCHANGED containers
  /\ UNCHANGED <<lastCell, warms, gpuLock, lingering, matrixInputs, summary, doubtful, used>>

-----------------------------------------------------------------------------
(* The container and the clock                                             *)

Alive(r) == runner[r].attempt \in containers

\* A complete performance row of all streams.  (Rows that are printed before the container
\* is attested are as good as rows right after it.)
Row(r) ==
  /\ RAt(r, "poll") \/ WindowOf(r).complete
  /\ Alive(r) /\ WindowOf(r).rows < MaxRows
  /\ runner' = [runner EXCEPT ![r].window.rows = @ + 1]
  /\ KeepFiles /\ UNCHANGED <<gpuLock, matrixInputs, used>>

\* The deadline of the phase is due, and then over by its grace.  The rows that are in the
\* log when the warm-up ends are cold.
Pass(r) ==
  LET w == WindowOf(r) IN
  /\ RAt(r, "poll")
  /\ w.late = "no" \/ (w.late = "due" /\ w.phase \in {"boundary", "measuring"})
  /\ runner' = [runner EXCEPT
       ![r].window.late = IF w.late = "no" THEN "due" ELSE "over",
       ![r].window.cold = IF w.phase = "warm-up" /\ w.late = "no" THEN w.rows ELSE @]
  /\ KeepFiles /\ UNCHANGED <<gpuLock, matrixInputs, used>>

\* The container ends by itself: before the measurement is complete it has no result.
Exit(r) ==
  /\ runner[r].pc \in {"attest", "poll", "freeze"} /\ Alive(r)
  /\ containers' = containers \ {runner[r].attempt}
  /\ runner' = [runner EXCEPT ![r].window = IF WindowOf(r).complete \/ WindowOf(r).reason # "none"
                                             THEN @ ELSE NoWindow]
  /\ UNCHANGED <<lastCell, warms, gpuLock, files, lingering, matrixInputs, summary, doubtful, used>>

-----------------------------------------------------------------------------
(* run_one: the poll loop                                                  *)

\* The running container is inspected and written down, once; then the rows are looked at.
Attest(r) ==
  /\ RAt(r, "attest") /\ Alive(r)
  /\ files' = [files EXCEPT ![CellOf(r)].runtime = runner[r].attempt]
  /\ RGoto(r, "poll")
  /\ UNCHANGED <<lastCell, warms, gpuLock, containers, lingering, matrixInputs, summary, doubtful, used>>

\* The loop ends without a result: the attestation fails or the container is gone, no row
\* comes, the monitor has a reason, the operator interrupts or something raises.
BreakOff(r) ==
  /\ runner[r].pc \in {"attest", "poll"}
  /\ \E reason \in {"failed", "safety", "interrupted"} :
       /\ reason = "safety" => Alive(r)
       /\ Break(r, reason)
  /\ KeepFiles /\ UNCHANGED <<gpuLock, matrixInputs, used>>

\* The first row after the boundary starts a measurement that is wholly steady.
StartMeasuring(w) == [w EXCEPT !.phase = "measuring", !.late = "no", !.from = w.rows]

\* The measurement is over when rows and samples suffice, and fails after its grace.
Measure(w, enoughSamples) ==
  IF w.rows - w.from >= Requested /\ enoughSamples THEN [w EXCEPT !.complete = TRUE, !.to = w.rows]
  ELSE IF w.late = "over" THEN [w EXCEPT !.reason = "failed"]
  ELSE w

\* A measurement that starts where the warm-up ends.
PollRowsAtBoundary(w, enoughSamples) ==
  CASE w.phase = "starting" /\ w.rows > 0 ->
         IF warms THEN [w EXCEPT !.phase = "warm-up", !.late = "no"] ELSE StartMeasuring(w)
    [] w.phase = "warm-up" /\ w.late # "no" -> StartMeasuring(w)
    [] w.phase = "measuring" /\ w.late # "no" -> Measure(w, enoughSamples)
    [] OTHER -> w

\* What a poll of run_one makes of the rows in the log.  Without a warm-up the poll that sees
\* the first of them starts the measurement.
PollRows(w, enoughSamples) ==
  CASE w.phase = "starting" /\ w.rows > 0 ->
         IF warms THEN [w EXCEPT !.phase = "warm-up", !.late = "no"] ELSE StartMeasuring(w)
    [] w.phase = "starting" /\ w.rows = 0 /\ w.late # "no" -> [w EXCEPT !.reason = "failed"]
    [] w.phase = "warm-up" /\ w.late # "no" -> [w EXCEPT !.phase = "boundary", !.boundary = w.rows]
    [] w.phase = "boundary" /\ w.rows > w.boundary -> StartMeasuring(w)
    [] w.phase = "boundary" /\ w.rows <= w.boundary /\ w.late = "over" -> [w EXCEPT !.reason = "failed"]
    [] w.phase = "measuring" /\ w.late # "no" -> Measure(w, enoughSamples)
    [] OTHER -> w

Poll(r) ==
  /\ RAt(r, "poll") /\ Alive(r)
  /\ \E enoughSamples \in BOOLEAN :
       LET w == PollRows(WindowOf(r), enoughSamples) IN
       /\ w # WindowOf(r)
       /\ IF w.reason # "none" THEN Break(r, w.reason)
          ELSE runner' = [runner EXCEPT ![r].window = w, ![r].pc = IF w.complete THEN "freeze" ELSE "poll"]
  /\ KeepFiles /\ UNCHANGED <<gpuLock, matrixInputs, used>>

-----------------------------------------------------------------------------
(* run_one: the finally clause and the verdict                             *)

\* The bounds of the measurement are frozen before the container is stopped.
Freeze(r) ==
  /\ RAt(r, "freeze")
  /\ runner' = [runner EXCEPT ![r].pc = "stop", ![r].window.calm = WindowOf(r).rows]
  /\ KeepFiles /\ UNCHANGED <<gpuLock, matrixInputs, used>>

\* SIGINT, docker rm, SIGKILL: the container is gone; or docker cannot remove it and only
\* its client dies, with an unexpected exit code.
Stop(r) ==
  LET a == runner[r].attempt IN
  /\ RAt(r, "stop")
  /\ \/ containers' = containers \ {a} /\ RGoto(r, "conclude") /\ UNCHANGED lingering
     \/ /\ Alive(r) /\ lingering' = lingering \cup {a}
        /\ runner' = [runner EXCEPT ![r].pc = "conclude", ![r].window.complete = FALSE]
        /\ UNCHANGED containers
  /\ UNCHANGED <<lastCell, warms, gpuLock, files, matrixInputs, summary, doubtful, used>>

\* interrupted before safety_abort before failed before complete; Xid log, power profile,
\* exit code, throughput and fatal patterns are looked at last.
FinalStates(w) ==
  IF w.reason = "interrupted" THEN {"interrupted"}
  ELSE {"safety_abort"} \cup (IF w.reason = "safety" THEN {}
                              ELSE {"failed"} \cup (IF w.complete /\ w.reason = "none" THEN {"complete"} ELSE {}))

\* The rows that are counted were printed after the warm-up, are as many as the duration
\* asks for, and none is from the teardown.
Steady(w) == w.cold < w.from /\ w.to - w.from >= Requested /\ w.to <= w.calm

\* The status as it is concluded; of the bounds it keeps whether they are steady.
FinalStatus(r, state) ==
  [state |-> state, attempt |-> runner[r].attempt, fingerprint |-> runner[r].fingerprint,
   steady |-> state = "complete" => Steady(WindowOf(r))]

\* A campaign that --fail-fast ends without the finally clause.
ConcludeQuietly(r) ==
  /\ RAt(r, "conclude")
  /\ \E state \in FinalStates(WindowOf(r)) :
       /\ files' = [files EXCEPT ![CellOf(r)].status = FinalStatus(r, state)]
       /\ IF state = "complete" THEN Report(r, "next") /\ UNCHANGED gpuLock
          ELSE runner' = [runner EXCEPT ![r] = NoWork] /\ gpuLock' = NoRunner
  /\ UNCHANGED <<lastCell, warms, containers, lingering, matrixInputs, summary, doubtful, used>>

\* A status that is not complete ends the campaign under --fail-fast, an interrupt always.
Conclude(r) ==
  /\ RAt(r, "conclude")
  /\ \E state \in FinalStates(WindowOf(r)) :
       /\ files' = [files EXCEPT ![CellOf(r)].status = FinalStatus(r, state)]
       /\ \/ state # "interrupted" /\ Report(r, IF state = "safety_abort" THEN "last" ELSE "next")
          \/ state # "complete" /\ Report(r, "leave")
  /\ UNCHANGED <<lastCell, warms, gpuLock, containers, lingering, matrixInputs, summary, doubtful, used>>

\* What run_one does not catch, in an archive, a render, a write or its finally clause, goes
\* up to the finally clause of main, which writes the summary.  A container that was not
\* stopped yet stays.
RunRaises(r) ==
  /\ runner[r].pc \in {"archive", "announce", "start", "freeze", "stop", "conclude"}
  /\ Report(r, "leave")
  /\ lingering' = lingering \cup ({runner[r].attempt} \cap containers)
  /\ UNCHANGED <<lastCell, warms, gpuLock, files, containers, matrixInputs, summary, doubtful, used>>

-----------------------------------------------------------------------------
(* write_matrix_summary and the end of a campaign                          *)

Seen(status) == [state |-> status.state, fingerprint |-> status.fingerprint]

\* The status files are read, and the summary is written later.
ReadStatuses(r) ==
  /\ RAt(r, "report") /\ runner[r].view = <<>>
  /\ runner' = [runner EXCEPT ![r].view = [c \in Cell |-> Seen(files[c].status)]]
  /\ KeepFiles /\ UNCHANGED <<gpuLock, matrixInputs, used>>

\* After a cell the next one; after the last one, and after safety_abort, the summary of
\* the finally clause; then the lock is released.
Continue(r) ==
  CASE runner[r].after = "next" /\ CellOf(r) < lastCell ->
         runner' = [runner EXCEPT ![r] = [NoWork EXCEPT !.pc = "choose", !.cell = CellOf(r) + 1,
                                                        !.force = runner[r].force]]
    [] runner[r].after = "leave" -> runner' = [runner EXCEPT ![r] = NoWork]
    [] OTHER -> Report(r, "leave")

WriteSummary(r) ==
  /\ RAt(r, "report") /\ runner[r].view # <<>>
  /\ summary' = runner[r].view
  /\ doubtful' = (gpuLock # r)
  /\ Continue(r)
  /\ gpuLock' = IF gpuLock = r /\ runner[r].after = "leave" THEN NoRunner ELSE gpuLock
  /\ UNCHANGED <<lastCell, warms, files, containers, lingering, matrixInputs, used>>

-----------------------------------------------------------------------------
(* The environment                                                         *)

\* The flock goes with the process, the container stays.
KillRunner(r) ==
  /\ ~RAt(r, "idle") /\ used.kills < MaxRunnerKills
  /\ used' = [used EXCEPT !.kills = @ + 1]
  /\ runner' = [runner EXCEPT ![r] = NoWork]
  /\ gpuLock' = IF gpuLock = r THEN NoRunner ELSE gpuLock
  /\ lingering' = lingering \cup ({runner[r].attempt} \cap containers)
  /\ doubtful' = TRUE
  /\ UNCHANGED <<lastCell, warms, files, containers, matrixInputs, summary>>

\* The inputs are read by Choose and Generate only: an edit is as good as one right before.
EditInputs ==
  /\ matrixInputs + lastCell <= MaxEdits
  /\ \E r \in Runner : runner[r].pc \in {"choose", "generate"}
  /\ matrixInputs' = matrixInputs + 1
  /\ KeepFiles /\ UNCHANGED <<runner, gpuLock, used>>

RunnerStep(r) ==
  \/ StartUnlocked(r) \/ StartCampaign(r) \/ Generate(r) \/ Gates(r) \/ Choose(r)
  \/ ArchiveFile(r) \/ Render(r) \/ Announce(r) \/ StartContainer(r) \/ Attest(r) \/ BreakOff(r)
  \/ Poll(r) \/ Freeze(r) \/ Stop(r) \/ Conclude(r) \/ RunRaises(r) \/ ReadStatuses(r)
  \/ WriteSummary(r)

MatrixNext ==
  \/ \E r \in Runner : RunnerStep(r) \/ Row(r) \/ Pass(r) \/ Exit(r) \/ KillRunner(r)
  \/ EditInputs

MatrixSpec == MatrixInit /\ [][MatrixNext]_matrixVars

-----------------------------------------------------------------------------
(* Properties                                                              *)

\* A complete run measured steady rows only: the row it starts from was printed after the
\* warm-up, if there is one, it counts as many as the duration asks for, and none of the teardown.
CompleteIsSteady == \A c \in Cell : files[c].status.state = "complete" => files[c].status.steady

\* Beside a complete status lie the log and the attestation of the same attempt, and the
\* configuration it was run with, unless --generate-only has replaced it: a run whose
\* files are archived halfway when its runner is killed does not count as complete.
CompleteIsWhole ==
  \A c \in Cell : LET d == files[c] IN
    d.status.state = "complete" =>
      /\ d.log = d.status.attempt /\ d.runtime = d.status.attempt
      /\ d.config.by = "runner" => d.config.fingerprint = d.status.fingerprint

\* Of the containers that somebody still means to stop there is one at most.
OneAtATime == Cardinality(containers \ lingering) <= 1

\* When the lock is free the summary says of every cell what its status says, however the
\* campaign ended: refused, failing fast, interrupted, or raised out of a run.  A kill and a
\* command without the lock may leave it behind.
SummaryIsCurrent ==
  gpuLock = NoRunner /\ ~doubtful =>
    IF summary = <<>> THEN \A c \in Cell : files[c].status = NoStatus
    ELSE \A c \in Cell : summary[c] = Seen(files[c].status)

\* Evidence is archived before anything replaces it: a status, log or attestation never
\* turns into that of another attempt.
EvidenceStep ==
  \A c \in Cell :
    /\ files[c].status.attempt # 0 => files'[c].status.attempt \in {0, files[c].status.attempt}
    /\ files[c].log # 0 => files'[c].log \in {0, files[c].log}
    /\ files[c].runtime # 0 => files'[c].runtime \in {0, files[c].runtime}
EvidenceIsKept == [][EvidenceStep]_matrixVars
=============================================================================
