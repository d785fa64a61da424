---------------------------- MODULE RoiRenderJobs ----------------------------
(***************************************************************************)
(* RoiRenderJobService of admin/roi_render_jobs.py: requests write a job   *)
(* file and submit the job, one worker thread runs a renderer process per  *)
(* job, the service may be shut down or killed at any moment, and the next *)
(* start marks what it finds in flight as failed.                          *)
(*                                                                         *)
(* Threads interleave between the sections that the code runs under its    *)
(* lock or as one call: an update of a job file is one step.  The stop     *)
(* event is set exactly when the executor is taken away, so both are the   *)
(* phase of the service.  A renderer runs in a session of its own and      *)
(* outlives a killed service, unless a container ends with the service.    *)
(* It is external: it writes the video, then the manifest, and exits with  *)
(* any code.  An update may raise an I/O error before or after the file    *)
(* was replaced, at most MaxFaults times.                                  *)
(***************************************************************************)
EXTENDS Naturals, Sequences, FiniteSets

CONSTANTS
  Job,              \* job ids
  NoJob,            \* None where a job or its process is expected
  MaxCrashes,       \* bound: how often the service is killed
  MaxFaults         \* bound: how many updates raise an I/O error

ASSUME JobAssumption ==
  /\ NoJob \notin Job
  /\ {MaxCrashes, MaxFaults} \subseteq Nat

VARIABLES
  file,             \* the job files: status of each job
  output,           \* the output directory of each job
  renderer,         \* the renderer process of each job
  phase,            \* of the service: executor and stop event, step of shutdown
  request,          \* the request thread of each job
  session,          \* _session_job_ids
  queue,            \* the work items of the executor
  worker,           \* the worker thread: step and job
  active,           \* _active_process
  victim,           \* the process that shutdown took from _active_process
  todo,             \* the jobs that shutdown still has to look at
  orphans,          \* renderers whose service was killed
  damaged,          \* jobs whose file an I/O error hit
  crashes, faults   \* the bounded counts

disk == <<file, output>>
service == <<phase, victim, todo>>
counts == <<damaged, crashes, faults>>
vars == <<disk, renderer, service, request, session, queue, worker, active,
          orphans, counts>>

-----------------------------------------------------------------------------
InFlight == {"queued", "running"}

Idle == [pc |-> "idle", job |-> NoJob]

At(pc) == worker.pc = pc

To(pc) == worker' = [worker EXCEPT !.pc = pc]

\* _update_job, _write_job: the file is replaced atomically; an error may
\* strike before or after that.
Save(j, status, ok) ==
  \/ /\ ok
     /\ file' = [file EXCEPT ![j] = status]
     /\ UNCHANGED counts
  \/ /\ ~ok
     /\ faults < MaxFaults
     /\ file' \in {file, [file EXCEPT ![j] = status]}
     /\ faults' = faults + 1
     /\ damaged' = damaged \union {j}
     /\ UNCHANGED crashes

NoSave == UNCHANGED <<file, counts>>

\* Mutant: only SIGTERM is sent, which a renderer may ignore.
TerminatedPolitely(j) == UNCHANGED renderer

\* _terminate_process_group: SIGTERM, then SIGKILL, then wait.
Terminated(j) ==
  renderer' = [r \in Job |-> IF r = j /\ renderer[r] = "alive" THEN "failed"
                             ELSE renderer[r]]

Init ==
  /\ file = [j \in Job |-> "none"]
  /\ output = [j \in Job |-> "none"]
  /\ renderer = [j \in Job |-> "none"]
  /\ phase = "down"
  /\ request = [j \in Job |-> "new"]
  /\ session = {}
  /\ queue = <<>>
  /\ worker = Idle
  /\ active = NoJob
  /\ victim = NoJob
  /\ todo = {}
  /\ orphans = {}
  /\ damaged = {}
  /\ crashes = 0
  /\ faults = 0

-----------------------------------------------------------------------------
(* start                                                                   *)

Start ==
  /\ phase = "down"
  /\ phase' = "recovering"
  /\ UNCHANGED <<disk, renderer, victim, todo, request, session, queue, worker,
                 active, orphans, counts>>

\* _recover_interrupted_jobs: an error aborts the start and the process exits.
Recover(j, ok) ==
  /\ phase = "recovering"
  /\ file[j] \in InFlight
  /\ Save(j, "error", ok)
  /\ phase' = IF ok THEN phase ELSE "down"
  /\ UNCHANGED <<output, renderer, victim, todo, request, session, queue, worker,
                 active, orphans>>

\* Mutant: jobs that are in flight are left as they are.
StartedAtOnce ==
  /\ phase = "recovering"
  /\ phase' = "up"
  /\ UNCHANGED <<disk, renderer, victim, todo, request, session, queue, worker,
                 active, orphans, counts>>

Started ==
  /\ phase = "recovering"
  /\ \A j \in Job : file[j] \notin InFlight
  /\ phase' = "up"
  /\ UNCHANGED <<disk, renderer, victim, todo, request, session, queue, worker,
                 active, orphans, counts>>

-----------------------------------------------------------------------------
(* enqueue                                                                 *)

Admit(j) ==
  /\ request[j] = "new"
  /\ phase = "up"
  /\ request' = [request EXCEPT ![j] = "admitted"]
  /\ UNCHANGED <<disk, renderer, service, session, queue, worker, active,
                 orphans, counts>>

\* The plan does not survive revalidation or the directory cannot be made.
Reject(j) ==
  /\ request[j] = "admitted"
  /\ request' = [request EXCEPT ![j] = "refused"]
  /\ UNCHANGED <<disk, renderer, service, session, queue, worker, active,
                 orphans, counts>>

WriteQueued(j, ok) ==
  /\ request[j] = "admitted"
  /\ Save(j, "queued", ok)
  /\ request' = [request EXCEPT ![j] = IF ok THEN "written" ELSE "refused"]
  /\ UNCHANGED <<output, renderer, service, session, queue, worker, active,
                 orphans>>

Submit(j) ==
  /\ request[j] = "written"
  /\ phase = "up"
  /\ request' = [request EXCEPT ![j] = "accepted"]
  /\ session' = session \union {j}
  /\ queue' = Append(queue, j)
  /\ UNCHANGED <<disk, renderer, service, worker, active, orphans, counts>>

\* Mutant: the second check refuses the request and leaves the file queued.
RefuseSilently(j, ok) ==
  /\ request[j] = "written"
  /\ phase # "up"
  /\ ok
  /\ request' = [request EXCEPT ![j] = "refused"]
  /\ UNCHANGED <<disk, renderer, service, session, queue, worker, active,
                 orphans, counts>>

\* The second check: the service was shut down since the first.
Refuse(j, ok) ==
  /\ request[j] = "written"
  /\ phase # "up"
  /\ Save(j, "error", ok)
  /\ request' = [request EXCEPT ![j] = "refused"]
  /\ UNCHANGED <<output, renderer, service, session, queue, worker, active,
                 orphans>>

-----------------------------------------------------------------------------
(* _run_job, on the worker thread                                          *)

Take ==
  /\ At("idle")
  /\ queue # <<>>
  /\ worker' = [pc |-> "begin", job |-> Head(queue)]
  /\ queue' = Tail(queue)
  /\ UNCHANGED <<disk, renderer, service, request, session, active, orphans, counts>>

Begin ==
  /\ At("begin")
  /\ phase = "up"
  /\ To("mark")
  /\ UNCHANGED <<disk, renderer, service, request, session, queue, active, orphans,
                 counts>>

BeginStopped(ok) ==
  /\ At("begin")
  /\ phase # "up"
  /\ Save(worker.job, "error", ok)
  /\ worker' = Idle
  /\ UNCHANGED <<output, renderer, service, request, session, queue, active, orphans>>

\* Outside the try block: an error ends the job here.
MarkRunning(ok) ==
  /\ At("mark")
  /\ Save(worker.job, "running", ok)
  /\ worker' = IF ok THEN [worker EXCEPT !.pc = "spawn"] ELSE Idle
  /\ UNCHANGED <<output, renderer, service, request, session, queue, active, orphans>>

Spawn ==
  /\ At("spawn")
  /\ renderer' = [renderer EXCEPT ![worker.job] = "alive"]
  /\ To("record")
  /\ UNCHANGED <<disk, service, request, session, queue, active, orphans, counts>>

SpawnFails ==
  /\ At("spawn")
  /\ To("handle")
  /\ UNCHANGED <<disk, renderer, service, request, session, queue, active, orphans,
                 counts>>

Record ==
  /\ At("record")
  /\ active' = worker.job
  /\ To("poll")
  /\ UNCHANGED <<disk, renderer, service, request, session, queue, orphans, counts>>

PollExited ==
  /\ At("poll")
  /\ renderer[worker.job] # "alive"
  /\ To("check")
  /\ UNCHANGED <<disk, renderer, service, request, session, queue, active, orphans,
                 counts>>

\* Mutant: the loop waits for the renderer and ignores the stop event.
PollOnly == FALSE /\ UNCHANGED vars

PollStop ==
  /\ At("poll")
  /\ renderer[worker.job] = "alive"
  /\ phase # "up"
  /\ To("kill")
  /\ UNCHANGED <<disk, renderer, service, request, session, queue, active, orphans,
                 counts>>

Kill ==
  /\ At("kill")
  /\ Terminated(worker.job)
  /\ To("handle")
  /\ UNCHANGED <<disk, service, request, session, queue, active, orphans, counts>>

\* Mutant: a video without its manifest passes.
VerifiedVideoOnly(j) == renderer[j] = "done" /\ output[j] # "none"

Verified(j) == renderer[j] = "done" /\ output[j] = "rendered"

Check ==
  /\ At("check")
  /\ To(IF Verified(worker.job) THEN "finish" ELSE "handle")
  /\ UNCHANGED <<disk, renderer, service, request, session, queue, active, orphans,
                 counts>>

Finish(ok) ==
  /\ At("finish")
  /\ Save(worker.job, "complete", ok)
  /\ To(IF ok THEN "release" ELSE "handle")
  /\ UNCHANGED <<output, renderer, service, request, session, queue, active, orphans>>

\* Mutant: a failure is recorded without looking at the file.
HandleBlindly(ok) ==
  /\ At("handle")
  /\ Terminated(worker.job)
  /\ Save(worker.job, "error", ok)
  /\ To("release")
  /\ UNCHANGED <<output, service, request, session, queue, active, orphans>>

\* The except block: a file that already says complete stays.
Handle(ok) ==
  /\ At("handle")
  /\ Terminated(worker.job)
  /\ IF file[worker.job] = "complete" THEN ok /\ NoSave
     ELSE Save(worker.job, "error", ok)
  /\ To("release")
  /\ UNCHANGED <<output, service, request, session, queue, active, orphans>>

\* The finally block; active is None or the process of this job.
Release ==
  /\ At("release")
  /\ active' = IF active = worker.job THEN NoJob ELSE active
  /\ worker' = Idle
  /\ UNCHANGED <<disk, renderer, service, request, session, queue, orphans, counts>>

-----------------------------------------------------------------------------
(* shutdown                                                                *)

Shutdown ==
  /\ phase = "up"
  /\ phase' = "terminating"
  /\ victim' = active
  /\ todo' = session
  /\ UNCHANGED <<disk, renderer, request, session, queue, worker, active, orphans,
                 counts>>

TerminateActive ==
  /\ phase = "terminating"
  /\ Terminated(victim)
  /\ phase' = "cancelling"
  /\ UNCHANGED <<disk, victim, todo, request, session, queue, worker, active, orphans,
                 counts>>

Cancel ==
  /\ phase = "cancelling"
  /\ queue' = <<>>
  /\ phase' = "draining"
  /\ UNCHANGED <<disk, renderer, victim, todo, request, session, worker, active,
                 orphans, counts>>

\* Mutant: shutdown does not wait for the worker.
DrainedAtOnce ==
  /\ phase = "draining"
  /\ phase' = "marking"
  /\ UNCHANGED <<disk, renderer, victim, todo, request, session, queue, worker, active,
                 orphans, counts>>

Drained ==
  /\ phase = "draining"
  /\ At("idle")
  /\ phase' = "marking"
  /\ UNCHANGED <<disk, renderer, victim, todo, request, session, queue, worker, active,
                 orphans, counts>>

\* An I/O error ends the loop and the rest of shutdown.
MarkStopped(j, ok) ==
  /\ phase = "marking"
  /\ j \in todo
  /\ IF file[j] \in InFlight THEN Save(j, "error", ok) ELSE ok /\ NoSave
  /\ todo' = IF ok THEN todo \ {j} ELSE {}
  /\ phase' = IF ok THEN phase ELSE "closed"
  /\ UNCHANGED <<output, renderer, victim, request, session, queue, worker,
                 active, orphans>>

Closed ==
  /\ phase = "marking"
  /\ todo = {}
  /\ phase' = "closed"
  /\ active' = NoJob
  /\ session' = {}
  /\ UNCHANGED <<disk, renderer, victim, todo, request, queue, worker, orphans, counts>>

\* The process ends: threads and memory are gone.
Gone ==
  /\ phase' = "down"
  /\ request' = [j \in Job |-> IF request[j] \in {"admitted", "written"} THEN "lost"
                               ELSE request[j]]
  /\ session' = {}
  /\ queue' = <<>>
  /\ worker' = Idle
  /\ active' = NoJob
  /\ victim' = NoJob
  /\ todo' = {}
  /\ UNCHANGED <<disk, damaged, faults>>

Exit == phase = "closed" /\ Gone /\ UNCHANGED <<renderer, orphans, crashes>>

Alive == {j \in Job : renderer[j] = "alive"}

\* The service is killed: alone, or as the init process of a container that takes
\* the renderers with it.
Crash ==
  /\ phase # "down"
  /\ crashes < MaxCrashes
  /\ crashes' = crashes + 1
  /\ \/ orphans' = orphans \union Alive /\ UNCHANGED renderer
     \/ /\ renderer' = [j \in Job |-> IF j \in Alive THEN "failed" ELSE renderer[j]]
        /\ UNCHANGED orphans
  /\ Gone

-----------------------------------------------------------------------------
(* The renderer, external: content.roi_demo.                               *)

Render(j) ==
  /\ renderer[j] = "alive"
  /\ \/ output[j] = "none" /\ output' = [output EXCEPT ![j] = "video"]
     \/ output[j] = "video" /\ output' = [output EXCEPT ![j] = "rendered"]
  /\ UNCHANGED <<file, renderer, service, request, session, queue, worker, active,
                 orphans, counts>>

RendererExit(j) ==
  /\ renderer[j] = "alive"
  /\ \E code \in {"done", "failed"} : renderer' = [renderer EXCEPT ![j] = code]
  /\ UNCHANGED <<disk, service, request, session, queue, worker, active, orphans,
                 counts>>

-----------------------------------------------------------------------------
RequestStep(j, ok) ==
  Reject(j) \/ WriteQueued(j, ok) \/ Submit(j) \/ Refuse(j, ok)

WorkerStep(ok) ==
  \/ Take \/ Begin \/ BeginStopped(ok) \/ MarkRunning(ok) \/ Spawn \/ SpawnFails
  \/ Record \/ PollExited \/ PollStop \/ Kill \/ Check \/ Finish(ok) \/ Handle(ok)
  \/ Release

StartStep(ok) == Start \/ (\E j \in Job : Recover(j, ok)) \/ Started

StopStep(ok) ==
  \/ TerminateActive \/ Cancel \/ Drained \/ (\E j \in Job : MarkStopped(j, ok))
  \/ Closed \/ Exit

Next ==
  \/ \E ok \in BOOLEAN : WorkerStep(ok) \/ StartStep(ok) \/ StopStep(ok)
  \/ \E j \in Job, ok \in BOOLEAN : RequestStep(j, ok)
  \/ \E j \in Job : Admit(j) \/ Render(j) \/ RendererExit(j)
  \/ Shutdown
  \/ Crash

Spec == Init /\ [][Next]_vars

\* Threads run; a service that is down is started again.
ThreadsRun ==
  /\ \A j \in Job : WF_vars(\E ok \in BOOLEAN : RequestStep(j, ok))
  /\ WF_vars(\E ok \in BOOLEAN : WorkerStep(ok))
  /\ WF_vars(\E ok \in BOOLEAN : StartStep(ok))
  /\ WF_vars(\E ok \in BOOLEAN : StopStep(ok))

FairSpec == Spec /\ ThreadsRun

\* Every renderer exits, because a clip is finite.
RenderersExit == \A j \in Job : WF_vars(RendererExit(j))

-----------------------------------------------------------------------------
\* Every variable holds a value of its kind; the executor holds submitted jobs.
TypeOK ==
  /\ file \in [Job -> {"none", "queued", "running", "complete", "error"}]
  /\ output \in [Job -> {"none", "video", "rendered"}]
  /\ renderer \in [Job -> {"none", "alive", "done", "failed"}]
  /\ phase \in {"down", "recovering", "up", "terminating", "cancelling", "draining",
                "marking", "closed"}
  /\ request \in [Job -> {"new", "admitted", "written", "accepted", "refused", "lost"}]
  /\ session \subseteq Job /\ todo \subseteq session
  /\ queue \in Seq(session)
  /\ worker = Idle \/ worker.job \in session
  /\ {active, victim} \subseteq Job \union {NoJob}

\* The jobs whose request was answered with 202.
Accepted == {j \in Job : request[j] = "accepted"}

Life == INSTANCE JobLifecycle WITH status <- file, accepted <- Accepted

\* A client sees the status of its job move forward only, to an end that stays,
\* and a job that was not accepted never runs: also when shutdown, the worker,
\* a refused request and the next start write the same file, and when an update
\* fails after it replaced the file.
LifecycleHolds == Life!Spec

\* output_path serves the video of a complete job: its own renderer exited well
\* and left video and manifest.
CompleteIsRendered ==
  \A j \in Job : file[j] = "complete" => output[j] = "rendered"

\* A renderer of the running service is watched by the worker, so there is one
\* at most and shutdown never ends before it: only a killed service leaves one.
RenderersAreWatched ==
  \A j \in Alive \ orphans :
    worker.job = j /\ worker.pc \in {"record", "poll", "kill", "handle"}

\* Somebody is responsible for every job file in flight: its request, the
\* executor, the worker, shutdown, or the next start.  While the service runs only
\* an I/O error on the job's own file leaves it to the next start; in a shutdown
\* an error on any file does.
InFlightIsOwned ==
  \A j \in Job : file[j] \in InFlight =>
    \/ phase \in {"down", "recovering"}
    \/ request[j] = "written"
    \/ \E i \in DOMAIN queue : queue[i] = j
    \/ worker.job = j
    \/ j \in todo
    \/ j \in damaged
    \/ phase = "closed" /\ damaged # {}

\* Shutdown ends although a renderer may run for ever, also one that is spawned
\* after shutdown looked at _active_process.
ShutdownEnds == phase = "terminating" ~> phase \in {"closed", "down"}

\* Every accepted job ends, through any shutdown or crash, if renderers exit and no
\* update raises an I/O error.
AcceptedJobsEnd ==
  RenderersExit /\ [](faults = 0) =>
    \A j \in Job : request[j] = "accepted" ~> file[j] \in {"complete", "error"}

\* Complete is rendered, renderers are watched, and no job in flight is forgotten.
JobsAreSafe == CompleteIsRendered /\ RenderersAreWatched /\ InFlightIsOwned

\* Shutdown and every accepted job end.
JobsEnd == ShutdownEnds /\ AcceptedJobsEnd

\* "A restart-aware, single-concurrency CPU render queue": at most one renderer
\* runs at a time.
SingleConcurrency == Cardinality(Alive) <= 1
=============================================================================
