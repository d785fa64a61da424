------------------------ MODULE RoiRenderJobs_proofs ------------------------
(***************************************************************************)
(* Proofs about RoiRenderJobs, for any number of jobs, kills and errors.   *)
(***************************************************************************)
EXTENDS RoiRenderJobs, TLAPS

Steps == {"idle", "begin", "mark", "spawn", "record", "poll", "kill", "check",
          "finish", "handle", "release"}

\* What TypeOK leaves out, and that the executor holds no job twice.
Shape ==
  /\ worker \in [pc : Steps, job : Job \union {NoJob}]
  /\ worker.pc # "idle" => worker.job \in session
  /\ worker.pc = "idle" => worker.job = NoJob
  /\ session \subseteq Job
  /\ damaged \subseteq Job
  /\ faults \in Nat

\* Shutdown empties the executor, then waits for the worker, then ends; a request
\* is in the middle of enqueue only while a service runs.
Quiet ==
  /\ phase \in {"draining", "marking", "closed", "down", "recovering"} => queue = <<>>
  /\ phase \in {"marking", "closed", "down", "recovering"} => worker.pc = "idle"
  /\ phase \in {"down", "recovering"} =>
       session = {} /\ \A j \in Job : request[j] \notin {"admitted", "written"}
  /\ phase \in {"terminating", "cancelling", "draining"} => todo = session

\* The file of a job that is not submitted yet follows its request.
Unsubmitted ==
  /\ \A j \in session : request[j] = "accepted"
  /\ \A j \in Job :
       /\ request[j] \in {"new", "admitted"} => file[j] = "none"
       /\ request[j] = "written" => file[j] = "queued"

\* A job in the executor is queued, is there once and is not at the worker.
Queueing ==
  /\ \A i \in DOMAIN queue : file[queue[i]] = "queued" /\ queue[i] # worker.job
  /\ \A i, k \in DOMAIN queue : queue[i] = queue[k] => i = k

\* The file of the worker's job follows the worker.
Working ==
  /\ worker.pc \in {"begin", "mark"} => file[worker.job] = "queued"
  /\ worker.pc \in {"spawn", "record", "poll", "kill", "check", "finish"} =>
       file[worker.job] = "running"
  /\ worker.pc = "handle" => file[worker.job] \in {"running", "complete"}
  /\ worker.pc = "finish" => output[worker.job] = "rendered"
  /\ worker.pc = "release" =>
       file[worker.job] \in {"complete", "error"} \/ worker.job \in damaged

Inv ==
  /\ TypeOK /\ Shape /\ Quiet /\ Unsubmitted /\ Queueing /\ Working
  /\ CompleteIsRendered /\ RenderersAreWatched /\ InFlightIsOwned

-----------------------------------------------------------------------------
\* A request thread preserves the invariant.
LEMMA RequestKeeps ==
  ASSUME NEW j \in Job, NEW ok \in BOOLEAN, Inv, RequestStep(j, ok)
  PROVE  Inv'
<1> USE JobAssumption
<1> USE DEF Inv, TypeOK, Shape, Steps, Quiet, Unsubmitted, Queueing, Working,
         CompleteIsRendered, RenderersAreWatched, InFlightIsOwned, InFlight, Idle,
         At, To, Save, NoSave, Terminated, Alive, Gone, disk, service, counts
<1>1. CASE Reject(j)
  BY <1>1, SMT DEF Reject
<1>2. CASE WriteQueued(j, ok)
  BY <1>2, SMT DEF WriteQueued
<1>3. CASE Submit(j)
  <2> USE <1>3 DEF Submit
  <2>1. TypeOK' /\ Shape' /\ Quiet' /\ Unsubmitted'
    OBVIOUS
  <2>2. Queueing' /\ Working' /\ CompleteIsRendered' /\ RenderersAreWatched'
    OBVIOUS
  <2>3. InFlightIsOwned'
    <3>1. /\ \A i \in DOMAIN queue : i \in DOMAIN queue' /\ queue'[i] = queue[i]
          /\ Len(queue') \in DOMAIN queue' /\ queue'[Len(queue')] = j
      OBVIOUS
    <3>2. \A l \in Job : l # j => request'[l] = request[l]
      OBVIOUS
    <3> HIDE <1>3
    <3>3. file' = file /\ phase' = phase /\ worker' = worker /\ todo' = todo
           /\ damaged' = damaged
      BY <1>3
    <3> QED
      BY <3>1, <3>2, <3>3 DEF InFlightIsOwned
  <2> QED
    BY <2>1, <2>2, <2>3
<1>4. CASE Refuse(j, ok)
  BY <1>4, SMT DEF Refuse
<1> QED
  BY <1>1, <1>2, <1>3, <1>4 DEF RequestStep

\* The worker thread preserves the invariant.
LEMMA WorkerKeeps ==
  ASSUME NEW ok \in BOOLEAN, Inv, WorkerStep(ok)
  PROVE  Inv'
<1> USE JobAssumption
<1> USE DEF Inv, TypeOK, Shape, Steps, Quiet, Unsubmitted, Queueing, Working,
         CompleteIsRendered, RenderersAreWatched, InFlightIsOwned, InFlight, Idle,
         At, To, Save, NoSave, Terminated, Alive, Gone, disk, service, counts
<1>1. CASE Take
  <2> USE <1>1 DEF Take
  <2>1. TypeOK' /\ Shape' /\ Quiet' /\ Unsubmitted'
    OBVIOUS
  <2>2. Queueing' /\ Working' /\ CompleteIsRendered' /\ RenderersAreWatched'
    OBVIOUS
  <2>3. InFlightIsOwned'
    <3>1. \A i \in DOMAIN queue : i # 1 =>
            i - 1 \in DOMAIN queue' /\ queue'[i - 1] = queue[i]
      OBVIOUS
    <3>2. /\ worker'.job = queue[1]
          /\ worker.job = NoJob
      OBVIOUS
    <3>3. file' = file /\ phase' = phase /\ todo' = todo /\ damaged' = damaged
           /\ request' = request
      OBVIOUS
    <3> HIDE <1>1
    <3> QED
      BY <3>1, <3>2, <3>3 DEF InFlightIsOwned
  <2> QED
    BY <2>1, <2>2, <2>3
<1>2. CASE Begin
  BY <1>2, SMT DEF Begin
<1>3. CASE BeginStopped(ok)
  BY <1>3, SMT DEF BeginStopped
<1>4. CASE MarkRunning(ok)
  BY <1>4, SMT DEF MarkRunning
<1>5. CASE Spawn
  BY <1>5, SMT DEF Spawn
<1>6. CASE SpawnFails
  BY <1>6, SMT DEF SpawnFails
<1>7. CASE Record
  BY <1>7, SMT DEF Record
<1>8. CASE PollExited
  BY <1>8, SMT DEF PollExited
<1>9. CASE PollStop
  BY <1>9, SMT DEF PollStop
<1>10. CASE Kill
  BY <1>10, SMT DEF Kill
<1>11. CASE Check
  BY <1>11, SMT DEF Check, Verified
<1>12. CASE Finish(ok)
  <2> USE <1>12 DEF Finish
  <2>1. CASE ok
    BY <2>1
  <2>2. CASE ~ok
    BY <2>2
  <2> QED
    BY <2>1, <2>2
<1>13. CASE Handle(ok)
  BY <1>13, SMT DEF Handle
<1>14. CASE Release
  BY <1>14, SMT DEF Release
<1> QED
  BY <1>1, <1>2, <1>3, <1>4, <1>5, <1>6, <1>7, <1>8, <1>9, <1>10, <1>11, <1>12, <1>13, <1>14 DEF WorkerStep

\* A start preserves the invariant.
LEMMA StartKeeps ==
  ASSUME NEW ok \in BOOLEAN, Inv, StartStep(ok)
  PROVE  Inv'
<1> USE JobAssumption
<1> USE DEF Inv, TypeOK, Shape, Steps, Quiet, Unsubmitted, Queueing, Working,
         CompleteIsRendered, RenderersAreWatched, InFlightIsOwned, InFlight, Idle,
         At, To, Save, NoSave, Terminated, Alive, Gone, disk, service, counts
<1>1. CASE Start
  BY <1>1, SMT DEF Start
<1>2. ASSUME NEW j \in Job, Recover(j, ok) PROVE Inv'
  BY <1>2, SMT DEF Recover
<1>3. CASE Started
  BY <1>3, SMT DEF Started
<1> QED
  BY <1>1, <1>2, <1>3 DEF StartStep

\* Shutdown preserves the invariant.
LEMMA StopKeeps ==
  ASSUME NEW ok \in BOOLEAN, Inv, StopStep(ok)
  PROVE  Inv'
<1> USE JobAssumption
<1> USE DEF Inv, TypeOK, Shape, Steps, Quiet, Unsubmitted, Queueing, Working,
         CompleteIsRendered, RenderersAreWatched, InFlightIsOwned, InFlight, Idle,
         At, To, Save, NoSave, Terminated, Alive, Gone, disk, service, counts
<1>1. CASE TerminateActive
  BY <1>1, SMT DEF TerminateActive
<1>2. CASE Cancel
  BY <1>2, SMT DEF Cancel
<1>3. CASE Drained
  BY <1>3, SMT DEF Drained
<1>4. ASSUME NEW j \in Job, MarkStopped(j, ok) PROVE Inv'
  <2> USE <1>4 DEF MarkStopped
  <2>1. CASE ok
    BY <2>1
  <2>2. CASE ~ok
    <3>1. j \in damaged' /\ phase' = "closed"
      BY <2>2
    <3>2. InFlightIsOwned'
      BY <3>1
    <3>3. TypeOK' /\ Shape' /\ Quiet' /\ Unsubmitted'
      BY <2>2
    <3>4. Queueing' /\ Working' /\ CompleteIsRendered' /\ RenderersAreWatched'
      BY <2>2
    <3> QED
      BY <3>2, <3>3, <3>4
  <2> QED
    BY <2>1, <2>2
<1>5. CASE Closed
  BY <1>5, SMT DEF Closed
<1>6. CASE Exit
  BY <1>6, SMT DEF Exit
<1> QED
  BY <1>1, <1>2, <1>3, <1>4, <1>5, <1>6 DEF StopStep

\* Requests that arrive and renderers preserve the invariant.
LEMMA OthersKeep ==
  ASSUME NEW j \in Job, Inv, Admit(j) \/ Render(j) \/ RendererExit(j)
  PROVE  Inv'
<1> USE JobAssumption
<1> USE DEF Inv, TypeOK, Shape, Steps, Quiet, Unsubmitted, Queueing, Working,
         CompleteIsRendered, RenderersAreWatched, InFlightIsOwned, InFlight, Idle,
         At, To, Save, NoSave, Terminated, Alive, Gone, disk, service, counts
<1>1. CASE Admit(j)
  BY <1>1, SMT DEF Admit
<1>2. CASE Render(j)
  BY <1>2, SMT DEF Render
<1>3. CASE RendererExit(j)
  BY <1>3, SMT DEF RendererExit
<1> QED
  BY <1>1, <1>2, <1>3

\* The begin of shutdown and a killed service preserve the invariant.
LEMMA EndsKeep ==
  ASSUME Inv, Shutdown \/ Crash
  PROVE  Inv'
<1> USE JobAssumption
<1> USE DEF Inv, TypeOK, Shape, Steps, Quiet, Unsubmitted, Queueing, Working,
         CompleteIsRendered, RenderersAreWatched, InFlightIsOwned, InFlight, Idle,
         At, To, Save, NoSave, Terminated, Alive, Gone, disk, service, counts
<1>1. CASE Shutdown
  BY <1>1, SMT DEF Shutdown
<1>2. CASE Crash
  BY <1>2, SMT DEF Crash
<1> QED
  BY <1>1, <1>2

\* Init satisfies the invariant.
LEMMA InitHolds == Init => Inv
  BY JobAssumption, SMT DEF Init, Inv, TypeOK, Shape, Steps, Quiet, Unsubmitted, Queueing, Working,
         CompleteIsRendered, RenderersAreWatched, InFlightIsOwned, InFlight, Idle,
         At, To, Save, NoSave, Terminated, Alive, Gone, disk, service, counts

\* Every step preserves it.
LEMMA StepHolds == Inv /\ [Next]_vars => Inv'
<1> SUFFICES ASSUME Inv, [Next]_vars
             PROVE  Inv'
  OBVIOUS
<1>1. CASE UNCHANGED vars
  BY <1>1 DEF vars, Inv, TypeOK, Shape, Steps, Quiet, Unsubmitted, Queueing, Working,
         CompleteIsRendered, RenderersAreWatched, InFlightIsOwned, InFlight, Idle,
         At, To, Save, NoSave, Terminated, Alive, Gone, disk, service, counts
<1>2. ASSUME NEW ok \in BOOLEAN, WorkerStep(ok) \/ StartStep(ok) \/ StopStep(ok)
      PROVE  Inv'
  BY <1>2, WorkerKeeps, StartKeeps, StopKeeps
<1>3. ASSUME NEW j \in Job, NEW ok \in BOOLEAN, RequestStep(j, ok)
      PROVE  Inv'
  BY <1>3, RequestKeeps
<1>4. ASSUME NEW j \in Job, Admit(j) \/ Render(j) \/ RendererExit(j)
      PROVE  Inv'
  BY <1>4, OthersKeep
<1>5. CASE Shutdown \/ Crash
  BY <1>5, EndsKeep
<1> QED
  BY <1>1, <1>2, <1>3, <1>4, <1>5 DEF Next

\* Every reachable state satisfies the invariant.
LEMMA InvHolds == Spec => []Inv
  BY InitHolds, StepHolds, PTL DEF Spec

\* Every variable holds a value of its kind.
THEOREM TypeCorrect == Spec => []TypeOK
  BY InvHolds, PTL DEF Inv

\* A complete job has the video and the manifest of its own renderer.
THEOREM CompleteMeansRendered == Spec => []CompleteIsRendered
  BY InvHolds, PTL DEF Inv

\* A renderer of the running service is watched by the worker.
THEOREM NoUnwatchedRenderer == Spec => []RenderersAreWatched
  BY InvHolds, PTL DEF Inv

\* Somebody is responsible for every job file in flight.
THEOREM NoForgottenJob == Spec => []InFlightIsOwned
  BY InvHolds, PTL DEF Inv

\* The three together, as the run checks them.
THEOREM JobsSafe == Spec => []JobsAreSafe
<1>1. Inv => JobsAreSafe
  BY DEF Inv, JobsAreSafe
<1> QED
  BY <1>1, InvHolds, PTL

-----------------------------------------------------------------------------
\* A step that leaves the files and the answers alone is a stutter of the
\* lifecycle.
LEMMA Stutter ==
  ASSUME UNCHANGED <<file, Accepted>>
  PROVE  [Life!Next]_(Life!jobVars)
  BY DEF Life!jobVars

\* An update of a job file, or one that raises an I/O error, makes a move or none.
LEMMA SaveMoves ==
  ASSUME NEW j \in Job, NEW to, NEW ok, Save(j, to, ok)
  PROVE  file' = file \/ Life!Move(j, file[j], to)
  BY DEF Save, counts, Life!Move

\* A request is answered for a queued job, and makes no other move than Create and
\* Fail.
LEMMA RequestImplements ==
  ASSUME NEW j \in Job, NEW ok \in BOOLEAN, Inv, RequestStep(j, ok)
  PROVE  [Life!Next]_(Life!jobVars)
<1> USE DEF Inv, TypeOK, Unsubmitted, disk
<1>1. CASE Reject(j)
  BY <1>1, Stutter DEF Reject, Accepted
<1>2. CASE WriteQueued(j, ok)
  <2>1. Accepted' = Accepted
    BY <1>2 DEF WriteQueued, Accepted
  <2>2. file' = file \/ Life!Move(j, "none", "queued")
    BY <1>2, SaveMoves DEF WriteQueued
  <2> QED
    BY <2>1, <2>2, Stutter DEF Life!Next, Life!Create
<1>3. CASE Submit(j)
  <2>1. /\ Accepted' = Accepted \union {j}
        /\ j \notin Accepted
        /\ file[j] = "queued"
        /\ file' = file
    BY <1>3 DEF Submit, Accepted
  <2> QED
    BY <2>1 DEF Life!Next, Life!Accept
<1>4. CASE Refuse(j, ok)
  <2>1. Accepted' = Accepted
    BY <1>4 DEF Refuse, Accepted
  <2>2. file' = file \/ Life!Move(j, "queued", "error")
    BY <1>4, SaveMoves DEF Refuse
  <2> QED
    BY <2>1, <2>2, Stutter DEF Life!Next, Life!Fail
<1> QED
  BY <1>1, <1>2, <1>3, <1>4 DEF RequestStep

\* The worker runs, completes or fails the accepted job it works on.
LEMMA WorkerImplements ==
  ASSUME NEW ok \in BOOLEAN, Inv, WorkerStep(ok)
  PROVE  [Life!Next]_(Life!jobVars)
<1> DEFINE j == worker.job
<1> USE DEF At
<1>1. Accepted' = Accepted
  BY DEF WorkerStep, Take, Begin, BeginStopped, MarkRunning, Spawn, SpawnFails,
         Record, PollExited, PollStop, Kill, Check, Finish, Handle, Release, Accepted
<1>2. worker.pc # "idle" => j \in Job /\ j \in Accepted
  BY DEF Inv, Shape, Unsubmitted, Accepted
<1>3. CASE BeginStopped(ok)
  <2>1. file' = file \/ Life!Move(j, "queued", "error")
    BY <1>2, <1>3, SaveMoves DEF BeginStopped, Inv, Working
  <2> QED
    BY <1>1, <1>2, <1>3, <2>1, Stutter DEF BeginStopped, Life!Next, Life!Fail
<1>4. CASE MarkRunning(ok)
  <2>1. file' = file \/ Life!Move(j, "queued", "running")
    BY <1>2, <1>4, SaveMoves DEF MarkRunning, Inv, Working
  <2> QED
    BY <1>1, <1>2, <1>4, <2>1, Stutter DEF MarkRunning, Life!Next, Life!Run
<1>5. CASE Finish(ok)
  <2>1. file' = file \/ Life!Move(j, "running", "complete")
    BY <1>2, <1>5, SaveMoves DEF Finish, Inv, Working
  <2> QED
    BY <1>1, <1>2, <1>5, <2>1, Stutter DEF Finish, Life!Next, Life!Complete
<1>6. CASE Handle(ok)
  <2>1. file' = file \/ Life!Move(j, "running", "error")
    BY <1>2, <1>6, SaveMoves DEF Handle, NoSave, Inv, Working
  <2> QED
    BY <1>1, <1>2, <1>6, <2>1, Stutter DEF Handle, Life!Next, Life!Fail
<1>7. CASE \/ Take \/ Begin \/ Spawn \/ SpawnFails \/ Record \/ PollExited
           \/ PollStop \/ Kill \/ Check \/ Release
  <2>1. file' = file
    BY <1>7 DEF Take, Begin, Spawn, SpawnFails, Record, PollExited, PollStop, Kill,
                Check, Release, disk
  <2> QED
    BY <1>1, <2>1, Stutter
<1> QED
  BY <1>3, <1>4, <1>5, <1>6, <1>7 DEF WorkerStep

\* Start and shutdown fail jobs in flight and touch no other.
LEMMA StartStopImplements ==
  ASSUME NEW ok \in BOOLEAN, Inv, StartStep(ok) \/ StopStep(ok)
  PROVE  [Life!Next]_(Life!jobVars)
<1>1. Accepted' = Accepted
  BY DEF StartStep, StopStep, Start, Recover, Started, TerminateActive, Cancel,
         Drained, MarkStopped, Closed, Exit, Gone, Accepted, Inv, TypeOK
<1>2. ASSUME NEW j \in Job, Recover(j, ok) \/ MarkStopped(j, ok)
      PROVE  [Life!Next]_(Life!jobVars)
  <2>1. \/ file' = file
        \/ Life!Move(j, "queued", "error")
        \/ Life!Move(j, "running", "error")
    BY <1>2, SaveMoves DEF Recover, MarkStopped, NoSave, InFlight
  <2> QED
    BY <1>1, <2>1, Stutter DEF Life!Next, Life!Fail
<1>3. CASE Start \/ Started \/ TerminateActive \/ Cancel \/ Drained \/ Closed \/ Exit
  <2>1. file' = file
    BY <1>3 DEF Start, Started, TerminateActive, Cancel, Drained, Closed, Exit, Gone,
                disk
  <2> QED
    BY <1>1, <2>1, Stutter
<1> QED
  BY <1>2, <1>3 DEF StartStep, StopStep

\* Every step of the service is one of the lifecycle or a stutter.
LEMMA StepImplements == Inv /\ [Next]_vars => [Life!Next]_(Life!jobVars)
<1> SUFFICES ASSUME Inv, [Next]_vars
             PROVE  [Life!Next]_(Life!jobVars)
  OBVIOUS
<1>1. CASE UNCHANGED vars
  BY <1>1, Stutter DEF vars, disk, Accepted
<1>2. ASSUME NEW ok \in BOOLEAN, WorkerStep(ok) \/ StartStep(ok) \/ StopStep(ok)
      PROVE  [Life!Next]_(Life!jobVars)
  BY <1>2, WorkerImplements, StartStopImplements
<1>3. ASSUME NEW j \in Job, NEW ok \in BOOLEAN, RequestStep(j, ok)
      PROVE  [Life!Next]_(Life!jobVars)
  BY <1>3, RequestImplements
<1>4. ASSUME NEW j \in Job, Admit(j) \/ Render(j) \/ RendererExit(j)
      PROVE  [Life!Next]_(Life!jobVars)
  <2>1. file' = file /\ Accepted' = Accepted
    BY <1>4 DEF Admit, Render, RendererExit, disk, Accepted, Inv, TypeOK
  <2> QED
    BY <2>1, Stutter
<1>5. CASE Shutdown \/ Crash
  <2>1. file' = file /\ Accepted' = Accepted
    BY <1>5 DEF Shutdown, Crash, Gone, disk, Accepted, Inv, TypeOK
  <2> QED
    BY <2>1, Stutter
<1> QED
  BY <1>1, <1>2, <1>3, <1>4, <1>5 DEF Next

\* The service implements the lifecycle that a client relies on.
THEOREM ServiceImplementsLifecycle == Spec => LifecycleHolds
<1>1. Init => Life!Init
  BY DEF Init, Life!Init, Accepted
<1> QED
  BY <1>1, InvHolds, StepImplements, PTL DEF Spec, LifecycleHolds, Life!Spec
=============================================================================
