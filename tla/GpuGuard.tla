------------------------------ MODULE GpuGuard ------------------------------
(***************************************************************************)
(* run_guarded_docker of validation/gpu_guarded_process.py with its        *)
(* GpuMonitor thread and stop_attached_container of run_matrix.py, around  *)
(* one attached docker client, its container and the files of one artifact *)
(* root: the guard report and the exclusive artifact receipt.              *)
(*                                                                         *)
(* Samples of the GPU are classified by what the monitor does with them:   *)
(* "good", "signal" (a temperature or power-limit signal), "slow"          *)
(* (a slowdown flag is active), "bad" (telemetry is missing) and "error"   *)
(* (the query raised).                                                     *)
(***************************************************************************)
EXTENDS Naturals, FiniteSets

CONSTANTS
  IdentityInterval,   \* GPU_IDENTITY_CHECK_INTERVAL_SAMPLES
  MaxQueryErrors,     \* MAX_CONSECUTIVE_GPU_QUERY_ERRORS
  SlowdownSamples,    \* slowdown_consecutive_samples
  MaxSamples          \* bound: queries of one run

ASSUME GpuGuardAssumption ==
  {IdentityInterval, MaxQueryErrors, SlowdownSamples, MaxSamples}
    \subseteq Nat \ {0}

VARIABLES
  guard,       \* the main thread: step, run number and what it remembers
  monitor,     \* the sampling thread
  docker,      \* the attached client, its container
  drifted,     \* another GPU or driver answers than at the preflight
  report,      \* gpu-guard-report.json
  artifactReceipt      \* gpu-guard-artifact-receipt.json

guardVars == <<guard, monitor, docker, drifted, report, artifactReceipt>>

Policies == {"workstation_managed", "legacy_strict"}
\* safety_event by its code: "static" is a temperature, power or slowdown signal, "hard"
\* is missing telemetry, repeated query errors, or an identity that changed or is unknown.
Events == {"none", "static", "hard"}

-----------------------------------------------------------------------------
(* Preflight                                                               *)

\* _preflight_disposition: what the collector reports, by the kind of its safety events
\* and of its native diagnostics.
PreflightAllowed(policy, events, diagnostics) ==
  \/ /\ events = {}
     /\ diagnostics # {} => policy = "workstation_managed" /\ diagnostics = {"static"}
  \/ policy = "workstation_managed" /\ events = {"static"}

-----------------------------------------------------------------------------
IdleMonitor ==
  [pc |-> "off", stop |-> FALSE, samples |-> 0, errors |-> 0, failed |-> FALSE,
   slow |-> 0, signalled |-> FALSE, event |-> "none", checks |-> 0]

NoDocker == [client |-> "none", container |-> "none", image |-> "resolved"]

IdleGuard ==
  [pc |-> "idle", policy |-> "workstation_managed", raised |-> FALSE,
   image |-> FALSE, reasons |-> FALSE, status |-> "none", joined |-> FALSE,
   final |-> FALSE, removed |-> FALSE]

NoArtifactReceipt == [run |-> "none", status |-> "absent"]

\* The artifact root may hold the receipt of an earlier run.
GpuGuardInit ==
  /\ guard = IdleGuard
  /\ monitor = IdleMonitor
  /\ docker = NoDocker
  /\ drifted = FALSE
  /\ report = "absent"
  /\ artifactReceipt \in {NoArtifactReceipt, [run |-> "earlier", status |-> "complete"]}

GuardAt(from) == guard.pc = from
GuardTo(to) == guard' = [guard EXCEPT !.pc = to]
Report(status) == report' = status

\* The call is over without a result, and what it knew is gone with it.
Leave(end) ==
  /\ guard' = [IdleGuard EXCEPT !.pc = end, !.removed = guard.removed]
  /\ monitor' = IdleMonitor

\* Mutant: static signals never block, whatever the policy.
CodeOnly == monitor.event = "hard"

\* monitor_event_is_blocking.
EventIsBlocking ==
  /\ monitor.event # "none"
  /\ ~(guard.policy = "workstation_managed" /\ monitor.event = "static")

Ended == guard.pc \in {"returned", "raised", "dead"}

-----------------------------------------------------------------------------
(* The main thread                                                         *)

StartGuard ==
  /\ GuardAt("idle")
  /\ \E policy \in Policies :
       guard' = [guard EXCEPT !.pc = "checking", !.policy = policy]
  /\ Report("checking")
  /\ UNCHANGED <<monitor, docker, drifted, artifactReceipt>>

\* Re-entry evidence, policy, identity, compatibility, image binding or the Xid log
\* stop the run before anything is started, as does the preflight.
Block ==
  /\ GuardAt("checking")
  /\ Report("blocked_before_start")
  /\ Leave("raised")
  /\ UNCHANGED <<docker, drifted, artifactReceipt>>

Allow(events, diagnostics) ==
  /\ GuardAt("checking")
  /\ PreflightAllowed(guard.policy, events, diagnostics)
  /\ Report("running")
  /\ GuardTo("start")
  /\ UNCHANGED <<monitor, docker, drifted, artifactReceipt>>

\* What nobody catches: a report, a CSV file or the log that cannot be written, before the
\* monitor starts or once it is joined, and a command of the postflight that does not
\* return in time.  The report stays as it is.
Unhandled ==
  /\ guard.pc \in {"checking", "start", "reasons", "report"}
  /\ Leave("raised")
  /\ UNCHANGED <<docker, drifted, report, artifactReceipt>>

\* monitor.start and Popen of the client, either of which may raise.
StartClient(ok) ==
  /\ GuardAt("start")
  /\ IF ok
     THEN /\ monitor' = [monitor EXCEPT !.pc = "query"]
          /\ docker' = [docker EXCEPT !.client = "alive"]
          /\ GuardTo("inspect")
     ELSE /\ monitor' \in {monitor, [monitor EXCEPT !.pc = "query"]}
          /\ guard' = [guard EXCEPT !.pc = "cleanup", !.raised = TRUE]
          /\ UNCHANGED docker
  /\ UNCHANGED <<drifted, report, artifactReceipt>>

\* The container as docker shows it, once it is created and until it is removed.
Published == docker.container \in {"running", "ended", "left"}

\* wait_for_running_container_image: the container is published and has the image.  Its
\* time limit is looked at between two docker inspect.
Inspected ==
  /\ GuardAt("inspect")
  /\ Published
  /\ docker.image = "resolved"
  /\ guard' = [guard EXCEPT !.pc = "poll", !.image = TRUE]
  /\ Report("running")
  /\ UNCHANGED <<monitor, docker, drifted, artifactReceipt>>

\* Another image, an early exit of the client, a failed inspection or the time limit.
InspectFails ==
  /\ GuardAt("inspect")
  /\ guard' = [guard EXCEPT !.pc = "cleanup", !.raised = TRUE]
  /\ UNCHANGED <<monitor, docker, drifted, report, artifactReceipt>>

\* The loop ends with the client, or by a blocking event.
PollExited ==
  /\ GuardAt("poll")
  /\ docker.client # "alive"
  /\ GuardTo("cleanup")
  /\ UNCHANGED <<monitor, docker, drifted, report, artifactReceipt>>

PollBlocking ==
  /\ GuardAt("poll")
  /\ docker.client = "alive"
  /\ EventIsBlocking
  /\ GuardTo("interrupt")
  /\ UNCHANGED <<monitor, docker, drifted, report, artifactReceipt>>

\* docker inspect itself has no time limit: the daemon may keep it waiting, and may or may
\* not come back.
InspectHangs ==
  /\ \/ GuardAt("inspect") /\ GuardTo("hanging")
     \/ GuardAt("hanging") /\ GuardTo("inspect")
  /\ UNCHANGED <<monitor, docker, drifted, report, artifactReceipt>>

\* Ctrl-C while it waits for the container or for the client.
Interrupted ==
  /\ guard.pc \in {"inspect", "hanging", "poll"}
  /\ guard' = [guard EXCEPT !.pc = "cleanup", !.raised = TRUE]
  /\ UNCHANGED <<monitor, docker, drifted, report, artifactReceipt>>

\* finally: a client that is still alive is stopped, for the second time if the stop of the
\* loop raised.
Cleanup ==
  /\ GuardAt("cleanup")
  /\ guard' = IF docker.client = "alive" THEN [guard EXCEPT !.pc = "interrupt", !.final = TRUE]
              ELSE [guard EXCEPT !.pc = "stop monitor"]
  /\ UNCHANGED <<monitor, docker, drifted, report, artifactReceipt>>

\* stop_attached_container: SIGINT to the client, which may pass it on; ok tells whether
\* it ended within the grace time.
Interrupt(ok) ==
  /\ GuardAt("interrupt")
  /\ IF ok
     THEN /\ docker' = [docker EXCEPT !.client =
                          IF @ = "alive" THEN "failed" ELSE @]
          /\ GuardTo("remove")
     ELSE /\ docker.client = "alive"
          /\ GuardTo("force")
          /\ UNCHANGED docker
  /\ UNCHANGED <<monitor, drifted, report, artifactReceipt>>

\* docker rm -f finds the container once it is published.
Without(found) == IF found /\ Published THEN [docker EXCEPT !.container = "gone"] ELSE docker

\* docker rm -f, whose result is not looked at, and five seconds for the client to end.
ForceRemove(gone, ended) ==
  /\ GuardAt("force")
  /\ docker' = [Without(gone) EXCEPT !.client = IF @ = "alive" /\ ended THEN "failed" ELSE @]
  /\ GuardTo(IF docker'.client = "alive" THEN "sigkill" ELSE "remove")
  /\ UNCHANGED <<monitor, drifted, report, artifactReceipt>>

Sigkill ==
  /\ GuardAt("sigkill")
  /\ docker' = [docker EXCEPT !.client = IF @ = "alive" THEN "failed" ELSE @]
  /\ GuardTo("remove")
  /\ UNCHANGED <<monitor, drifted, report, artifactReceipt>>

\* Back from the stop: to the loop, which ends, or behind the cleanup.
StopEnds == IF guard.final THEN "stop monitor" ELSE "cleanup"

\* Mutant: the container is left to the client.
LeavesContainer(gone) ==
  /\ GuardAt("remove")
  /\ guard' = [guard EXCEPT !.pc = StopEnds, !.removed = gone]
  /\ UNCHANGED <<monitor, docker, drifted, report, artifactReceipt>>

\* The last docker rm -f, whose result is not looked at either.
RemoveContainer(gone) ==
  /\ GuardAt("remove")
  /\ docker' = Without(gone)
  /\ guard' = [guard EXCEPT !.pc = StopEnds, !.removed = gone]
  /\ UNCHANGED <<monitor, drifted, report, artifactReceipt>>

\* The stop raises: a docker rm -f that does not return in time, which may have removed the
\* container, a client that is still there after SIGKILL, or Ctrl-C.
StopRaises(gone) ==
  /\ guard.pc \in {"interrupt", "force", "sigkill", "remove"}
  /\ docker' = Without(gone /\ guard.pc \in {"force", "remove"})
  /\ guard' = [guard EXCEPT !.pc = StopEnds, !.raised = TRUE]
  /\ UNCHANGED <<monitor, drifted, report, artifactReceipt>>

StopMonitor ==
  /\ GuardAt("stop monitor")
  /\ monitor' = [monitor EXCEPT !.stop = TRUE]
  /\ GuardTo("join")
  /\ UNCHANGED <<docker, drifted, report, artifactReceipt>>

\* Mutant: join without a time limit.
JoinsForever(ended) ==
  /\ GuardAt("join")
  /\ ended /\ monitor.pc \in {"off", "done"}
  /\ guard' = [guard EXCEPT !.pc = "reasons", !.joined = TRUE]
  /\ UNCHANGED <<monitor, docker, drifted, report, artifactReceipt>>

\* join(timeout=5): a query alone may take ten seconds.
Join(ended) ==
  /\ GuardAt("join")
  /\ ended <=> monitor.pc \in {"off", "done"}
  /\ guard' = [guard EXCEPT !.pc = "reasons", !.joined = ended]
  /\ UNCHANGED <<monitor, docker, drifted, report, artifactReceipt>>

\* The summary of gpu.csv, which has a row for every sample, with every query answered
\* and the identity checked.  Incomplete rows and a drift seen come with a hard event.
TelemetryTrusted ==
  /\ ~monitor.failed
  /\ monitor.samples > 0
  /\ monitor.checks > 0

\* Mutant: the exit code and the exceptions of the run are the caller's business.
TelemetryOnly ==
  \/ EventIsBlocking
  \/ ~TelemetryTrusted
  \/ drifted

\* failure_reasons; clean: the rows cover the duration of the process, no Xid is new, the
\* power profile is the same, and the log has no fatal line.
FailureReasons ==
  \/ guard.raised
  \/ docker.client # "completed"
  \/ EventIsBlocking
  \/ ~TelemetryTrusted
  \/ drifted

Reasons(clean) ==
  /\ GuardAt("reasons")
  /\ guard' = [guard EXCEPT !.pc = "status", !.reasons = FailureReasons \/ ~clean]
  /\ UNCHANGED <<monitor, docker, drifted, report, artifactReceipt>>

\* The status reads the monitor again.
Status ==
  /\ GuardAt("status")
  /\ guard' = [guard EXCEPT !.pc = "receipt",
       !.status = IF EventIsBlocking THEN "safety_abort"
                  ELSE IF guard.reasons THEN "failed" ELSE "complete"]
  /\ UNCHANGED <<monitor, docker, drifted, report, artifactReceipt>>

\* Mutant: a receipt that exists is good enough.
AcceptsReceipt(ok) ==
  /\ GuardAt("receipt")
  /\ artifactReceipt' = IF artifactReceipt.status = "absent"
                THEN [run |-> "this", status |-> guard.status] ELSE artifactReceipt
  /\ GuardTo("report")
  /\ UNCHANGED <<monitor, docker, drifted, report>>

\* Mutant: a missing receipt is noted in the status only.
NotesMissingReceipt(ok) ==
  /\ GuardAt("receipt")
  /\ guard' = [guard EXCEPT !.pc = "report", !.status = "failed"]
  /\ UNCHANGED <<monitor, docker, drifted, report, artifactReceipt>>

\* The receipt is created exclusively; the pins read every artifact, and one that is
\* missing, empty or already there makes the run fail.  ok: the files could be read.
WriteArtifactReceipt(ok) ==
  /\ GuardAt("receipt")
  /\ IF ok /\ artifactReceipt.status = "absent" /\ monitor.samples > 0
     THEN /\ artifactReceipt' = [run |-> "this", status |-> guard.status]
          /\ GuardTo("report")
     ELSE /\ guard' = [guard EXCEPT !.pc = "report", !.reasons = TRUE, !.status = "failed"]
          /\ UNCHANGED artifactReceipt
  /\ UNCHANGED <<monitor, docker, drifted, report>>

\* The receipt is written, but pinning it for the report fails.
PinFails ==
  /\ GuardAt("receipt")
  /\ artifactReceipt.status = "absent" /\ monitor.samples > 0
  /\ artifactReceipt' = [run |-> "this", status |-> guard.status]
  /\ guard' = [guard EXCEPT !.pc = "report", !.reasons = TRUE, !.status = "failed"]
  /\ UNCHANGED <<monitor, docker, drifted, report>>

FinalReport ==
  /\ GuardAt("report")
  /\ Report(guard.status)
  /\ IF guard.reasons THEN Leave("raised") ELSE GuardTo("returned") /\ UNCHANGED monitor
  /\ UNCHANGED <<docker, drifted, artifactReceipt>>

-----------------------------------------------------------------------------
(* The monitor thread                                                      *)

\* What one answered query leads to, in the order of the code: identity, missing
\* telemetry, static signals.  The slowdown counts when it reaches its limit exactly.
Assessed(sample, identityOk) ==
  LET n == monitor.samples + 1
      due == n = 1 \/ n % IdentityInterval = 0
      slow == IF sample = "slow" THEN monitor.slow + 1 ELSE 0
      lost == due /\ (~identityOk \/ drifted)
      signal == sample = "signal" \/ slow = SlowdownSamples
      seen == [monitor EXCEPT !.samples = n,
                              !.checks = IF due /\ identityOk THEN @ + 1 ELSE @]
      abort(event) == [seen EXCEPT !.event = event, !.pc = "done", !.stop = TRUE]
  IN  CASE lost \/ sample = "bad" -> abort("hard")
        [] ~lost /\ signal /\ guard.policy = "legacy_strict" ->
             [abort("static") EXCEPT !.signalled = TRUE, !.slow = slow, !.errors = 0]
        [] OTHER -> [seen EXCEPT !.signalled = @ \/ signal, !.slow = slow, !.errors = 0,
                                 !.pc = "wait"]

Sample(sample, identityOk) ==
  /\ monitor.pc = "query"
  /\ monitor.samples < MaxSamples
  /\ sample # "error"
  /\ monitor' = Assessed(sample, identityOk)
  /\ UNCHANGED <<guard, docker, drifted, report, artifactReceipt>>

QueryError ==
  /\ monitor.pc = "query"
  /\ monitor' = [monitor EXCEPT !.failed = TRUE, !.errors = @ + 1,
       !.event = IF monitor.errors + 1 >= MaxQueryErrors THEN "hard" ELSE @,
       !.stop = @ \/ monitor.errors + 1 >= MaxQueryErrors,
       !.pc = IF monitor.errors + 1 >= MaxQueryErrors THEN "done" ELSE "wait"]
  /\ UNCHANGED <<guard, docker, drifted, report, artifactReceipt>>

\* The loop condition after the wait of one second.
NextSample ==
  /\ monitor.pc = "wait"
  /\ monitor.stop \/ monitor.samples < MaxSamples
  /\ monitor' = [monitor EXCEPT !.pc = IF monitor.stop THEN "done" ELSE "query"]
  /\ UNCHANGED <<guard, docker, drifted, report, artifactReceipt>>

\* The CSV files cannot be opened: the thread ends with its exception.
MonitorDies ==
  /\ monitor.pc = "query" /\ monitor.samples = 0 /\ ~monitor.failed
  /\ monitor' = [monitor EXCEPT !.pc = "done"]
  /\ UNCHANGED <<guard, docker, drifted, report, artifactReceipt>>

-----------------------------------------------------------------------------
(* The world                                                               *)

\* The client asks the daemon for a container.
AskForContainer(image) ==
  /\ docker.client = "alive" /\ docker.container = "none"
  /\ docker' = [docker EXCEPT !.container = "creating", !.image = image]
  /\ UNCHANGED <<guard, monitor, drifted, report, artifactReceipt>>

\* The daemon has created it, and starts it for a client that is still there to ask.
ContainerAppears ==
  /\ docker.container = "creating"
  /\ docker' = [docker EXCEPT !.container = IF docker.client = "alive" THEN "running" ELSE "left"]
  /\ UNCHANGED <<guard, monitor, drifted, report, artifactReceipt>>

\* The container ends and the client returns its exit code.
GuardedEnds(ok) ==
  /\ docker.client = "alive" /\ docker.container = "running"
  /\ docker' = [docker EXCEPT !.container = "ended",
                              !.client = IF ok THEN "completed" ELSE "failed"]
  /\ UNCHANGED <<guard, monitor, drifted, report, artifactReceipt>>

\* docker run fails, or the client is killed while its container keeps running.
ClientDies ==
  /\ docker.client = "alive"
  /\ docker' = [docker EXCEPT !.client = "failed"]
  /\ UNCHANGED <<guard, monitor, drifted, report, artifactReceipt>>

Drift ==
  /\ guard.pc \in {"start", "inspect", "hanging", "poll", "interrupt", "force"}
  /\ drifted' = TRUE
  /\ UNCHANGED <<guard, monitor, docker, report, artifactReceipt>>

\* The guard is killed: the client is in a session of its own and goes on.
KillGuard ==
  /\ guard.pc # "idle" /\ ~Ended
  /\ Leave("dead")
  /\ UNCHANGED <<docker, drifted, report, artifactReceipt>>

-----------------------------------------------------------------------------
GuardStep ==
  \/ \E ok \in BOOLEAN : StartClient(ok) \/ Join(ok) \/ Reasons(ok) \/ WriteArtifactReceipt(ok)
  \/ Inspected \/ InspectFails \/ PollExited \/ PollBlocking \/ Cleanup
  \/ \E ok \in BOOLEAN : Interrupt(ok) \/ RemoveContainer(ok) \/ StopRaises(ok)
  \/ \E gone, ended \in BOOLEAN : ForceRemove(gone, ended)
  \/ Sigkill \/ StopMonitor \/ Status \/ PinFails \/ FinalReport
  \/ \E events, diagnostics \in SUBSET {"static", "other"} : Allow(events, diagnostics)

MonitorStep ==
  \/ \E sample \in {"good", "signal", "slow", "bad"}, identityOk \in BOOLEAN :
       Sample(sample, identityOk)
  \/ QueryError \/ NextSample \/ MonitorDies

WorldStep ==
  \/ \E image \in {"resolved", "other"} : AskForContainer(image)
  \/ ContainerAppears \/ InspectHangs
  \/ \E ok \in BOOLEAN : GuardedEnds(ok)
  \/ ClientDies \/ Drift \/ Interrupted \/ KillGuard

\* The monitor is a daemon thread: it ends with the process.  The daemon goes on.
GpuGuardNext ==
  \/ StartGuard \/ Block \/ Unhandled \/ GuardStep
  \/ ~Ended /\ (MonitorStep \/ WorldStep)
  \/ Ended /\ ContainerAppears

\* The guard's thread is scheduled, and every command it runs has a time limit, but for
\* docker inspect: no step of it is enabled while that hangs, nor while it polls the client.
GpuGuardFairness == WF_guard(Block \/ GuardStep)

GpuGuardSpec == GpuGuardInit /\ [][GpuGuardNext]_guardVars /\ GpuGuardFairness

-----------------------------------------------------------------------------
\* Type correctness, and what the report says at each end of the guard: a run that returned
\* has a final word, one that raised may have been left without.
GuardTypeOK ==
  /\ monitor.samples \in 0 .. MaxSamples /\ monitor.slow \in 0 .. MaxSamples
  /\ monitor.errors \in 0 .. MaxQueryErrors
  /\ monitor.event \in Events
  /\ guard.pc = "idle" => report = "absent"
  /\ guard.pc = "returned" => report \in {"complete", "safety_abort"}
  /\ guard.pc = "raised" =>
       report \in {"checking", "running", "blocked_before_start", "failed", "safety_abort"}

\* A report that says complete speaks of a container with the resolved image that ended
\* by itself with code 0 on the GPU of the preflight, under a monitor that sampled it, and
\* whose last word, if it ended in time, was no blocking event.
CompleteIsGuarded ==
  report = "complete" =>
    /\ guard.image /\ docker.client = "completed" /\ docker.container = "ended"
    /\ ~drifted
    /\ monitor.samples > 0 /\ monitor.checks > 0
    /\ guard.joined => ~EventIsBlocking /\ ~monitor.failed

\* Under the strict policy a static signal that the monitor saw in time is never part of a
\* complete run; under the workstation policy it is recorded and never the reason of an abort.
SignalsFollowPolicy ==
  /\ guard.policy = "legacy_strict" /\ guard.joined /\ monitor.signalled =>
       report # "complete"
  /\ guard.policy = "workstation_managed" => monitor.event # "static"

\* A complete report comes with the complete receipt of the same run, so no second run on
\* an artifact root is ever complete.
CompleteHasReceipt ==
  report = "complete" => artifactReceipt = [run |-> "this", status |-> "complete"]

\* A guard that comes to its verdict without an exception has no client any more; and once
\* docker has carried out the last removal of a stop, nothing of the run is running or can
\* still start.  A container that was being created then appears afterwards, and stays.
StoppedIsRemoved ==
  /\ guard.pc \in {"join", "reasons", "status", "receipt", "report", "returned"} /\ ~guard.raised =>
       docker.client # "alive"
  /\ guard.removed => docker.container \in {"none", "creating", "left", "gone"}

\* The safety of a guarded run: what its report, its receipt and its container say of it.
GuardSafe ==
  /\ GuardTypeOK /\ CompleteIsGuarded /\ SignalsFollowPolicy /\ CompleteHasReceipt
  /\ StoppedIsRemoved

\* The guard waits without a limit for the client only, as long as no blocking event came,
\* and for a docker inspect that hangs: in any other state it ends, and it stops the
\* client before (StoppedIsRemoved) or raises what kept it from that.
GuardStops ==
  LET Watches == guard.pc = "poll" /\ ~EventIsBlocking IN
  guard.pc # "idle" /\ ~Watches ~> Ended \/ Watches \/ guard.pc = "hanging"
=============================================================================
