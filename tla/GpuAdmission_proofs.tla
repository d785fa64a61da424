------------------------- MODULE GpuAdmission_proofs -------------------------
(***************************************************************************)
(* Proofs about what lets a container onto the GPU and watches it there:   *)
(* for any interval of identity checks and any limits of the monitor, any  *)
(* readings and ages of the re-entry evidence, any number of sessions,     *)
(* receipts, nonces and smoke processes, any devices, samples, tolerance   *)
(* and detections of a smoke, and any number of CAVIAR runs, frames and    *)
(* edits.                                                                  *)
(***************************************************************************)
EXTENDS GpuAdmission, FiniteSetTheorems, WellFoundedInduction, TLAPS

-----------------------------------------------------------------------------
(* A guarded run                                                           *)

\* Where the main thread may be, and what a run may end as.
Steps ==
  {"idle", "checking", "start", "inspect", "hanging", "poll", "cleanup", "interrupt", "force",
   "sigkill", "remove", "stop monitor", "join", "reasons", "status", "receipt", "report",
   "returned", "raised", "dead"}

Statuses == {"none", "complete", "failed", "safety_abort"}

\* The threads and docker, in any configuration.
GuardRecord ==
  [pc : Steps, policy : Policies, raised : BOOLEAN, image : BOOLEAN, reasons : BOOLEAN,
   status : Statuses, joined : BOOLEAN, final : BOOLEAN, removed : BOOLEAN]

MonitorRecord ==
  [pc : {"off", "query", "wait", "done"}, stop : BOOLEAN, samples : Nat, errors : Nat,
   failed : BOOLEAN, slow : Nat, signalled : BOOLEAN, event : Events, checks : Nat]

DockerRecord ==
  [client : {"none", "alive", "completed", "failed"},
   container : {"none", "creating", "running", "ended", "left", "gone"},
   image : {"resolved", "other"}]

Shapes ==
  /\ guard \in GuardRecord /\ monitor \in MonitorRecord /\ docker \in DockerRecord
  /\ drifted \in BOOLEAN

\* The counters of the monitor keep within their limits while it runs.
Counters ==
  /\ monitor.samples <= MaxSamples /\ monitor.slow <= monitor.samples
  /\ monitor.errors <= MaxQueryErrors
  /\ monitor.pc \in {"query", "wait"} => monitor.errors < MaxQueryErrors

\* Events are those of the policy, which is settled before the monitor starts, and a joined
\* monitor has ended.
Watching ==
  /\ guard.pc \in {"idle", "checking", "start"} => monitor = IdleMonitor
  /\ guard.policy = "workstation_managed" => monitor.event # "static"
  /\ guard.policy = "legacy_strict" /\ monitor.signalled => monitor.event # "none"
  /\ guard.joined =>
       /\ guard.pc \in {"reasons", "status", "receipt", "report", "returned", "raised", "dead"}
       /\ monitor.pc \in {"off", "done"}

\* The run has a reason to fail that stays: an exception or an event.
Doomed == guard.raised \/ monitor.event # "none"

\* A stop belongs to a run that is doomed.  Nothing is removed for good before the client
\* is gone, it is gone behind the stop unless that raised, and what was removed does not run
\* again.  A client that completed elsewhere leaves a container that ended.
Stopping ==
  /\ guard.pc \in {"interrupt", "force", "sigkill", "remove"} => Doomed
  /\ guard.pc = "cleanup" /\ docker.client = "alive" => Doomed
  /\ ~Ended /\ docker.client = "completed" => docker.container = "ended" \/ Doomed
  /\ guard.pc = "remove" => docker.client # "alive"
  /\ guard.pc \in {"stop monitor", "join", "reasons", "status", "receipt", "report", "returned"} =>
       docker.client # "alive" \/ guard.raised
  /\ guard.pc \in {"idle", "checking", "start", "inspect", "hanging"} => ~guard.removed
  /\ guard.removed =>
       docker.client # "alive" /\ docker.container \in {"none", "creating", "left", "gone"}

\* Behind the inspection the image is known, unless the run raised.
Inspection ==
  guard.pc \in {"poll", "cleanup", "interrupt", "force", "sigkill", "remove", "stop monitor",
                "join", "reasons"} => guard.image \/ guard.raised

\* What the reasons found stays true while the report is written.
Clean ==
  guard.pc \in {"status", "receipt", "report", "returned"} /\ ~guard.reasons =>
    /\ guard.image /\ docker.client = "completed" /\ docker.container = "ended" /\ ~drifted
    /\ monitor.samples > 0 /\ monitor.checks > 0
    /\ guard.joined => monitor.event = "none" /\ ~monitor.failed

\* The status agrees with the reasons, the receipt with the status, the report with both.
Reporting ==
  /\ guard.pc \in {"receipt", "report"} =>
       /\ guard.status # "none"
       /\ guard.status = "complete" => ~guard.reasons
       /\ guard.status = "failed" => guard.reasons
  /\ guard.pc \in {"report", "returned"} /\ ~guard.reasons =>
       artifactReceipt = [run |-> "this", status |-> guard.status]
  /\ report = "complete" =>
       guard.pc = "returned" /\ ~guard.reasons /\ guard.status = "complete"
  /\ guard.pc = "idle" => report = "absent"
  /\ guard.pc # "idle" /\ ~Ended => report \in {"checking", "running"}
  /\ guard.pc = "returned" => report \in {"complete", "safety_abort"}
  /\ guard.pc = "raised" =>
       report \in {"checking", "running", "blocked_before_start", "failed", "safety_abort"}

GuardInv ==
  /\ Shapes /\ Counters /\ Watching /\ Stopping /\ Inspection /\ Clean /\ Reporting

LEMMA GuardInitHolds == GpuGuardInit => GuardInv
<1> SUFFICES ASSUME GpuGuardInit PROVE GuardInv
  OBVIOUS
<1> USE DEF GpuGuardInit, IdleGuard, IdleMonitor
<1>1. Shapes
  BY DEF Shapes, GuardRecord, MonitorRecord, DockerRecord, NoDocker, Steps, Statuses,
     Policies, Events
<1>2. Counters /\ Watching
  BY GpuGuardAssumption DEF Counters, Watching, IdleMonitor
<1>3. Stopping /\ Inspection /\ Clean
  BY DEF Stopping, Ended, Inspection, Clean, NoDocker
<1>4. Reporting
  BY DEF Reporting, Ended
<1>5. QED
  BY <1>1, <1>2, <1>3, <1>4 DEF GuardInv

\* The invariant is strong enough.
LEMMA Safe == GuardInv => GuardSafe
<1> SUFFICES ASSUME GuardInv PROVE GuardSafe
  OBVIOUS
<1> USE DEF GuardInv
<1>1. EventIsBlocking => monitor.event # "none"
  BY DEF EventIsBlocking
<1>2. GuardTypeOK
  BY GpuGuardAssumption DEF GuardTypeOK, Shapes, MonitorRecord, Counters, Reporting
<1>3. CompleteIsGuarded
  BY <1>1 DEF CompleteIsGuarded, Reporting, Clean
<1>4. SignalsFollowPolicy
  BY DEF SignalsFollowPolicy, Watching, Reporting, Clean
<1>5. CompleteHasReceipt
  BY DEF CompleteHasReceipt, Reporting
<1>6. StoppedIsRemoved
  BY DEF StoppedIsRemoved, Stopping
<1>7. QED
  BY <1>2, <1>3, <1>4, <1>5, <1>6 DEF GuardSafe

-----------------------------------------------------------------------------
(* The main thread                                                         *)

\* A step of the main thread that goes on to another step only.
LEMMA Moved ==
  ASSUME GuardInv, NEW to \in Steps, guard' = [guard EXCEPT !.pc = to]
  PROVE  /\ guard' \in GuardRecord
         /\ guard'.pc = to /\ guard'.policy = guard.policy /\ guard'.raised = guard.raised
         /\ guard'.image = guard.image /\ guard'.reasons = guard.reasons
         /\ guard'.status = guard.status /\ guard'.joined = guard.joined
         /\ guard'.removed = guard.removed
BY DEF GuardInv, Shapes, GuardRecord

LEMMA StartGuardHolds == ASSUME GuardInv, StartGuard PROVE GuardInv'
<1>1. PICK policy \in Policies : guard' = [guard EXCEPT !.pc = "checking", !.policy = policy]
  BY DEF StartGuard
<1>2. /\ guard' \in GuardRecord
      /\ guard'.pc = "checking" /\ guard'.policy = policy /\ guard'.raised = guard.raised
      /\ guard'.image = guard.image /\ guard'.reasons = guard.reasons
      /\ guard'.status = guard.status /\ guard'.joined = guard.joined
      /\ guard'.removed = guard.removed
  BY <1>1 DEF GuardInv, Shapes, GuardRecord, Steps
<1>3. /\ guard.pc = "idle" /\ report' = "checking"
      /\ UNCHANGED <<monitor, docker, drifted, artifactReceipt>>
  BY DEF StartGuard, GuardAt, Report
<1>4. monitor = IdleMonitor /\ IdleMonitor.event = "none" /\ ~IdleMonitor.signalled
  BY <1>3 DEF GuardInv, Watching, IdleMonitor
<1>5. QED
  BY <1>2, <1>3, <1>4 DEF GuardInv, Shapes, Counters, Watching, Stopping, Ended, Inspection, Clean,
     Reporting, Doomed

\* The call is over: of the guard only the removal is remembered.
LEMMA LeaveHolds ==
  ASSUME GuardInv, NEW end \in {"raised", "dead"}, Leave(end),
         UNCHANGED <<docker, drifted, artifactReceipt>>, report' # "complete",
         end = "raised" =>
           report' \in {"checking", "running", "blocked_before_start", "failed", "safety_abort"}
  PROVE  GuardInv'
<1>1. /\ guard' \in GuardRecord /\ guard'.pc = end /\ guard'.policy = "workstation_managed"
      /\ ~guard'.joined /\ guard'.removed = guard.removed
  BY DEF Leave, IdleGuard, GuardInv, Shapes, GuardRecord, Steps, Statuses, Policies
<1>2. /\ monitor' \in MonitorRecord /\ monitor'.event = "none" /\ monitor'.pc = "off"
      /\ monitor'.samples = 0 /\ monitor'.slow = 0 /\ monitor'.errors = 0
  BY DEF Leave, IdleMonitor, MonitorRecord, Events
<1>3. Counters'
  BY <1>2, GpuGuardAssumption DEF Counters
<1>4. Shapes' /\ Watching'
  BY <1>1, <1>2 DEF GuardInv, Shapes, Watching
<1>5. Stopping' /\ Inspection' /\ Clean'
  BY <1>1 DEF GuardInv, Stopping, Ended, Inspection, Clean
<1>6. Reporting'
  BY <1>1 DEF Reporting, Ended
<1>7. QED
  BY <1>3, <1>4, <1>5, <1>6 DEF GuardInv

LEMMA BlockHolds == ASSUME GuardInv, Block PROVE GuardInv'
  BY LeaveHolds DEF Block, Report

LEMMA UnhandledHolds == ASSUME GuardInv, Unhandled PROVE GuardInv'
<1>1. report \in {"checking", "running"}
  BY DEF Unhandled, GuardInv, Reporting, Ended
<1>2. QED
  BY <1>1, LeaveHolds DEF Unhandled

LEMMA AllowHolds == ASSUME GuardInv, NEW events, NEW diagnostics, Allow(events, diagnostics) PROVE GuardInv'
<1>1. guard' = [guard EXCEPT !.pc = "start"] /\ "start" \in Steps /\ guard.pc = "checking"
  BY DEF Allow, GuardTo, GuardAt, Steps
<1>2. /\ report' = "running"
      /\ UNCHANGED <<monitor, docker, drifted, artifactReceipt>>
  BY DEF Allow, Report
<1>3. QED
  BY <1>1, <1>2, Moved
     DEF GuardInv, Shapes, Counters, Watching, Stopping, Ended, Inspection, Clean, Reporting, Doomed

LEMMA StartClientHolds == ASSUME GuardInv, NEW ok \in BOOLEAN, StartClient(ok) PROVE GuardInv'
<1>1. /\ guard.pc = "start" /\ monitor = IdleMonitor
      /\ monitor' \in {monitor, [monitor EXCEPT !.pc = "query"]}
      /\ UNCHANGED <<drifted, report, artifactReceipt>>
  BY DEF StartClient, GuardAt, GuardInv, Watching
<1>2. /\ monitor' \in MonitorRecord
      /\ monitor'.samples = 0 /\ monitor'.slow = 0 /\ monitor'.errors = 0
      /\ monitor'.event = "none" /\ ~monitor'.signalled
      /\ monitor.event = "none"
  <2>1. CASE monitor' = monitor
    BY <1>1, <2>1 DEF IdleMonitor, MonitorRecord, Events
  <2>2. CASE monitor' = [monitor EXCEPT !.pc = "query"]
    BY <1>1, <2>2 DEF IdleMonitor, MonitorRecord, Events
  <2>3. QED
    BY <1>1, <2>1, <2>2
<1>3. Counters'
  BY <1>2, GpuGuardAssumption DEF Counters
<1>4. CASE ok
  <2>1. guard' = [guard EXCEPT !.pc = "inspect"] /\ "inspect" \in Steps
    BY <1>4 DEF StartClient, GuardTo, Steps
  <2>2. docker' \in DockerRecord /\ docker'.client = "alive" /\ docker'.container = docker.container
    BY <1>4 DEF StartClient, GuardInv, Shapes, DockerRecord
  <2>3. QED
    BY <1>1, <1>2, <1>3, <2>1, <2>2, Moved
       DEF GuardInv, Shapes, Watching, Stopping, Ended, Inspection, Clean, Reporting, Doomed
<1>5. CASE ~ok
  <2>1. /\ guard' \in GuardRecord
        /\ guard'.pc = "cleanup" /\ guard'.policy = guard.policy /\ guard'.raised
        /\ guard'.removed = guard.removed
        /\ guard'.joined = guard.joined /\ docker' = docker
    BY <1>5 DEF StartClient, GuardInv, Shapes, GuardRecord, Steps
  <2>2. QED
    BY <1>1, <1>2, <1>3, <2>1
       DEF GuardInv, Shapes, Watching, Stopping, Ended, Inspection, Clean, Reporting, Doomed
<1>6. QED
  BY <1>4, <1>5

LEMMA InspectedHolds == ASSUME GuardInv, Inspected PROVE GuardInv'
<1>1. /\ guard.pc = "inspect" /\ report' = "running"
      /\ UNCHANGED <<monitor, docker, drifted, artifactReceipt>>
  BY DEF Inspected, GuardAt, Report
<1>2. /\ guard' \in GuardRecord /\ guard'.pc = "poll" /\ guard'.image
      /\ guard'.policy = guard.policy /\ guard'.raised = guard.raised
      /\ guard'.joined = guard.joined /\ guard'.removed = guard.removed
  BY DEF Inspected, GuardInv, Shapes, GuardRecord, Steps
<1>3. QED
  BY <1>1, <1>2 DEF GuardInv, Shapes, Counters, Watching, Stopping, Ended, Inspection, Clean,
     Reporting, Doomed

\* An exception on the way to the cleanup, before anything is stopped.
LEMMA WaitRaises ==
  ASSUME GuardInv, guard.pc \in {"inspect", "hanging", "poll"},
         guard' = [guard EXCEPT !.pc = "cleanup", !.raised = TRUE],
         UNCHANGED <<monitor, docker, drifted, report, artifactReceipt>>
  PROVE  GuardInv'
<1>1. /\ guard' \in GuardRecord /\ guard'.pc = "cleanup" /\ guard'.raised
      /\ guard'.policy = guard.policy
      /\ guard'.joined = guard.joined /\ guard'.removed = guard.removed
  BY DEF GuardInv, Shapes, GuardRecord, Steps
<1>2. QED
  BY <1>1 DEF GuardInv, Shapes, Counters, Watching, Stopping, Ended, Inspection, Clean,
     Reporting, Doomed

LEMMA InspectFailsHolds == ASSUME GuardInv, InspectFails PROVE GuardInv'
  BY WaitRaises DEF InspectFails, GuardAt

LEMMA InterruptedHolds == ASSUME GuardInv, Interrupted PROVE GuardInv'
  BY WaitRaises DEF Interrupted

LEMMA InspectHangsHolds == ASSUME GuardInv, InspectHangs PROVE GuardInv'
<1>1. \E to \in {"inspect", "hanging"} : guard' = [guard EXCEPT !.pc = to]
  BY DEF InspectHangs, GuardTo
<1>2. guard.pc \in {"inspect", "hanging"} /\ {"inspect", "hanging"} \subseteq Steps
  BY DEF InspectHangs, GuardAt, Steps
<1>3. UNCHANGED <<monitor, docker, drifted, report, artifactReceipt>>
  BY DEF InspectHangs
<1>4. PICK to \in {"inspect", "hanging"} :
        /\ guard' \in GuardRecord
        /\ guard'.pc = to /\ guard'.policy = guard.policy /\ guard'.raised = guard.raised
        /\ guard'.image = guard.image /\ guard'.reasons = guard.reasons
        /\ guard'.status = guard.status /\ guard'.joined = guard.joined
        /\ guard'.removed = guard.removed
  BY <1>1, <1>2, Moved
<1>5. Shapes' /\ Counters' /\ Watching'
  BY <1>2, <1>3, <1>4 DEF GuardInv, Shapes, Counters, Watching
<1>6. Stopping'
  BY <1>2, <1>3, <1>4 DEF GuardInv, Stopping, Ended, Doomed
<1>7. Inspection' /\ Clean' /\ Reporting'
  BY <1>2, <1>3, <1>4 DEF GuardInv, Inspection, Clean, Reporting, Ended
<1>8. QED
  BY <1>5, <1>6, <1>7 DEF GuardInv

LEMMA PollExitedHolds == ASSUME GuardInv, PollExited PROVE GuardInv'
<1>1. guard' = [guard EXCEPT !.pc = "cleanup"] /\ "cleanup" \in Steps /\ guard.pc = "poll"
  BY DEF PollExited, GuardTo, GuardAt, Steps
<1>2. docker.client # "alive" /\ UNCHANGED <<monitor, docker, drifted, report, artifactReceipt>>
  BY DEF PollExited, Report
<1>3. QED
  BY <1>1, <1>2, Moved
     DEF GuardInv, Shapes, Counters, Watching, Stopping, Ended, Inspection, Clean, Reporting, Doomed

LEMMA PollBlockingHolds == ASSUME GuardInv, PollBlocking PROVE GuardInv'
<1>1. guard' = [guard EXCEPT !.pc = "interrupt"] /\ "interrupt" \in Steps /\ guard.pc = "poll"
  BY DEF PollBlocking, GuardTo, GuardAt, Steps
<1>2. monitor.event # "none" /\ UNCHANGED <<monitor, docker, drifted, report, artifactReceipt>>
  BY DEF PollBlocking, Report, EventIsBlocking
<1>3. QED
  BY <1>1, <1>2, Moved
     DEF GuardInv, Shapes, Counters, Watching, Stopping, Ended, Inspection, Clean, Reporting, Doomed

LEMMA CleanupHolds == ASSUME GuardInv, Cleanup PROVE GuardInv'
<1>1. guard.pc = "cleanup" /\ UNCHANGED <<monitor, docker, drifted, report, artifactReceipt>>
  BY DEF Cleanup, GuardAt
<1>2. /\ guard' \in GuardRecord
      /\ guard'.pc = IF docker.client = "alive" THEN "interrupt" ELSE "stop monitor"
      /\ guard'.policy = guard.policy /\ guard'.raised = guard.raised
      /\ guard'.image = guard.image /\ guard'.reasons = guard.reasons
      /\ guard'.joined = guard.joined /\ guard'.removed = guard.removed
  BY DEF Cleanup, GuardInv, Shapes, GuardRecord, Steps
<1>3. QED
  BY <1>1, <1>2 DEF GuardInv, Shapes, Counters, Watching, Stopping, Ended, Inspection, Clean,
     Reporting, Doomed

\* What docker rm -f leaves.
LEMMA Removal ==
  ASSUME GuardInv, NEW found \in BOOLEAN
  PROVE  /\ Without(found) \in DockerRecord
         /\ Without(found).client = docker.client
         /\ Without(found).container \in {docker.container, "gone"}
         /\ found => Without(found).container \in {"none", "creating", "gone"}
BY DEF Without, Published, GuardInv, Shapes, DockerRecord

\* A step of the stop: the run is doomed, whatever becomes of the client and the container,
\* as long as nothing is started.
LEMMA StopGoesOn ==
  ASSUME GuardInv, guard.pc \in {"interrupt", "force", "sigkill"},
         NEW to \in {"force", "sigkill", "remove"}, guard' = [guard EXCEPT !.pc = to],
         docker' \in DockerRecord,
         docker'.container \in {docker.container, "gone"},
         docker'.client = "alive" => docker.client = "alive" /\ to # "remove",
         UNCHANGED <<monitor, drifted, report, artifactReceipt>>
  PROVE  GuardInv'
<1>1. to \in Steps
  BY DEF Steps
<1>2. Shapes' /\ Counters' /\ Watching'
  BY <1>1, Moved DEF GuardInv, Shapes, Counters, Watching
<1>3. Stopping'
  BY <1>1, Moved DEF GuardInv, Stopping, Ended, Doomed
<1>4. Inspection' /\ Clean' /\ Reporting'
  BY <1>1, Moved DEF GuardInv, Inspection, Clean, Reporting, Ended
<1>5. QED
  BY <1>2, <1>3, <1>4 DEF GuardInv

LEMMA InterruptHolds == ASSUME GuardInv, NEW ok \in BOOLEAN, Interrupt(ok) PROVE GuardInv'
<1>1. guard.pc = "interrupt" /\ UNCHANGED <<monitor, drifted, report, artifactReceipt>>
  BY DEF Interrupt, GuardAt
<1>2. CASE ok
  <2>1. /\ docker' \in DockerRecord /\ docker'.container = docker.container
        /\ docker'.client # "alive"
    BY <1>2 DEF Interrupt, GuardInv, Shapes, DockerRecord
  <2>2. guard' = [guard EXCEPT !.pc = "remove"]
    BY <1>2 DEF Interrupt, GuardTo
  <2>3. QED
    BY <1>1, <2>1, <2>2, StopGoesOn
<1>3. CASE ~ok
  <2>1. docker' = docker /\ docker \in DockerRecord /\ docker.client = "alive"
    BY <1>3 DEF Interrupt, GuardInv, Shapes
  <2>2. guard' = [guard EXCEPT !.pc = "force"]
    BY <1>3 DEF Interrupt, GuardTo
  <2>3. QED
    BY <1>1, <2>1, <2>2, StopGoesOn
<1>4. QED
  BY <1>2, <1>3

LEMMA ForceRemoveHolds ==
  ASSUME GuardInv, NEW gone \in BOOLEAN, NEW ended \in BOOLEAN, ForceRemove(gone, ended)
  PROVE  GuardInv'
<1>1. guard.pc = "force" /\ UNCHANGED <<monitor, drifted, report, artifactReceipt>>
  BY DEF ForceRemove, GuardAt
<1>2. /\ docker' \in DockerRecord /\ docker'.container \in {docker.container, "gone"}
      /\ docker'.client = "alive" => docker.client = "alive"
  <2> DEFINE client == IF Without(gone).client = "alive" /\ ended THEN "failed"
                       ELSE Without(gone).client
  <2>1. docker' = [Without(gone) EXCEPT !.client = client]
    BY DEF ForceRemove
  <2>2. client \in {Without(gone).client, "failed"}
    OBVIOUS
  <2> HIDE DEF client
  <2>3. QED
    BY <2>1, <2>2, Removal DEF DockerRecord
<1>3. guard' = [guard EXCEPT !.pc = IF docker'.client = "alive" THEN "sigkill" ELSE "remove"]
  BY DEF ForceRemove, GuardTo
<1>4. CASE docker'.client = "alive"
  BY <1>1, <1>2, <1>3, <1>4, StopGoesOn
<1>5. CASE docker'.client # "alive"
  BY <1>1, <1>2, <1>3, <1>5, StopGoesOn
<1>6. QED
  BY <1>4, <1>5

LEMMA SigkillHolds == ASSUME GuardInv, Sigkill PROVE GuardInv'
<1>1. guard.pc = "sigkill" /\ UNCHANGED <<monitor, drifted, report, artifactReceipt>>
  BY DEF Sigkill, GuardAt
<1>2. /\ docker' \in DockerRecord /\ docker'.container = docker.container
      /\ docker'.client # "alive"
  BY DEF Sigkill, GuardInv, Shapes, DockerRecord
<1>3. guard' = [guard EXCEPT !.pc = "remove"]
  BY DEF Sigkill, GuardTo
<1>4. QED
  BY <1>1, <1>2, <1>3, StopGoesOn

LEMMA RemoveContainerHolds == ASSUME GuardInv, NEW gone \in BOOLEAN, RemoveContainer(gone) PROVE GuardInv'
<1>1. guard.pc = "remove" /\ UNCHANGED <<monitor, drifted, report, artifactReceipt>>
  BY DEF RemoveContainer, GuardAt
<1>2. docker' = Without(gone) /\ docker.client # "alive"
  BY DEF RemoveContainer, GuardAt, GuardInv, Stopping
<1>3. /\ guard' \in GuardRecord /\ guard'.pc \in {"stop monitor", "cleanup"}
      /\ guard'.removed = gone
      /\ guard'.policy = guard.policy /\ guard'.raised = guard.raised
      /\ guard'.image = guard.image /\ guard'.joined = guard.joined
  BY DEF RemoveContainer, StopEnds, GuardInv, Shapes, GuardRecord, Steps
<1>4. Shapes' /\ Counters' /\ Watching'
  BY <1>1, <1>2, <1>3, Removal DEF GuardInv, Shapes, Counters, Watching
<1>5. Stopping'
  BY <1>1, <1>2, <1>3, Removal DEF GuardInv, Stopping, Ended, Doomed
<1>6. Inspection' /\ Clean' /\ Reporting'
  BY <1>1, <1>2, <1>3, Removal DEF GuardInv, Inspection, Clean, Reporting, Ended
<1>7. QED
  BY <1>4, <1>5, <1>6 DEF GuardInv

LEMMA StopRaisesHolds == ASSUME GuardInv, NEW gone \in BOOLEAN, StopRaises(gone) PROVE GuardInv'
<1>1. /\ guard.pc \in {"interrupt", "force", "sigkill", "remove"}
      /\ UNCHANGED <<monitor, drifted, report, artifactReceipt>>
  BY DEF StopRaises
<1>2. /\ docker' \in DockerRecord /\ docker'.client = docker.client
      /\ docker'.container \in {docker.container, "gone"}
  <2>1. PICK found \in BOOLEAN : docker' = Without(found)
    BY DEF StopRaises
  <2>2. QED
    BY <2>1, Removal
<1>3. /\ guard' \in GuardRecord /\ guard'.pc \in {"stop monitor", "cleanup"}
      /\ guard'.removed = guard.removed
      /\ guard'.policy = guard.policy /\ guard'.raised
      /\ guard'.image = guard.image /\ guard'.joined = guard.joined
  BY DEF StopRaises, StopEnds, GuardInv, Shapes, GuardRecord, Steps
<1>4. Shapes' /\ Counters' /\ Watching'
  BY <1>1, <1>2, <1>3 DEF GuardInv, Shapes, Counters, Watching
<1>5. Stopping'
  BY <1>1, <1>2, <1>3 DEF GuardInv, Shapes, DockerRecord, Stopping, Ended, Doomed
<1>6. Inspection' /\ Clean' /\ Reporting'
  BY <1>1, <1>2, <1>3 DEF GuardInv, Inspection, Clean, Reporting, Ended
<1>7. QED
  BY <1>4, <1>5, <1>6 DEF GuardInv

LEMMA StopMonitorHolds == ASSUME GuardInv, StopMonitor PROVE GuardInv'
<1>1. guard' = [guard EXCEPT !.pc = "join"] /\ "join" \in Steps /\ guard.pc = "stop monitor"
  BY DEF StopMonitor, GuardTo, GuardAt, Steps
<1>2. /\ monitor' \in MonitorRecord /\ monitor'.pc = monitor.pc
      /\ monitor'.samples = monitor.samples /\ monitor'.slow = monitor.slow
      /\ monitor'.errors = monitor.errors /\ monitor'.signalled = monitor.signalled
      /\ monitor'.event = monitor.event /\ monitor'.checks = monitor.checks
  BY DEF StopMonitor, GuardInv, Shapes, MonitorRecord
<1>3. UNCHANGED <<docker, drifted, report, artifactReceipt>>
  BY DEF StopMonitor
<1>4. /\ guard' \in GuardRecord /\ guard'.pc = "join" /\ guard'.policy = guard.policy
      /\ guard'.raised = guard.raised /\ guard'.image = guard.image
      /\ guard'.joined = guard.joined /\ guard'.removed = guard.removed
  BY <1>1 DEF GuardInv, Shapes, GuardRecord
<1>5. Shapes' /\ Counters' /\ Watching'
  BY <1>1, <1>2, <1>3, <1>4 DEF GuardInv, Shapes, Counters, Watching
<1>6. Stopping'
  BY <1>1, <1>2, <1>3, <1>4 DEF GuardInv, Stopping, Ended, Doomed
<1>7. Inspection' /\ Clean' /\ Reporting'
  BY <1>1, <1>2, <1>3, <1>4 DEF GuardInv, Inspection, Clean, Reporting, Ended
<1>8. QED
  BY <1>5, <1>6, <1>7 DEF GuardInv

LEMMA JoinHolds == ASSUME GuardInv, NEW ended \in BOOLEAN, Join(ended) PROVE GuardInv'
<1>1. guard.pc = "join" /\ UNCHANGED <<monitor, docker, drifted, report, artifactReceipt>>
  BY DEF Join, GuardAt
<1>2. /\ guard' \in GuardRecord /\ guard'.pc = "reasons"
      /\ guard'.joined => monitor.pc \in {"off", "done"}
      /\ guard'.policy = guard.policy /\ guard'.raised = guard.raised
      /\ guard'.image = guard.image /\ guard'.removed = guard.removed
  BY DEF Join, GuardInv, Shapes, GuardRecord, Steps
<1>3. QED
  BY <1>1, <1>2 DEF GuardInv, Shapes, Counters, Watching, Stopping, Ended, Inspection, Clean,
     Reporting, Doomed

\* No failure reason: nothing was raised or seen, and the client completed.
LEMMA ReasonsHolds == ASSUME GuardInv, NEW clean \in BOOLEAN, Reasons(clean) PROVE GuardInv'
<1>1. guard.pc = "reasons" /\ UNCHANGED <<monitor, docker, drifted, report, artifactReceipt>>
  BY DEF Reasons, GuardAt
<1>2. /\ guard' \in GuardRecord /\ guard'.pc = "status"
      /\ ~guard'.reasons => ~FailureReasons
      /\ guard'.policy = guard.policy /\ guard'.raised = guard.raised
      /\ guard'.image = guard.image /\ guard'.removed = guard.removed
      /\ guard'.joined = guard.joined
  <2>1. (FailureReasons \/ ~clean) \in BOOLEAN
    BY DEF FailureReasons
  <2>2. QED
    BY <2>1 DEF Reasons, GuardInv, Shapes, GuardRecord, Steps
<1>3. ~FailureReasons => /\ ~guard.raised /\ docker.client = "completed" /\ ~drifted
                         /\ monitor.event = "none"
                         /\ ~monitor.failed /\ monitor.samples > 0 /\ monitor.checks > 0
  BY DEF FailureReasons, TelemetryTrusted, EventIsBlocking, GuardInv, Watching
<1>4. QED
  BY <1>1, <1>2, <1>3 DEF GuardInv, Shapes, Counters, Watching, Stopping, Ended, Inspection, Clean,
     Reporting, Doomed

LEMMA StatusHolds == ASSUME GuardInv, Status PROVE GuardInv'
<1>1. guard.pc = "status" /\ UNCHANGED <<monitor, docker, drifted, report, artifactReceipt>>
  BY DEF Status, GuardAt
<1>2. /\ guard' \in GuardRecord /\ guard'.pc = "receipt" /\ guard'.reasons = guard.reasons
      /\ guard'.status \in {"safety_abort", "failed", "complete"}
      /\ guard'.status = "complete" => ~guard.reasons
      /\ guard'.status = "failed" => guard.reasons
      /\ guard'.policy = guard.policy /\ guard'.raised = guard.raised
      /\ guard'.image = guard.image /\ guard'.removed = guard.removed
      /\ guard'.joined = guard.joined
  BY DEF Status, GuardInv, Shapes, GuardRecord, Steps, Statuses
<1>3. QED
  BY <1>1, <1>2 DEF GuardInv, Shapes, Counters, Watching, Stopping, Ended, Inspection, Clean,
     Reporting, Doomed

\* The run failed while it wrote its receipt.
LEMMA ReceiptFails ==
  ASSUME GuardInv, guard.pc = "receipt",
         guard' = [guard EXCEPT !.pc = "report", !.reasons = TRUE, !.status = "failed"],
         UNCHANGED <<monitor, docker, drifted, report>>
  PROVE  GuardInv'
<1>1. /\ guard' \in GuardRecord /\ guard'.pc = "report" /\ guard'.reasons
      /\ guard'.status = "failed"
      /\ guard'.policy = guard.policy /\ guard'.raised = guard.raised
      /\ guard'.image = guard.image /\ guard'.removed = guard.removed
      /\ guard'.joined = guard.joined
  BY DEF GuardInv, Shapes, GuardRecord, Steps, Statuses
<1>2. QED
  BY <1>1 DEF GuardInv, Shapes, Counters, Watching, Stopping, Ended, Inspection, Clean,
     Reporting, Doomed

LEMMA WriteArtifactReceiptHolds ==
  ASSUME GuardInv, NEW ok \in BOOLEAN, WriteArtifactReceipt(ok) PROVE GuardInv'
<1>1. guard.pc = "receipt" /\ UNCHANGED <<monitor, docker, drifted, report>>
  BY DEF WriteArtifactReceipt, GuardAt
<1> DEFINE written == ok /\ artifactReceipt.status = "absent" /\ monitor.samples > 0
<1>2. CASE written
  <2>1. guard' = [guard EXCEPT !.pc = "report"] /\ "report" \in Steps
    BY <1>2 DEF WriteArtifactReceipt, GuardTo, Steps
  <2>2. artifactReceipt' = [run |-> "this", status |-> guard.status]
    BY <1>2 DEF WriteArtifactReceipt
  <2>3. QED
    BY <1>1, <2>1, <2>2, Moved
       DEF GuardInv, Shapes, Counters, Watching, Stopping, Ended, Inspection, Clean, Reporting, Doomed
<1>3. CASE ~written
  BY <1>1, <1>3, ReceiptFails DEF WriteArtifactReceipt
<1>4. QED
  BY <1>2, <1>3

LEMMA PinFailsHolds == ASSUME GuardInv, PinFails PROVE GuardInv'
  BY ReceiptFails DEF PinFails, GuardAt

LEMMA FinalReportHolds == ASSUME GuardInv, FinalReport PROVE GuardInv'
<1>1. /\ guard.pc = "report" /\ report' = guard.status
      /\ UNCHANGED <<docker, drifted, artifactReceipt>>
  BY DEF FinalReport, GuardAt, Report
<1>2. CASE guard.reasons
  <2>1. Leave("raised")
    BY <1>2 DEF FinalReport
  <2>2. guard.status \in {"failed", "safety_abort"}
    BY <1>1, <1>2 DEF GuardInv, Shapes, GuardRecord, Statuses, Reporting
  <2>3. QED
    BY <1>1, <2>1, <2>2, LeaveHolds
<1>3. CASE ~guard.reasons
  <2>1. guard' = [guard EXCEPT !.pc = "returned"] /\ "returned" \in Steps /\ monitor' = monitor
    BY <1>3 DEF FinalReport, GuardTo, Steps
  <2>2. guard.status \in {"complete", "safety_abort"}
    BY <1>1, <1>3 DEF GuardInv, Shapes, GuardRecord, Statuses, Reporting
  <2>3. QED
    BY <1>1, <1>3, <2>1, <2>2, Moved
       DEF GuardInv, Shapes, Counters, Watching, Stopping, Ended, Inspection, Clean, Reporting, Doomed
<1>4. QED
  BY <1>2, <1>3

-----------------------------------------------------------------------------
(* The monitor thread                                                      *)

\* A step of the monitor: counters go up, what was seen is not forgotten, and every event is
\* one of the policy.
LEMMA MonitorGoesOn ==
  ASSUME GuardInv, monitor.pc \in {"query", "wait"}, monitor' \in MonitorRecord, Counters',
         monitor'.samples >= monitor.samples, monitor'.checks >= monitor.checks,
         monitor.event # "none" => monitor'.event # "none",
         guard.policy = "workstation_managed" => monitor'.event # "static",
         guard.policy = "legacy_strict" /\ monitor'.signalled => monitor'.event # "none",
         UNCHANGED <<guard, docker, drifted, report, artifactReceipt>>
  PROVE  GuardInv'
<1>1. monitor # IdleMonitor /\ ~guard.joined
  BY DEF IdleMonitor, GuardInv, Watching
<1>2. monitor \in MonitorRecord
  BY DEF GuardInv, Shapes
<1>3. /\ monitor'.samples \in Nat /\ monitor.samples \in Nat
      /\ monitor'.checks \in Nat /\ monitor.checks \in Nat
  BY <1>2 DEF MonitorRecord
<1>4. Doomed => Doomed'
  BY DEF Doomed
<1>5. Shapes' /\ Watching'
  BY <1>1 DEF GuardInv, Shapes, Watching
<1>6. Stopping' /\ Inspection'
  BY <1>4 DEF GuardInv, Stopping, Ended, Inspection
<1>7. Clean' /\ Reporting'
  BY <1>1, <1>3 DEF GuardInv, Clean, Reporting, Ended
<1>8. QED
  BY <1>5, <1>6, <1>7 DEF GuardInv

LEMMA SampleHolds ==
  ASSUME GuardInv, NEW sample \in {"good", "signal", "slow", "bad"}, NEW identityOk \in BOOLEAN,
         Sample(sample, identityOk)
  PROVE  GuardInv'
<1> DEFINE n == monitor.samples + 1
           due == n = 1 \/ n % IdentityInterval = 0
           slow == IF sample = "slow" THEN monitor.slow + 1 ELSE 0
           lost == due /\ (~identityOk \/ drifted)
           signal == sample = "signal" \/ slow = SlowdownSamples
           checks == IF due /\ identityOk THEN monitor.checks + 1 ELSE monitor.checks
           seen == [monitor EXCEPT !.samples = n, !.checks = checks]
           abort(event) == [seen EXCEPT !.event = event, !.pc = "done", !.stop = TRUE]
<1>1. /\ monitor.pc = "query" /\ monitor.samples < MaxSamples
      /\ UNCHANGED <<guard, docker, drifted, report, artifactReceipt>>
  BY DEF Sample
<1>2. /\ monitor \in MonitorRecord /\ drifted \in BOOLEAN /\ guard \in GuardRecord
      /\ MaxSamples \in Nat /\ MaxQueryErrors \in Nat \ {0}
  BY GpuGuardAssumption DEF GuardInv, Shapes
<1>3. /\ n \in Nat /\ slow \in Nat /\ slow <= n /\ n <= MaxSamples
      /\ monitor.slow <= n /\ monitor.errors <= MaxQueryErrors
  BY <1>1, <1>2 DEF MonitorRecord, GuardInv, Counters
<1>4. /\ seen \in MonitorRecord /\ seen.samples = n /\ seen.checks >= monitor.checks
      /\ seen.slow = monitor.slow /\ seen.errors = monitor.errors
      /\ seen.event = monitor.event /\ seen.signalled = monitor.signalled
  <2>1. checks \in Nat /\ checks >= monitor.checks
    BY <1>2 DEF MonitorRecord
  <2> HIDE DEF checks, n
  <2>2. QED
    BY <1>2, <1>3, <2>1 DEF MonitorRecord
<1>5. signal \in BOOLEAN
  OBVIOUS
<1> HIDE DEF n, due, slow, lost, signal, checks, seen
<1>6. CASE lost \/ sample = "bad"
  <2>1. monitor' = abort("hard")
    BY <1>6, GpuGuardAssumption DEF Sample, Assessed, n, due, slow, lost, signal, checks, seen
  <2>2. /\ monitor' \in MonitorRecord /\ monitor'.pc = "done" /\ monitor'.event = "hard"
        /\ monitor'.samples = n /\ monitor'.slow = monitor.slow
        /\ monitor'.errors = monitor.errors /\ monitor'.checks = seen.checks
    BY <1>4, <2>1 DEF MonitorRecord, Events
  <2>3. QED
    BY <1>1, <1>2, <1>3, <1>4, <2>2, MonitorGoesOn DEF Counters, n, MonitorRecord
<1>7. CASE ~(lost \/ sample = "bad") /\ signal /\ guard.policy = "legacy_strict"
  <2>1. monitor' = [abort("static") EXCEPT !.signalled = TRUE, !.slow = slow, !.errors = 0]
    BY <1>7 DEF Sample, Assessed, n, due, slow, lost, signal, checks, seen
  <2>2. /\ monitor' \in MonitorRecord /\ monitor'.pc = "done" /\ monitor'.event = "static"
        /\ monitor'.samples = n /\ monitor'.slow = slow
        /\ monitor'.errors = 0 /\ monitor'.checks = seen.checks
    BY <1>3, <1>4, <2>1 DEF MonitorRecord, Events
  <2>3. QED
    BY <1>1, <1>2, <1>3, <1>4, <1>7, <2>2, MonitorGoesOn DEF Counters, n, MonitorRecord
<1>8. CASE ~(lost \/ sample = "bad") /\ ~(signal /\ guard.policy = "legacy_strict")
  <2>1. monitor' = [seen EXCEPT !.signalled = @ \/ signal, !.slow = slow, !.errors = 0,
                                !.pc = "wait"]
    BY <1>8 DEF Sample, Assessed, n, due, slow, lost, signal, checks, seen
  <2>2. (seen.signalled \/ signal) \in BOOLEAN
    BY <1>4, <1>5 DEF MonitorRecord
  <2>3. /\ monitor' \in MonitorRecord /\ monitor'.pc = "wait" /\ monitor'.event = monitor.event
        /\ monitor'.samples = n /\ monitor'.slow = slow
        /\ monitor'.errors = 0 /\ monitor'.checks = seen.checks
        /\ monitor'.signalled = (monitor.signalled \/ signal)
    BY <1>3, <1>4, <2>1, <2>2 DEF MonitorRecord
  <2>4. /\ guard.policy = "workstation_managed" => monitor'.event # "static"
        /\ guard.policy = "legacy_strict" /\ monitor'.signalled => monitor'.event # "none"
    BY <1>8, <2>3 DEF GuardInv, Watching
  <2>5. QED
    BY <1>1, <1>2, <1>3, <1>4, <2>3, <2>4, MonitorGoesOn DEF Counters, n, MonitorRecord
<1>9. QED
  BY <1>6, <1>7, <1>8

LEMMA QueryErrorHolds == ASSUME GuardInv, QueryError PROVE GuardInv'
<1>1. monitor.pc = "query" /\ UNCHANGED <<guard, docker, drifted, report, artifactReceipt>>
  BY DEF QueryError
<1>2. /\ monitor \in MonitorRecord /\ monitor.errors < MaxQueryErrors
      /\ MaxQueryErrors \in Nat
  BY <1>1, GpuGuardAssumption DEF GuardInv, Shapes, Counters
<1>3. /\ monitor' \in MonitorRecord /\ monitor'.errors = monitor.errors + 1
      /\ monitor'.samples = monitor.samples /\ monitor'.slow = monitor.slow
      /\ monitor'.checks = monitor.checks /\ monitor'.signalled = monitor.signalled
      /\ monitor'.event \in {monitor.event, "hard"}
      /\ monitor'.pc = IF monitor.errors + 1 >= MaxQueryErrors THEN "done" ELSE "wait"
  <2> DEFINE last == monitor.errors + 1 >= MaxQueryErrors
             event == IF last THEN "hard" ELSE monitor.event
             stop == monitor.stop \/ last
             to == IF last THEN "done" ELSE "wait"
  <2>1. monitor' = [monitor EXCEPT !.failed = TRUE, !.errors = monitor.errors + 1,
                                   !.event = event, !.stop = stop, !.pc = to]
    BY DEF QueryError
  <2>2. /\ event \in Events /\ event \in {monitor.event, "hard"} /\ stop \in BOOLEAN
        /\ to \in {"done", "wait"} /\ monitor.errors + 1 \in Nat
    BY <1>2 DEF MonitorRecord, Events
  <2> HIDE DEF event, stop, to
  <2>3. /\ monitor' \in MonitorRecord /\ monitor'.errors = monitor.errors + 1
        /\ monitor'.samples = monitor.samples /\ monitor'.slow = monitor.slow
        /\ monitor'.checks = monitor.checks /\ monitor'.signalled = monitor.signalled
        /\ monitor'.event = event /\ monitor'.pc = to
    BY <1>2, <2>1, <2>2 DEF MonitorRecord
  <2>4. QED
    BY <2>2, <2>3 DEF to
<1>4. Counters'
  BY <1>2, <1>3 DEF GuardInv, Counters, MonitorRecord
<1>5. /\ guard.policy = "workstation_managed" => monitor'.event # "static"
      /\ guard.policy = "legacy_strict" /\ monitor'.signalled => monitor'.event # "none"
  BY <1>3 DEF GuardInv, Watching
<1>6. monitor'.samples >= monitor.samples /\ monitor'.checks >= monitor.checks
  BY <1>2, <1>3 DEF MonitorRecord
<1>7. QED
  BY <1>1, <1>3, <1>4, <1>5, <1>6, MonitorGoesOn

\* A step that changes the place of the monitor only.
LEMMA MonitorMoves ==
  ASSUME GuardInv, monitor.pc \in {"query", "wait"}, NEW to \in {"query", "done"},
         monitor' = [monitor EXCEPT !.pc = to],
         UNCHANGED <<guard, docker, drifted, report, artifactReceipt>>
  PROVE  GuardInv'
<1>1. monitor \in MonitorRecord
  BY DEF GuardInv, Shapes
<1>2. /\ monitor' \in MonitorRecord /\ monitor'.pc = to /\ monitor'.errors = monitor.errors
      /\ monitor'.samples = monitor.samples /\ monitor'.slow = monitor.slow
      /\ monitor'.checks = monitor.checks /\ monitor'.signalled = monitor.signalled
      /\ monitor'.event = monitor.event
  BY <1>1 DEF MonitorRecord
<1>3. Counters'
  BY <1>2 DEF GuardInv, Counters
<1>4. monitor'.samples >= monitor.samples /\ monitor'.checks >= monitor.checks
  BY <1>1, <1>2 DEF MonitorRecord
<1>5. QED
  BY <1>2, <1>3, <1>4, MonitorGoesOn DEF GuardInv, Watching

LEMMA MonitorStepHolds == ASSUME GuardInv, MonitorStep PROVE GuardInv'
<1>1. CASE NextSample
  BY <1>1, MonitorMoves DEF NextSample
<1>2. CASE MonitorDies
  BY <1>2, MonitorMoves DEF MonitorDies
<1>3. QED
  BY <1>1, <1>2, SampleHolds, QueryErrorHolds DEF MonitorStep

-----------------------------------------------------------------------------
(* The world                                                               *)

\* What happens to a client that is alive, or by it.  Nothing clean has a client alive.
LEMMA ClientGoesOn ==
  ASSUME GuardInv, docker.client = "alive", docker' \in DockerRecord,
         docker'.client = "completed" => docker'.container = "ended",
         UNCHANGED <<guard, monitor, drifted, report, artifactReceipt>>
  PROVE  GuardInv'
<1>1. Shapes' /\ Counters' /\ Watching'
  BY DEF GuardInv, Shapes, Counters, Watching
<1>2. Stopping' /\ Inspection'
  BY DEF GuardInv, Stopping, Ended, Inspection, Doomed
<1>3. Clean' /\ Reporting'
  BY DEF GuardInv, Clean, Reporting, Ended
<1>4. QED
  BY <1>1, <1>2, <1>3 DEF GuardInv

\* A container may appear at any time, also when the guard is over.
LEMMA ContainerAppearsHolds == ASSUME GuardInv, ContainerAppears PROVE GuardInv'
<1>1. /\ docker.container = "creating" /\ docker' \in DockerRecord
      /\ docker'.client = docker.client
      /\ docker'.container = IF docker.client = "alive" THEN "running" ELSE "left"
      /\ UNCHANGED <<guard, monitor, drifted, report, artifactReceipt>>
  BY DEF ContainerAppears, GuardInv, Shapes, DockerRecord
<1>2. Shapes' /\ Counters' /\ Watching'
  BY <1>1 DEF GuardInv, Shapes, Counters, Watching
<1>3. Stopping' /\ Inspection'
  BY <1>1 DEF GuardInv, Stopping, Ended, Inspection, Doomed
<1>4. Clean' /\ Reporting'
  BY <1>1 DEF GuardInv, Clean, Reporting, Ended
<1>5. QED
  BY <1>2, <1>3, <1>4 DEF GuardInv

LEMMA WorldStepHolds == ASSUME GuardInv, ~Ended, WorldStep PROVE GuardInv'
<1>1. ASSUME NEW image \in {"resolved", "other"}, AskForContainer(image) PROVE GuardInv'
  <2>1. docker' \in DockerRecord /\ docker'.client = "alive" /\ docker.client = "alive"
    BY <1>1 DEF AskForContainer, GuardInv, Shapes, DockerRecord
  <2>2. QED
    BY <1>1, <2>1, ClientGoesOn DEF AskForContainer
<1>2. ASSUME NEW ok \in BOOLEAN, GuardedEnds(ok) PROVE GuardInv'
  <2>1. /\ docker' \in DockerRecord /\ docker.client = "alive" /\ docker'.client # "alive"
        /\ docker'.container = "ended"
    BY <1>2 DEF GuardedEnds, GuardInv, Shapes, DockerRecord
  <2>2. QED
    BY <1>2, <2>1, ClientGoesOn DEF GuardedEnds
<1>3. CASE ClientDies
  <2>1. docker' \in DockerRecord /\ docker.client = "alive" /\ docker'.client = "failed"
    BY <1>3 DEF ClientDies, GuardInv, Shapes, DockerRecord
  <2>2. QED
    BY <1>3, <2>1, ClientGoesOn DEF ClientDies
<1>4. CASE Drift
  <2>1. /\ drifted' = TRUE /\ UNCHANGED <<guard, monitor, docker, report, artifactReceipt>>
        /\ guard.pc \in {"start", "inspect", "hanging", "poll", "interrupt", "force"}
    BY <1>4 DEF Drift
  <2>2. Shapes' /\ Counters' /\ Watching'
    BY <2>1 DEF GuardInv, Shapes, Counters, Watching
  <2>3. Stopping' /\ Inspection'
    BY <2>1 DEF GuardInv, Stopping, Ended, Inspection, Doomed
  <2>4. Clean' /\ Reporting'
    BY <2>1 DEF GuardInv, Clean, Reporting, Ended
  <2>5. QED
    BY <2>2, <2>3, <2>4 DEF GuardInv
<1>5. CASE KillGuard
  <2>1. report # "complete"
    BY <1>5 DEF KillGuard, Ended, GuardInv, Reporting
  <2>2. QED
    BY <1>5, <2>1, LeaveHolds DEF KillGuard
<1>6. QED
  BY <1>1, <1>2, <1>3, <1>4, <1>5, ContainerAppearsHolds, InspectHangsHolds, InterruptedHolds
     DEF WorldStep

LEMMA GuardStepHolds == ASSUME GuardInv, GuardStep PROVE GuardInv'
  BY AllowHolds, StartClientHolds, InspectedHolds, InspectFailsHolds, PollExitedHolds,
     PollBlockingHolds, CleanupHolds, InterruptHolds, ForceRemoveHolds, SigkillHolds,
     RemoveContainerHolds, StopRaisesHolds, StopMonitorHolds, JoinHolds, ReasonsHolds, StatusHolds,
     WriteArtifactReceiptHolds, PinFailsHolds, FinalReportHolds DEF GuardStep

LEMMA GuardNextHolds == GuardInv /\ [GpuGuardNext]_guardVars => GuardInv'
<1> SUFFICES ASSUME GuardInv, [GpuGuardNext]_guardVars PROVE GuardInv'
  OBVIOUS
<1>1. CASE UNCHANGED guardVars
  <2>1. UNCHANGED <<guard, monitor, docker, drifted, report, artifactReceipt>>
    BY <1>1 DEF guardVars
  <2>2. Shapes' /\ Counters' /\ Watching'
    BY <2>1 DEF GuardInv, Shapes, Counters, Watching
  <2>3. Stopping' /\ Inspection' /\ Clean' /\ Reporting'
    BY <2>1 DEF GuardInv, Stopping, Ended, Doomed, Inspection, Clean, Reporting
  <2>4. QED
    BY <2>2, <2>3 DEF GuardInv
<1>2. QED
  BY <1>1, StartGuardHolds, BlockHolds, UnhandledHolds, GuardStepHolds, MonitorStepHolds,
     WorldStepHolds, ContainerAppearsHolds DEF GpuGuardNext

-----------------------------------------------------------------------------
(* Re-entry evidence                                                       *)

Reading == {Readings[i] : i \in DOMAIN Readings}

\* A fact that was seen true at or after a moment has a trace of it.
Since(f, at) == lastTrue[f] >= at

\* What a reading tells of the facts, if it was made after the stamp of its bundle.
Truthful(reading, value, at) ==
  /\ reading = "identity" /\ value => Since("smi", at)
  /\ reading = "compute" /\ value = "none" => Since("clientless", at)
  /\ reading \in {"sample1", "sample2"} =>
       (value.quiet => Since("quiet", at)) /\ (value.cool => Since("cool", at))
  /\ reading = "profiles" /\ value => Since("performance", at)
  /\ reading = "mains" /\ value => Since("mains", at)
  /\ reading = "bios" => value.readable = access.bios /\ (value.value => Since("bios", at))
  /\ reading = "platform" /\ value => Since("fans", at)
  /\ reading = "xid" /\ value = "empty" => Since("clean", at)

\* A bundle holds the readings up to its position, the stamp before all that it dates.
Bundle(b) ==
  /\ b = [written |-> b.written, policy |-> b.policy, seen |-> b.seen, at |-> b.at]
  /\ b.at \in Nat \ {0} /\ b.at <= 14
  /\ DOMAIN b.seen = {Readings[i] : i \in 1 .. b.at - 1}
  /\ b.at > 2 => b.seen["stamp"] \in 1 .. clock
  /\ b.at > 2 => \A r \in DOMAIN b.seen : Truthful(r, b.seen[r], b.seen["stamp"])

ReentryInv ==
  /\ machine \in [Fact -> BOOLEAN] /\ clock \in Nat \ {0}
  /\ lastTrue \in [Fact -> Nat]
  /\ \A f \in Fact : lastTrue[f] <= clock /\ (machine[f] => lastTrue[f] = clock)
  /\ draft # NoBundle => Bundle(draft) /\ ~draft.written
  /\ onDisk.written => Bundle(onDisk) /\ onDisk.at = 14

\* The stamp is the second reading, and there are thirteen.
LEMMA ReadingsInOrder ==
  /\ DOMAIN Readings = 1 .. 13 /\ Readings[1] = "declaration" /\ Readings[2] = "stamp"
  /\ \A i \in 3 .. 13 :
       Readings[i] \in {"identity", "compute", "sample1", "sample2", "profiles", "mains", "bios",
                        "platform", "xid", "code", "incident"}
  /\ \A r \in {"identity", "compute", "sample1", "sample2", "profiles", "mains", "bios",
               "platform", "xid"} : \E i \in 1 .. 13 : Readings[i] = r
  /\ \A i, j \in 1 .. 13 : Readings[i] = Readings[j] => i = j
BY DEF Readings

LEMMA ReentryInitHolds == ReentryInit => ReentryInv
<1> SUFFICES ASSUME ReentryInit PROVE ReentryInv
  OBVIOUS
<1>1. machine \in [Fact -> BOOLEAN] /\ clock = 1
  BY DEF ReentryInit
<1>2. /\ lastTrue \in [Fact -> Nat]
      /\ \A f \in Fact : lastTrue[f] <= 1 /\ (machine[f] => lastTrue[f] = 1)
  BY DEF ReentryInit
<1>3. QED
  BY <1>1, <1>2 DEF ReentryInit, ReentryInv, NoBundle

\* The world goes on: what was seen stays dated while the traces only grow.
LEMMA WorldGoesOn ==
  ASSUME ReentryInv, UNCHANGED <<access, draft, onDisk>>,
         machine' \in [Fact -> BOOLEAN], lastTrue' \in [Fact -> Nat],
         clock' \in Nat, clock <= clock',
         \A f \in Fact : /\ lastTrue[f] <= lastTrue'[f] /\ lastTrue'[f] <= clock'
                         /\ machine'[f] => lastTrue'[f] = clock'
  PROVE  ReentryInv'
<1>1. {"smi", "clientless", "quiet", "cool", "performance", "mains", "bios", "fans", "clean"}
        \subseteq Fact
  BY DEF Fact, Measured
<1>2. ASSUME NEW r, NEW v, NEW at \in Nat, Truthful(r, v, at) PROVE Truthful(r, v, at)'
  <2>1. \A f \in Fact : lastTrue[f] >= at => lastTrue'[f] >= at
    BY DEF ReentryInv
  <2>2. QED
    BY <1>1, <1>2, <2>1 DEF Truthful, Since
<1>3. ASSUME NEW b, Bundle(b) PROVE Bundle(b)'
  BY <1>2, <1>3 DEF Bundle, ReentryInv
<1>4. draft' # NoBundle => Bundle(draft)' /\ ~draft'.written
  <2>1. PICK b : b = draft
    OBVIOUS
  <2>2. b # NoBundle => Bundle(b)'
    BY <1>3, <2>1 DEF ReentryInv
  <2>3. QED
    BY <2>1, <2>2 DEF Bundle, ReentryInv, Truthful, Since
<1>5. onDisk'.written => Bundle(onDisk)' /\ onDisk'.at = 14
  <2>1. PICK b : b = onDisk
    OBVIOUS
  <2>2. b.written => Bundle(b)'
    BY <1>3, <2>1 DEF ReentryInv
  <2>3. QED
    BY <2>1, <2>2 DEF Bundle, ReentryInv, Truthful, Since
<1>6. QED
  BY <1>4, <1>5 DEF ReentryInv

LEMMA PassingHolds == ASSUME ReentryInv, Passing PROVE ReentryInv'
<1>1. /\ clock' = clock + 1 /\ UNCHANGED <<access, draft, onDisk, machine>>
      /\ lastTrue' = [f \in Fact |-> IF machine[f] THEN clock + 1 ELSE lastTrue[f]]
  BY DEF Passing
<1>2. lastTrue' \in [Fact -> Nat]
  BY <1>1 DEF ReentryInv
<1>3. clock' \in Nat /\ clock <= clock'
  BY <1>1 DEF ReentryInv
<1>4. \A f \in Fact : /\ lastTrue[f] <= lastTrue'[f] /\ lastTrue'[f] <= clock'
                      /\ machine'[f] => lastTrue'[f] = clock'
  BY <1>1 DEF ReentryInv
<1>5. QED
  BY <1>1, <1>2, <1>3, <1>4, WorldGoesOn DEF ReentryInv

LEMMA ChangeHolds == ASSUME ReentryInv, NEW f \in Fact, Change(f) PROVE ReentryInv'
<1>1. /\ machine' = [machine EXCEPT ![f] = ~machine[f]]
      /\ lastTrue' = [lastTrue EXCEPT ![f] = clock]
      /\ UNCHANGED <<access, draft, onDisk, clock>>
  BY DEF Change
<1>2. machine' \in [Fact -> BOOLEAN] /\ lastTrue' \in [Fact -> Nat]
  BY <1>1 DEF ReentryInv
<1>3. \A g \in Fact : /\ lastTrue[g] <= lastTrue'[g] /\ lastTrue'[g] <= clock'
                      /\ machine'[g] => lastTrue'[g] = clock'
  BY <1>1 DEF ReentryInv
<1>4. QED
  BY <1>1, <1>2, <1>3, WorldGoesOn DEF ReentryInv

\* One reading more.
LEMMA ReadNextHolds == ASSUME ReentryInv, ReadNext PROVE ReentryInv'
<1> DEFINE reading == Readings[draft.at]
           stamp == draft'.seen["stamp"]
<1>1. draft.at \in 1 .. 13 /\ draft # NoBundle
  BY ReadingsInOrder DEF ReadNext, NoBundle
<1>2. Bundle(draft) /\ ~draft.written /\ clock \in Nat \ {0}
  BY <1>1 DEF ReentryInv
<1>3. /\ draft'.at = draft.at + 1 /\ draft'.written = draft.written
      /\ draft'.seen = [r \in DOMAIN draft.seen \cup {reading} |->
                          IF r = reading THEN Observe(r) ELSE draft.seen[r]]
      /\ UNCHANGED <<machine, access, declaration, clock, lastTrue, changes, onDisk>>
  BY DEF ReadNext
<1>4. DOMAIN draft'.seen = {Readings[i] : i \in 1 .. draft'.at - 1}
  BY <1>1, <1>2, <1>3 DEF Bundle
<1>5. reading \notin DOMAIN draft.seen
  BY <1>1, <1>2, ReadingsInOrder DEF Bundle
<1>6. \A r \in DOMAIN draft.seen : draft'.seen[r] = draft.seen[r]
  BY <1>3, <1>5
<1>7. draft'.at > 2 => stamp \in 1 .. clock
  <2>1. CASE draft.at = 2
    BY <1>2, <1>3, <2>1, ReadingsInOrder DEF Observe
  <2>2. CASE draft.at > 2
    <3>1. "stamp" \in DOMAIN draft.seen
      BY <1>2, <2>2, ReadingsInOrder DEF Bundle
    <3>2. QED
      BY <1>2, <1>6, <2>2, <3>1 DEF Bundle
  <2>3. QED
    BY <1>1, <1>3, <2>1, <2>2
<1>8. draft'.at > 2 => Truthful(reading, Observe(reading), stamp)
  <2>1. \A f \in Fact : machine[f] => lastTrue[f] = clock
    BY DEF ReentryInv
  <2>2. {"smi", "clientless", "quiet", "cool", "performance", "mains", "bios", "fans", "clean"}
          \subseteq Fact
    BY DEF Fact, Measured
  <2>3. machine \in [Fact -> BOOLEAN]
    BY DEF ReentryInv
  <2>4. draft'.at > 2 => \A f \in Fact : machine[f] => lastTrue[f] >= stamp
    BY <1>2, <1>7, <2>1
  <2>5. reading = "compute" /\ ReadCompute = "none" => machine["clientless"]
    BY DEF ReadCompute
  <2>6. reading = "xid" /\ ReadXid = "empty" => machine["clean"]
    BY DEF ReadXid
  <2>7. /\ ReadSample.quiet = machine["quiet"] /\ ReadSample.cool = machine["cool"]
        /\ ReadBios.readable = access.bios /\ (ReadBios.value => machine["bios"])
    BY DEF ReadSample, ReadBios
  <2> HIDE DEF reading, stamp
  <2>8. QED
    BY <2>2, <2>4, <2>5, <2>6, <2>7 DEF Truthful, Since, Observe
<1>9. draft'.at > 2 => \A r \in DOMAIN draft'.seen : Truthful(r, draft'.seen[r], stamp)
  <2>1. CASE draft.at > 2
    <3>1. "stamp" \in DOMAIN draft.seen
      BY <1>2, <2>1, ReadingsInOrder DEF Bundle
    <3>2. stamp = draft.seen["stamp"]
      BY <1>6, <3>1
    <3>3. \A r \in DOMAIN draft.seen : Truthful(r, draft'.seen[r], stamp)
      BY <1>2, <1>6, <2>1, <3>2 DEF Bundle
    <3>4. QED
      BY <1>3, <1>8, <3>3
  <2>2. CASE draft.at = 2
    <3>1. DOMAIN draft'.seen = {"declaration", "stamp"}
      BY <1>3, <1>4, <2>2, ReadingsInOrder
    <3>2. QED
      BY <3>1 DEF Truthful
  <2>3. QED
    BY <1>1, <1>3, <2>1, <2>2
<1>10. Bundle(draft)'
  <2>1. draft = [written |-> draft.written, policy |-> draft.policy, seen |-> draft.seen,
                 at |-> draft.at]
    BY <1>2 DEF Bundle
  <2>2. draft' = [written |-> draft'.written, policy |-> draft'.policy, seen |-> draft'.seen,
                  at |-> draft'.at]
    <3> HIDE DEF reading
    <3>1. draft' = [draft EXCEPT !.seen = draft'.seen, !.at = draft'.at]
      BY <1>3 DEF ReadNext, reading
    <3>2. QED
      BY <2>1, <3>1
  <2>3. draft'.at \in Nat \ {0} /\ draft'.at <= 14
    BY <1>1, <1>3
  <2>4. QED
    BY <1>3, <1>4, <1>7, <1>9, <2>2, <2>3 DEF Bundle, Truthful, Since
<1>11. onDisk'.written => Bundle(onDisk)' /\ onDisk'.at = 14
  BY <1>3 DEF ReentryInv, Bundle, Truthful, Since
<1>12. QED
  BY <1>2, <1>3, <1>10, <1>11 DEF ReentryInv

LEMMA CollectorHolds ==
  ASSUME ReentryInv,
         \/ \E policy \in {"workstation_managed", "legacy_strict_physical", "absent", "altered"} :
              Collect(policy)
         \/ WriteBundle \/ KillCollector
  PROVE  ReentryInv'
<1>1. UNCHANGED <<machine, access, declaration, clock, lastTrue, changes>>
  BY DEF Collect, WriteBundle, KillCollector
<1>2. ASSUME NEW policy, Collect(policy) PROVE ReentryInv'
  <2>1. Bundle(draft)' /\ ~draft'.written
    <3>1. draft' = [written |-> FALSE, policy |-> policy, seen |-> <<>>, at |-> 1]
      BY <1>2 DEF Collect, NoBundle
    <3>2. DOMAIN draft'.seen = {}
      BY <3>1
    <3>3. draft'.at - 1 = 0 /\ ~(draft'.at > 2)
      BY <3>1
    <3>4. QED
      BY <3>1, <3>2, <3>3 DEF Bundle
  <2>2. onDisk' = onDisk /\ ~onDisk.written
    BY <1>2 DEF Collect, NoBundle
  <2>3. QED
    BY <1>1, <2>1, <2>2 DEF ReentryInv
<1>3. CASE WriteBundle
  <2>1. draft # NoBundle /\ draft' = NoBundle
    BY <1>3, ReadingsInOrder DEF WriteBundle, NoBundle, Readings
  <2>2. Bundle(draft) /\ draft.at = 14
    BY <1>3, <2>1 DEF WriteBundle, Readings, ReentryInv, Bundle
  <2>3. onDisk'.written =>
          /\ onDisk'.seen = draft.seen /\ onDisk'.at = draft.at
          /\ onDisk' = [written |-> onDisk'.written, policy |-> onDisk'.policy,
                        seen |-> onDisk'.seen, at |-> onDisk'.at]
    <3>1. draft = [written |-> draft.written, policy |-> draft.policy, seen |-> draft.seen,
                   at |-> draft.at]
      BY <2>2 DEF Bundle
    <3>2. onDisk' = [draft EXCEPT !.written = TRUE] \/ ~onDisk'.written
      BY <1>3 DEF WriteBundle, NoBundle
    <3>3. CASE onDisk' = [draft EXCEPT !.written = TRUE]
      BY <3>1, <3>3
    <3>4. QED
      BY <3>2, <3>3
  <2>4. onDisk'.written => Bundle(onDisk)' /\ onDisk'.at = 14
    <3>1. ASSUME onDisk'.written PROVE Bundle(onDisk)'
      <4>1. DOMAIN onDisk'.seen = {Readings[i] : i \in 1 .. onDisk'.at - 1}
        BY <2>2, <2>3, <3>1 DEF Bundle
      <4>2. onDisk'.seen["stamp"] \in 1 .. clock'
        BY <1>1, <2>2, <2>3, <3>1 DEF Bundle
      <4>3. \A q \in DOMAIN onDisk'.seen : Truthful(q, draft.seen[q], draft.seen["stamp"])
        BY <2>2, <2>3, <3>1 DEF Bundle
      <4>4. QED
        BY <1>1, <2>2, <2>3, <3>1, <4>1, <4>2, <4>3 DEF Bundle, Truthful, Since
    <3>2. QED
      BY <2>2, <2>3, <3>1
  <2>5. QED
    BY <1>1, <2>1, <2>4 DEF ReentryInv
<1>4. CASE KillCollector
  <2>1. draft' = NoBundle /\ onDisk' = onDisk
    BY <1>4 DEF KillCollector
  <2>2. onDisk'.written => Bundle(onDisk)' /\ onDisk'.at = 14
    BY <1>1, <2>1 DEF ReentryInv, Bundle, Truthful, Since
  <2>3. QED
    BY <1>1, <2>1, <2>2 DEF ReentryInv
<1>5. QED
  BY <1>2, <1>3, <1>4

LEMMA ReentryNextHolds == ReentryInv /\ [ReentryNext]_reentryVars => ReentryInv'
<1> SUFFICES ASSUME ReentryInv, [ReentryNext]_reentryVars PROVE ReentryInv'
  OBVIOUS
<1>1. clock \in Nat /\ clock <= clock /\ \A f \in Fact : lastTrue[f] <= lastTrue[f]
  BY DEF ReentryInv
<1>2. ASSUME NEW claims, Declare(claims) PROVE ReentryInv'
  BY <1>1, <1>2, WorldGoesOn DEF Declare, ReentryInv
<1>3. CASE UNCHANGED reentryVars
  BY <1>1, <1>3, WorldGoesOn DEF reentryVars, ReentryInv
<1>4. QED
  BY <1>2, <1>3, ReadNextHolds, CollectorHolds, PassingHolds, ChangeHolds DEF ReentryNext

\* What the gates conclude from a bundle whose readings are dated.
LEMMA AdmittedIsSound == ReentryInv => ReentryIsSound
<1> SUFFICES ASSUME ReentryInv, Admitted PROVE ReentryIsSound
  BY DEF ReentryIsSound, AdmittedHeldRecently, StrictStaysStrict, BiosIsAuthoritative
<1> DEFINE b == onDisk
           stamp == b.seen["stamp"]
<1>1. Bundle(b) /\ b.at = 14 /\ Ready(b)
  BY DEF Admitted, ReentryInv
<1>2. /\ stamp \in 1 .. clock /\ clock \in Nat
      /\ {"identity", "compute", "sample1", "sample2", "profiles", "mains", "bios", "platform", "xid"}
           \subseteq DOMAIN b.seen
  BY <1>1, ReadingsInOrder DEF Bundle, ReentryInv
<1>3. \A r \in DOMAIN b.seen : Truthful(r, b.seen[r], stamp)
  BY <1>1 DEF Bundle
<1>4. \A id \in Required : Gate(b, id)
  BY <1>1 DEF Ready, RequiredGates
<1>5. Gate(b, "telemetry") <=> TelemetryGate(b)
  BY DEF Gate
<1>6. /\ TelemetryGate(b) /\ b.seen["profiles"] /\ b.seen["mains"] /\ b.seen["xid"] = "empty"
      /\ ResolvedPolicy(b.policy) # "invalid"
  BY <1>4, <1>5 DEF Required, Gate
<1>7. clock - stamp <= MaxTelemetryAge
  BY <1>6 DEF TelemetryGate, Fresh, Age
<1>8. \A f \in Fact : lastTrue[f] \in Nat
  BY DEF ReentryInv
<1>9. \A f \in Fact : Since(f, stamp) => HeldRecently(f)
  BY <1>2, <1>7, <1>8, ReentryAssumption DEF Since, HeldRecently
<1>10. {"smi", "clientless", "quiet", "cool", "performance", "mains", "bios", "fans", "clean"}
         \subseteq Fact
  BY DEF Fact, Measured
<1>11. /\ Truthful("identity", b.seen["identity"], stamp)
       /\ Truthful("compute", b.seen["compute"], stamp)
       /\ Truthful("sample1", b.seen["sample1"], stamp)
       /\ Truthful("profiles", b.seen["profiles"], stamp)
       /\ Truthful("mains", b.seen["mains"], stamp) /\ Truthful("xid", b.seen["xid"], stamp)
       /\ Truthful("bios", b.seen["bios"], stamp)
       /\ Truthful("platform", b.seen["platform"], stamp)
  BY <1>2, <1>3
<1>12. AdmittedHeldRecently
  <2>1. Since("smi", stamp) /\ Since("performance", stamp) /\ Since("mains", stamp)
        /\ Since("clean", stamp)
    BY <1>6, <1>11 DEF Truthful, TelemetryGate
  <2>2. Since("quiet", stamp) \/ Since("clientless", stamp)
    BY <1>6, <1>11 DEF Truthful, TelemetryGate, Samples
  <2>3. QED
    BY <1>9, <1>10, <2>1, <2>2 DEF AdmittedHeldRecently
<1>13. ASSUME b.policy # "workstation_managed"
       PROVE  /\ HeldRecently("cool") /\ HeldRecently("fans") /\ machine["incident"]
              /\ {"adapter", "cooling"} \subseteq declaration.claims
              /\ declaration.at > 0 /\ clock - declaration.at <= MaxDeclarationAge
              /\ access.bios => HeldRecently("bios")
  <2>1. ResolvedPolicy(b.policy) # "workstation_managed"
    BY <1>13 DEF ResolvedPolicy
  <2>2. \A id \in Informational : Gate(b, id)
    BY <1>1, <2>1 DEF Ready, RequiredGates
  <2>3. /\ DeclarationGate(b) /\ BiosGate(b) /\ Claimed(b, "adapter") /\ Claimed(b, "cooling")
        /\ QualityGate(b) /\ b.seen["platform"] /\ IncidentGate(b)
    BY <2>2 DEF Informational, Gate
  <2>4. Since("cool", stamp) /\ Since("fans", stamp)
    BY <1>11, <2>3 DEF Truthful, QualityGate, Samples
  <2>5. access.bios => Since("bios", stamp)
    BY <1>11, <2>3 DEF Truthful, BiosGate
  <2>6. QED
    BY <1>9, <1>10, <2>3, <2>4, <2>5
       DEF DeclarationGate, Claimed, Attributed, Declared, IncidentGate
<1>14. QED
  BY <1>12, <1>13 DEF ReentryIsSound, StrictStaysStrict, BiosIsAuthoritative

-----------------------------------------------------------------------------
(* The qualification of the image                                          *)

Image == [files : Nat, manifest : Nat]
Pins == [files : Nat, inputs : Nat, manifest : Nat]
Receipt == [at : Nat, image : Image, pins : Pins, ready : BOOLEAN]
Compatibility ==
  [at : Nat, image : Image, pins : Pins, ready : BOOLEAN, evidence : Nonce \cup {"none"}]
Contract ==
  [boot : Session \cup {"none"}, candidate : ReceiptDir \cup {"none"}, image : Image,
   manifest : Nat]
Stage == {"new", "discovering", "discovered", "building", "tagged", "built"}
Step == {"idle", "planned", "checked", "claimed", "running", "replayed"}

TypeOK ==
  /\ now \in Nat \ {0} /\ live \in Pins /\ tag \in Image
  /\ boot \in [Session -> [stage : Stage, discovery : Receipt, production : Receipt]]
  /\ probe \in [out : ReceiptDir \cup {"none"}, image : Image,
                evidence : Nonce \cup {"none"}]
  /\ receipts \in [ReceiptDir -> Receipt \cup Compatibility]
  /\ smoke \in [Nonce -> [contract : Contract, auth : Receipt, claimed : BOOLEAN,
                          raw : BOOLEAN, evidence : Receipt]]
  /\ executors \in [Executor -> [pc : Step, nonce : Nonce \cup {"none"}]]
  /\ ran \in [Nonce -> [count : Nat, image : Image, at : Nat, passed : BOOLEAN]]
  /\ launched \in [at : Nat, image : Image, files : Nat]

\* Pass 1 was measured before pass 2 was built, and the image is of files that lie between
\* those its manifest describes and the live ones.
BuildOf(b) ==
  /\ b.stage \notin {"new", "discovering"} =>
       0 < b.discovery.at /\ b.discovery.at <= now
  /\ b.stage \in {"tagged", "built"} =>
       /\ b.production.image.manifest <= b.production.image.files
       /\ b.production.image.files <= live.files
  /\ b.production.at > 0 => b.stage = "built" /\ b.discovery.at <= b.production.at
Builds == live.manifest <= live.files /\ \A s \in Session : BuildOf(boot[s])

\* A receipt is written once, about a real image, and it is a production receipt only with
\* the evidence of a nonce.
Written(r) == 0 < r.at /\ r.at <= now /\ r.image # NoImage /\ (r.ready => r.evidence \in Nonce)
Receipts ==
  /\ \A o \in ReceiptDir : receipts[o] = NoReceipt \/ Written(receipts[o])
  /\ probe # NoProbe =>
       /\ probe.out \in ReceiptDir /\ receipts[probe.out] = NoReceipt
       /\ probe.image # NoImage

\* A contract names a candidate receipt that was written, and its image.
Proper(c) ==
  /\ c.boot \in Session /\ c.candidate \in ReceiptDir
  /\ receipts[c.candidate] # NoReceipt
  /\ c.image = receipts[c.candidate].image

\* What ran for a nonce ran once, on the image of its contract, after its candidate.
RunOf(s, r) ==
  /\ s.contract = NoContract \/ Proper(s.contract)
  /\ r.count <= 1
  /\ ~s.raw => r.count = 0
  /\ r.count = 0 => ~r.passed
  /\ r.count = 1 =>
       /\ s.contract # NoContract /\ r.image = s.contract.image
       /\ receipts[s.contract.candidate].at <= r.at
  /\ s.evidence.ready => r.passed /\ r.image = s.evidence.image
Runs == \A n \in Nonce : RunOf(smoke[n], ran[n])

\* A process works for a nonce with a contract; at most one of them has its run.
OnGpu(e) == executors[e].pc \in {"running", "replayed"}
Processes ==
  /\ \A e \in Executor : executors[e].pc # "idle" =>
       executors[e].nonce \in Nonce /\ smoke[executors[e].nonce].contract # NoContract
  /\ \A e \in Executor : OnGpu(e) => ran[executors[e].nonce].count = 1
  /\ \A e \in Executor : executors[e].pc = "running" => ~ran[executors[e].nonce].passed
  /\ \A e, f \in Executor :
       OnGpu(e) /\ OnGpu(f) /\ executors[e].nonce = executors[f].nonce => e = f

QualificationInv == TypeOK /\ Builds /\ Receipts /\ Runs /\ Processes /\ LaunchedIsQualified

-----------------------------------------------------------------------------
LEMMA NoneTyped ==
  /\ NoReceipt \in Receipt /\ NoImage \in Image /\ NoPins \in Pins
  /\ NoContract \in Contract
  BY DEF NoReceipt, NoImage, NoPins, NoContract, Receipt, Image, Pins, Contract

LEMMA QualificationInitHolds == QualificationInit => QualificationInv
<1> SUFFICES ASSUME QualificationInit PROVE QualificationInv
  OBVIOUS
<1> USE NoneTyped DEF QualificationInit
<1>1. TypeOK
  BY DEF TypeOK, Stage, Step, NoProbe, NoProcess, Image, Pins
<1>2. Builds
  BY DEF Builds, BuildOf, NoReceipt
<1>3. Receipts
  BY DEF Receipts
<1>4. Runs
  BY DEF Runs, RunOf, NoReceipt
<1>5. Processes
  BY DEF Processes, OnGpu, NoProcess
<1>6. LaunchedIsQualified
  BY DEF LaunchedIsQualified
<1>7. QED
  BY <1>1, <1>2, <1>3, <1>4, <1>5, <1>6 DEF QualificationInv

-----------------------------------------------------------------------------
(* What is final: a finished build, a written receipt, a contract, a run that passed, and a
   launch.  Every step but a launch keeps LaunchedIsQualified for this reason.            *)

LEMMA LaunchStays ==
  ASSUME QualificationInv, UNCHANGED launched,
         \A s \in Session : boot[s].stage = "built" => boot'[s] = boot[s],
         \A n \in Nonce : ran[n].passed => ran'[n] = ran[n]
  PROVE  LaunchedIsQualified'
<1> SUFFICES ASSUME launched.at > 0
             PROVE  LaunchedIsQualified'
  BY DEF LaunchedIsQualified
<1>1. launched.image.files = launched.files
  BY DEF QualificationInv, LaunchedIsQualified
<1>2. PICK n \in Nonce : /\ ran[n].passed /\ ran[n].image = launched.image
                         /\ launched.at < ran[n].at + Life
  BY DEF QualificationInv, LaunchedIsQualified
<1>3. PICK s \in Session : /\ boot[s].production.image = launched.image
                           /\ 0 < boot[s].discovery.at
                           /\ boot[s].discovery.at <= boot[s].production.at
                           /\ launched.at < boot[s].discovery.at + Life
  BY DEF QualificationInv, LaunchedIsQualified
<1>4. boot[s] \in [stage : Stage, discovery : Receipt, production : Receipt]
  BY DEF QualificationInv, TypeOK
<1>5. boot[s].production.at > 0
  BY <1>3, <1>4 DEF Receipt
<1>6. boot'[s] = boot[s]
  BY <1>5 DEF QualificationInv, Builds, BuildOf
<1>7. ran'[n] = ran[n]
  BY <1>2
<1>8. QED
  BY <1>1, <1>2, <1>3, <1>6, <1>7 DEF LaunchedIsQualified

\* The clock and the files only grow, so what was written stays written.
LEMMA WrittenStays ==
  ASSUME TypeOK, now' \in Nat, now <= now', NEW r \in Receipt \cup Compatibility, Written(r)
  PROVE  Written(r)'
  BY DEF Written, TypeOK, Receipt, Compatibility

\* The parts of the invariant that do not read the clock.
LEMMA RestStays ==
  ASSUME QualificationInv, UNCHANGED <<receipts, smoke, executors, ran>>
  PROVE  Runs' /\ Processes'
  BY DEF QualificationInv, Runs, RunOf, Proper, Processes, OnGpu

-----------------------------------------------------------------------------
(* The parser bootstrap                                                    *)

\* Any step of a session, from the facts that Builds needs.
LEMMA StageHolds ==
  ASSUME QualificationInv, NEW s \in Session, NEW from \in Stage, NEW to \in Stage, from # "built",
         NEW change \in [stage : Stage, discovery : Receipt, production : Receipt],
         AtStage(s, from, to, change), tag' \in Image,
         BuildOf([change EXCEPT !.stage = to])
  PROVE  QualificationInv'
<1> USE DEF AtStage
<1>1. boot' = [boot EXCEPT ![s] = [change EXCEPT !.stage = to]]
  OBVIOUS
<1>2. TypeOK'
  BY DEF QualificationInv, TypeOK
<1>3. Builds'
  BY DEF QualificationInv, Builds, BuildOf, TypeOK
<1>4. Receipts'
  BY DEF QualificationInv, Receipts, Written
<1>5. Runs' /\ Processes'
  BY RestStays
<1>6. \A t \in Session : boot[t].stage = "built" => boot'[t] = boot[t]
  BY DEF QualificationInv, TypeOK
<1>7. LaunchedIsQualified'
  BY <1>6, LaunchStays
<1>8. QED
  BY <1>2, <1>3, <1>4, <1>5, <1>7 DEF QualificationInv

LEMMA DiscoverHolds ==
  ASSUME QualificationInv, NEW s \in Session, Discover(s)
  PROVE  QualificationInv'
<1> DEFINE measured == [boot[s] EXCEPT !.discovery = [NoReceipt EXCEPT !.at = now, !.pins = live]]
<1>1. boot[s] \in [stage : Stage, discovery : Receipt, production : Receipt]
  BY DEF QualificationInv, TypeOK
<1>2. [NoReceipt EXCEPT !.at = now, !.pins = live] \in Receipt
  BY NoneTyped DEF QualificationInv, TypeOK, Receipt, NoReceipt
<1>3. measured \in [stage : Stage, discovery : Receipt, production : Receipt]
  BY <1>1, <1>2
<1>4. tag' \in Image
  BY DEF QualificationInv, TypeOK, Discover
<1>5. CASE AtStage(s, "new", "discovering", boot[s])
  <2>1. BuildOf([boot[s] EXCEPT !.stage = "discovering"])
    BY <1>1, <1>5 DEF QualificationInv, Builds, BuildOf, AtStage
  <2>2. QED
    BY <2>1, <1>1, <1>4, <1>5, StageHolds DEF Stage
<1>6. CASE AtStage(s, "discovering", "discovered", measured)
  <2>1. boot[s].production.at = 0
    BY <1>1, <1>6 DEF QualificationInv, Builds, BuildOf, AtStage, Receipt
  <2>2. /\ measured.discovery.at = now /\ measured.discovery.pins = live
        /\ measured.production = boot[s].production
    BY <1>1 DEF NoReceipt
  <2>3. now > 0 /\ now <= now
    BY DEF QualificationInv, TypeOK
  <2>4. BuildOf([measured EXCEPT !.stage = "discovered"])
    BY <2>1, <2>2, <2>3, <1>3 DEF BuildOf
  <2>5. QED
    BY <2>4, <1>3, <1>4, <1>6, StageHolds DEF Stage
<1>7. QED
  BY <1>5, <1>6 DEF Discover

LEMMA StartProductionHolds ==
  ASSUME QualificationInv, NEW s \in Session, StartProduction(s)
  PROVE  QualificationInv'
<1> DEFINE labelled == [boot[s] EXCEPT !.production =
                          [NoReceipt EXCEPT !.image.manifest = live.manifest]]
<1>1. boot[s] \in [stage : Stage, discovery : Receipt, production : Receipt]
  BY DEF QualificationInv, TypeOK
<1>2. [NoReceipt EXCEPT !.image.manifest = live.manifest] \in Receipt
  BY NoneTyped DEF QualificationInv, TypeOK, Receipt, NoReceipt, Image, NoImage, Pins
<1>3. labelled \in [stage : Stage, discovery : Receipt, production : Receipt]
  BY <1>1, <1>2
<1>4. BuildOf([labelled EXCEPT !.stage = "building"])
  <2>1. boot[s].stage = "discovered" /\ BuildOf(boot[s])
    BY DEF QualificationInv, Builds, StartProduction, AtStage
  <2>2. /\ labelled.discovery = boot[s].discovery
        /\ labelled.production = [NoReceipt EXCEPT !.image.manifest = live.manifest]
    BY <1>1
  <2>3. labelled.production.at = 0
    BY <2>2 DEF NoReceipt
  <2>4. 0 < boot[s].discovery.at /\ boot[s].discovery.at <= now
    BY <2>1 DEF BuildOf
  <2>5. QED
    <3> DEFINE building == [labelled EXCEPT !.stage = "building"]
    <3>1. /\ building.stage = "building" /\ building.discovery = boot[s].discovery
          /\ building.production.at = 0
      BY <1>1, <2>2, <2>3
    <3> HIDE DEF building
    <3>2. BuildOf(building)
      BY <2>4, <3>1 DEF BuildOf
    <3>3. QED
      BY <3>2 DEF building
<1>5. tag' \in Image
  BY DEF QualificationInv, TypeOK, StartProduction
<1>6. QED
  BY <1>3, <1>4, <1>5, StageHolds DEF StartProduction, Stage

LEMMA BuildImageHolds ==
  ASSUME QualificationInv, NEW s \in Session, BuildImage(s)
  PROVE  QualificationInv'
<1> DEFINE copied == [boot[s] EXCEPT !.production.image.files = live.files]
<1>1. boot[s] \in [stage : Stage, discovery : Receipt, production : Receipt]
  BY DEF QualificationInv, TypeOK
<1>2. copied \in [stage : Stage, discovery : Receipt, production : Receipt]
  <2>1. [boot[s].production.image EXCEPT !.files = live.files] \in Image
    BY <1>1 DEF QualificationInv, TypeOK, Receipt, Image, Pins
  <2>2. [boot[s].production EXCEPT !.image.files = live.files] \in Receipt
    BY <2>1, <1>1 DEF Receipt
  <2>3. QED
    BY <2>2, <1>1
<1>3. BuildOf([copied EXCEPT !.stage = "tagged"])
  <2>1. /\ boot[s].stage = "building" /\ boot[s].production.at = 0
        /\ 0 < boot[s].discovery.at /\ boot[s].discovery.at <= now
        /\ boot[s].production.image.manifest <= live.files
    BY <1>1 DEF QualificationInv, Builds, BuildOf, BuildImage, AtStage, Receipt
  <2>2. /\ copied.discovery = boot[s].discovery
        /\ copied.production = [boot[s].production EXCEPT !.image.files = live.files]
    BY <1>1
  <2>3. copied.production.at = boot[s].production.at
    BY <1>1, <2>2 DEF Receipt
  <2>4. /\ copied.production.image.files = live.files
        /\ copied.production.image.manifest = boot[s].production.image.manifest
    BY <1>1, <2>2 DEF Receipt, Image
  <2>5. live.files <= live.files
    BY DEF QualificationInv, TypeOK, Pins
  <2>6. QED
    BY <1>2, <2>1, <2>2, <2>3, <2>4, <2>5 DEF BuildOf
<1>4. boot'[s] = [copied EXCEPT !.stage = "tagged"]
  BY DEF BuildImage, AtStage, QualificationInv, TypeOK
<1>5. tag' \in Image
  BY <1>2, <1>4 DEF BuildImage, Receipt
<1>6. QED
  BY <1>2, <1>3, <1>5, StageHolds DEF BuildImage, Stage

LEMMA WriteProductionHolds ==
  ASSUME QualificationInv, NEW s \in Session, WriteProduction(s)
  PROVE  QualificationInv'
<1> DEFINE pinned == [boot[s] EXCEPT !.production.at = now, !.production.pins = live]
<1>1. boot[s] \in [stage : Stage, discovery : Receipt, production : Receipt]
  BY DEF QualificationInv, TypeOK
<1>2. pinned \in [stage : Stage, discovery : Receipt, production : Receipt]
  BY <1>1 DEF QualificationInv, TypeOK, Receipt
<1>3. BuildOf([pinned EXCEPT !.stage = "built"])
  BY <1>1 DEF QualificationInv, TypeOK, Builds, BuildOf, WriteProduction, AtStage, Receipt, Image, Pins
<1>4. tag' \in Image
  BY DEF QualificationInv, TypeOK, WriteProduction
<1>5. QED
  BY <1>2, <1>3, <1>4, StageHolds DEF WriteProduction, Stage

-----------------------------------------------------------------------------
(* Compatibility receipts                                                  *)

LEMMA StartProbeHolds ==
  ASSUME QualificationInv, NEW o \in ReceiptDir, StartProbe(o)
  PROVE  QualificationInv'
<1> USE DEF StartProbe
<1>1. PICK n \in Nonce \cup {"none"} : probe' = [out |-> o, image |-> tag, evidence |-> n]
  OBVIOUS
<1>2. TypeOK'
  BY <1>1 DEF QualificationInv, TypeOK
<1>3. Builds'
  BY DEF QualificationInv, Builds, BuildOf
<1>4. Receipts'
  BY <1>1 DEF QualificationInv, Receipts, Written
<1>5. Runs' /\ Processes'
  BY RestStays
<1>6. LaunchedIsQualified'
  BY LaunchStays
<1>7. QED
  BY <1>2, <1>3, <1>4, <1>5, <1>6 DEF QualificationInv

LEMMA EndProbeHolds ==
  ASSUME QualificationInv, EndProbe
  PROVE  QualificationInv'
<1> USE DEF EndProbe
<1> DEFINE new == [at |-> now, image |-> probe.image, pins |-> live,
                   ready |-> probe.evidence # "none", evidence |-> probe.evidence]
<1>1. probe' = NoProbe
  OBVIOUS
<1>2. /\ probe.out \in ReceiptDir /\ receipts[probe.out] = NoReceipt
      /\ probe.image # NoImage /\ probe.image \in Image
      /\ probe.evidence \in Nonce \cup {"none"}
  BY DEF QualificationInv, Receipts, TypeOK
<1>3. new \in Compatibility
  BY <1>2 DEF QualificationInv, TypeOK, Compatibility
<1>4. Written(new)
  <2>1. /\ new.at = now /\ new.image = probe.image /\ new.evidence = probe.evidence
        /\ new.ready => probe.evidence # "none"
    OBVIOUS
  <2>2. 0 < now /\ now <= now
    BY DEF QualificationInv, TypeOK
  <2>3. QED
    BY <1>2, <2>1, <2>2 DEF Written
<1>5. receipts' = receipts \/ receipts' = [receipts EXCEPT ![probe.out] = new]
  OBVIOUS
<1>6. \A o \in ReceiptDir : /\ receipts'[o] = receipts[o] \/ receipts'[o] = new
                            /\ receipts[o] # NoReceipt => receipts'[o] = receipts[o]
  BY <1>2, <1>5 DEF QualificationInv, TypeOK
<1>7. TypeOK'
  <2>1. NoProbe \in [out : ReceiptDir \cup {"none"}, image : Image, evidence : Nonce \cup {"none"}]
    BY NoneTyped DEF NoProbe
  <2>2. receipts' \in [ReceiptDir -> Receipt \cup Compatibility]
    BY <1>3, <1>5 DEF QualificationInv, TypeOK
  <2>3. QED
    BY <1>1, <2>1, <2>2 DEF QualificationInv, TypeOK
<1>8. Builds'
  BY DEF QualificationInv, Builds, BuildOf
<1>9. Receipts'
  BY <1>1, <1>4, <1>6 DEF QualificationInv, Receipts, Written
<1>10. Runs'
  BY <1>6 DEF QualificationInv, Runs, RunOf, Proper
<1>11. Processes'
  BY DEF QualificationInv, Processes, OnGpu
<1>12. LaunchedIsQualified'
  BY LaunchStays
<1>13. QED
  BY <1>7, <1>8, <1>9, <1>10, <1>11, <1>12 DEF QualificationInv

\* What a receipt that is accepted at a launch stands for.  Its lifetime is bounded by that
\* of the candidate, which was written before the run, and that of pass 1.
LEMMA LaunchIsEarned ==
  ASSUME QualificationInv, NEW o \in ReceiptDir, RuntimeCompatible(o, tag), tag # NoImage
  PROVE  /\ tag.files = live.files
         /\ \E n \in Nonce : ran[n].passed /\ ran[n].image = tag /\ now < ran[n].at + Life
         /\ \E s \in Session : /\ boot[s].production.image = tag
                               /\ 0 < boot[s].discovery.at
                               /\ boot[s].discovery.at <= boot[s].production.at
                               /\ now < boot[s].discovery.at + Life
<1> DEFINE n == receipts[o].evidence
           s == smoke[n].contract.boot
           c == smoke[n].contract.candidate
<1>1. receipts[o] # NoReceipt /\ receipts[o].ready
  BY DEF RuntimeCompatible, NoReceipt
<1>2. n \in Nonce
  BY <1>1 DEF QualificationInv, Receipts, Written
<1>3. /\ smoke[n].evidence.ready /\ smoke[n].evidence.image = tag
      /\ ProductionValid(s, tag) /\ Current(receipts[c])
  BY DEF RuntimeCompatible, EvidenceValid, CandidateOffline
<1>4. RunOf(smoke[n], ran[n])
  BY <1>2 DEF QualificationInv, Runs
<1>5. ran[n] \in [count : Nat, image : Image, at : Nat, passed : BOOLEAN]
  BY <1>2 DEF QualificationInv, TypeOK
<1>6. ran[n].passed /\ ran[n].image = tag /\ ran[n].count = 1
  BY <1>3, <1>4, <1>5 DEF RunOf
<1>7. Proper(smoke[n].contract) /\ receipts[c].at <= ran[n].at
  BY <1>4, <1>6 DEF RunOf
<1>8. s \in Session /\ c \in ReceiptDir
  BY <1>7 DEF Proper
<1>9. now < ran[n].at + Life
  <2>1. receipts[c].at \in Nat /\ now \in Nat /\ Life \in Nat
    BY <1>8, QualificationAssumption DEF QualificationInv, TypeOK, Receipt, Compatibility
  <2>2. QED
    BY <1>3, <1>5, <1>7, <2>1 DEF Current
<1>10. boot[s] \in [stage : Stage, discovery : Receipt, production : Receipt]
  BY <1>8 DEF QualificationInv, TypeOK
<1>11. /\ boot[s].production.at > 0 /\ boot[s].production.image = tag
       /\ now < boot[s].discovery.at + Life
  BY <1>3 DEF ProductionValid, DiscoveryValid, Current
<1>12. BuildOf(boot[s])
  BY <1>8 DEF QualificationInv, Builds
<1>13. /\ boot[s].stage = "built" /\ boot[s].discovery.at <= boot[s].production.at
       /\ 0 < boot[s].discovery.at
       /\ tag.manifest <= tag.files /\ tag.files <= live.files
  BY <1>11, <1>12 DEF BuildOf
<1>14. tag.files = live.files
  <2>1. tag.files \in Nat /\ live.files \in Nat
    BY DEF QualificationInv, TypeOK, Image, Pins
  <2>2. tag.manifest = live.files
    BY DEF RuntimeCompatible, ControlsAccept
  <2>3. QED
    BY <1>13, <2>1, <2>2
<1>15. QED
  BY <1>2, <1>6, <1>8, <1>9, <1>11, <1>13, <1>14

LEMMA LaunchHolds ==
  ASSUME QualificationInv, NEW o \in ReceiptDir, LaunchQualified(o)
  PROVE  QualificationInv'
<1> USE DEF LaunchQualified
<1>1. launched' = [at |-> now, image |-> tag, files |-> live.files]
  OBVIOUS
<1>2. TypeOK'
  BY <1>1 DEF QualificationInv, TypeOK, Image, Pins
<1>3. Builds'
  BY DEF QualificationInv, Builds, BuildOf
<1>4. Receipts'
  BY DEF QualificationInv, Receipts, Written
<1>5. Runs' /\ Processes'
  BY RestStays
<1>6. LaunchedIsQualified'
  BY <1>1, LaunchIsEarned DEF LaunchedIsQualified
<1>7. QED
  BY <1>2, <1>3, <1>4, <1>5, <1>6 DEF QualificationInv

-----------------------------------------------------------------------------
(* The smoke on the host                                                   *)

Smoke == [contract : Contract, auth : Receipt, claimed : BOOLEAN, raw : BOOLEAN,
          evidence : Receipt]
Run == [count : Nat, image : Image, at : Nat, passed : BOOLEAN]
Process == [pc : Step, nonce : Nonce \cup {"none"}]

\* A step of process e for nonce n: the process is at pc afterwards, the files of the nonce
\* are x and its run is r.
Moves(e, n, x, r, pc) ==
  /\ executors' = [executors EXCEPT ![e] = [pc |-> pc, nonce |-> n]]
  /\ smoke' = [smoke EXCEPT ![n] = x]
  /\ ran' = [ran EXCEPT ![n] = r]
  /\ UNCHANGED <<now, live, tag, boot, probe, receipts, launched>>

\* What such a step has to show.
Allowed(e, n, x, r, pc) ==
  /\ RunOf(x, r)
  /\ smoke[n].contract # NoContract => x.contract = smoke[n].contract
  /\ pc # "idle" => x.contract # NoContract
  /\ ran[n].passed => r = ran[n]
  /\ pc \in {"running", "replayed"} =>
       r.count = 1 /\ \A f \in Executor : OnGpu(f) /\ executors[f].nonce = n => f = e
  /\ pc = "running" => ~r.passed
  /\ \A f \in Executor : f # e /\ OnGpu(f) /\ executors[f].nonce = n => r = ran[n]

LEMMA StepHolds ==
  ASSUME QualificationInv, NEW e \in Executor, NEW n \in Nonce,
         NEW x \in Smoke, NEW r \in Run, NEW pc \in Step,
         Moves(e, n, x, r, pc), Allowed(e, n, x, r, pc)
  PROVE  QualificationInv'
<1> USE DEF Moves, Allowed
<1>1. TypeOK'
  BY DEF QualificationInv, TypeOK, Smoke, Run
<1>2. Builds'
  BY DEF QualificationInv, Builds, BuildOf
<1>3. Receipts'
  BY DEF QualificationInv, Receipts, Written
<1>4. /\ smoke'[n] = x /\ ran'[n] = r /\ executors'[e] = [pc |-> pc, nonce |-> n]
      /\ \A m \in Nonce \ {n} : smoke'[m] = smoke[m] /\ ran'[m] = ran[m]
      /\ \A f \in Executor \ {e} : executors'[f] = executors[f]
  BY DEF QualificationInv, TypeOK
<1>5. Runs'
  <2>1. \A m \in Nonce : RunOf(smoke'[m], ran'[m])
    BY <1>4 DEF QualificationInv, Runs
  <2>2. QED
    BY <2>1 DEF Runs, RunOf, Proper
<1>6. Processes'
  <2>1. ASSUME NEW f \in Executor, executors'[f].pc # "idle"
        PROVE  executors'[f].nonce \in Nonce /\ smoke'[executors'[f].nonce].contract # NoContract
    BY <1>4, <2>1 DEF QualificationInv, Processes
  <2>2. ASSUME NEW f \in Executor \ {e}, executors[f].pc \in {"running", "replayed"}
        PROVE  /\ executors'[f] = executors[f]
               /\ ran'[executors'[f].nonce] = ran[executors[f].nonce]
    <3>1. executors'[f] = executors[f] /\ OnGpu(f)
      BY <1>4, <2>2 DEF OnGpu
    <3>2. executors[f].nonce \in Nonce
      BY <2>2 DEF QualificationInv, Processes
    <3>3. QED
      BY <1>4, <3>1, <3>2
  <2>3. ASSUME NEW f \in Executor, executors'[f].pc \in {"running", "replayed"}
        PROVE  ran'[executors'[f].nonce].count = 1
    <3>1. CASE f = e
      BY <1>4, <2>3, <3>1
    <3>2. CASE f # e
      BY <1>4, <2>3, <2>2, <3>2 DEF QualificationInv, Processes, OnGpu
    <3>3. QED
      BY <3>1, <3>2
  <2>4. ASSUME NEW f \in Executor, executors'[f].pc = "running"
        PROVE  ~ran'[executors'[f].nonce].passed
    <3>1. CASE f = e
      BY <1>4, <2>4, <3>1
    <3>2. CASE f # e
      BY <1>4, <2>4, <2>2, <3>2 DEF QualificationInv, Processes, OnGpu
    <3>3. QED
      BY <3>1, <3>2
  <2>5. ASSUME NEW f \in Executor, NEW g \in Executor, OnGpu(f)', OnGpu(g)',
               executors'[f].nonce = executors'[g].nonce
        PROVE  f = g
    BY <1>4, <2>5 DEF QualificationInv, Processes, OnGpu
  <2>6. QED
    BY <2>1, <2>3, <2>4, <2>5 DEF Processes, OnGpu
<1>7. \A m \in Nonce : ran[m].passed => ran'[m] = ran[m]
  BY <1>4
<1>8. LaunchedIsQualified'
  BY <1>7, LaunchStays
<1>9. QED
  BY <1>1, <1>2, <1>3, <1>5, <1>6, <1>8 DEF QualificationInv

\* What holds of a process and its nonce before each of its steps.
LEMMA Before ==
  ASSUME QualificationInv, NEW e \in Executor, NEW n \in Nonce
  PROVE  /\ smoke[n] \in Smoke /\ ran[n] \in Run /\ RunOf(smoke[n], ran[n])
         /\ smoke = [smoke EXCEPT ![n] = smoke[n]] /\ ran = [ran EXCEPT ![n] = ran[n]]
         /\ \A m \in Nonce, f \in Executor : OnGpu(f) /\ executors[f].nonce = m =>
              ran[m].count = 1 /\ smoke[m].raw
         /\ \A f \in Executor : OnGpu(e) /\ OnGpu(f) /\ executors[e].nonce = n
                               /\ executors[f].nonce = n => f = e
<1>1. smoke[n] \in Smoke /\ ran[n] \in Run /\ RunOf(smoke[n], ran[n])
  BY DEF QualificationInv, TypeOK, Smoke, Run, Runs
<1>2. smoke = [smoke EXCEPT ![n] = smoke[n]] /\ ran = [ran EXCEPT ![n] = ran[n]]
  BY DEF QualificationInv, TypeOK
<1>3. ASSUME NEW m \in Nonce, NEW f \in Executor, OnGpu(f), executors[f].nonce = m
      PROVE  ran[m].count = 1 /\ smoke[m].raw
  BY <1>3 DEF QualificationInv, Runs, RunOf, Processes
<1>4. QED
  BY <1>1, <1>2, <1>3 DEF QualificationInv, Processes

LEMMA BuildPlanHolds ==
  ASSUME QualificationInv, NEW e \in Executor, NEW n \in Nonce, BuildPlan(e, n)
  PROVE  QualificationInv'
<1>1. PICK o \in ReceiptDir, s \in Session :
        LET contract == [boot |-> s, candidate |-> o, image |-> receipts[o].image,
                         manifest |-> receipts[o].pins.manifest]
        IN  /\ CandidateOffline(o)
            /\ smoke[n].contract \in {NoContract, contract}
            /\ smoke' = [smoke EXCEPT ![n].contract = contract]
            /\ Only(e, n, IF Current(smoke[n].auth) THEN "planned" ELSE "idle")
            /\ UNCHANGED ran
  BY DEF BuildPlan
<1> DEFINE contract == [boot |-> s, candidate |-> o, image |-> receipts[o].image,
                        manifest |-> receipts[o].pins.manifest]
           x == [smoke[n] EXCEPT !.contract = contract]
           pc == IF Current(smoke[n].auth) THEN "planned" ELSE "idle"
<1>2. receipts[o] # NoReceipt /\ receipts[o].image # NoImage
  BY <1>1 DEF CandidateOffline, Current, NoReceipt, QualificationInv, Receipts, Written
<1>3. contract \in Contract /\ Proper(contract) /\ contract # NoContract
  <2>1. receipts[o].image \in Image /\ receipts[o].pins \in Pins
    BY DEF QualificationInv, TypeOK, Receipt, Compatibility
  <2>2. QED
    BY <1>2, <2>1 DEF Contract, Proper, NoContract, Pins
<1>4. x \in Smoke /\ x.contract = contract /\ x.raw = smoke[n].raw
      /\ x.evidence = smoke[n].evidence
  BY <1>3, Before DEF Smoke
<1>5. RunOf(x, ran[n])
  BY <1>1, <1>3, <1>4, Before DEF RunOf, Run
<1>6. smoke' = [smoke EXCEPT ![n] = x] /\ ran' = [ran EXCEPT ![n] = ran[n]]
  BY <1>1, Before
<1>7. /\ executors' = [executors EXCEPT ![e] = [pc |-> pc, nonce |-> n]]
      /\ UNCHANGED <<now, live, tag, boot, probe, receipts, launched>>
      /\ pc \in Step \ {"running", "replayed"}
  BY <1>1 DEF Only, Step
<1>8. ran[n] \in Run /\ pc \in Step
  BY <1>7, Before
<1>9. Moves(e, n, x, ran[n], pc)
  BY <1>6, <1>7 DEF Moves
<1>10. Allowed(e, n, x, ran[n], pc)
  BY <1>1, <1>3, <1>4, <1>5, <1>7 DEF Allowed
<1> HIDE DEF x, pc
<1>11. QED
  BY <1>4, <1>8, <1>9, <1>10, StepHolds

\* A process that only looks, or gives up.
LEMMA LookHolds ==
  ASSUME QualificationInv, NEW e \in Executor, NEW n \in Nonce, NEW pc \in Step \ {"running", "replayed"},
         executors[e].pc # "idle", executors[e].nonce = n,
         Only(e, n, pc), UNCHANGED <<smoke, ran>>
  PROVE  QualificationInv'
<1>1. smoke[n] \in Smoke /\ ran[n] \in Run
  BY Before
<1>2. Moves(e, n, smoke[n], ran[n], pc)
  BY Before DEF Moves, Only
<1>3. Allowed(e, n, smoke[n], ran[n], pc)
  BY Before DEF Allowed, QualificationInv, Processes
<1>4. QED
  BY <1>1, <1>2, <1>3, StepHolds

LEMMA CheckPlanHolds ==
  ASSUME QualificationInv, NEW e \in Executor, NEW n \in Nonce, CheckPlan(e, n)
  PROVE  QualificationInv'
<1>1. executors[e].pc = "planned" /\ executors[e].nonce = n
  BY DEF CheckPlan
<1>2. Only(e, n, "checked") /\ UNCHANGED <<smoke, ran>>
  BY DEF CheckPlan
<1>3. QED
  BY <1>1, <1>2, LookHolds DEF Step

LEMMA ClaimHolds ==
  ASSUME QualificationInv, NEW e \in Executor, NEW n \in Nonce, Claim(e, n)
  PROVE  QualificationInv'
<1> DEFINE x == [smoke[n] EXCEPT !.claimed = TRUE]
<1>1. executors[e].pc = "checked" /\ executors[e].nonce = n
  BY DEF Claim
<1>2. /\ x \in Smoke /\ x.contract = smoke[n].contract /\ x.raw = smoke[n].raw
      /\ x.evidence = smoke[n].evidence
  BY Before DEF Smoke
<1>3. ran[n] \in Run /\ "claimed" \in Step
  BY Before DEF Step
<1>4. Moves(e, n, x, ran[n], "claimed")
  BY Before DEF Moves, Only, Claim
<1>5. Allowed(e, n, x, ran[n], "claimed")
  <2>1. RunOf(x, ran[n])
    BY <1>2, Before DEF RunOf
  <2>2. smoke[n].contract # NoContract
    BY <1>1 DEF QualificationInv, Processes
  <2>3. QED
    BY <1>2, <2>1, <2>2 DEF Allowed
<1> HIDE DEF x
<1>6. QED
  BY <1>2, <1>3, <1>4, <1>5, StepHolds

LEMMA GuardedRunHolds ==
  ASSUME QualificationInv, NEW e \in Executor, NEW n \in Nonce, GuardedRun(e, n)
  PROVE  QualificationInv'
<1> DEFINE x == [smoke[n] EXCEPT !.raw = TRUE]
           started == [count |-> ran[n].count + 1, image |-> tag, at |-> now, passed |-> FALSE]
<1>1. executors[e].pc = "claimed" /\ executors[e].nonce = n /\ ~OnGpu(e)
  BY DEF GuardedRun, OnGpu
<1>2. smoke[n].contract # NoContract
  BY <1>1 DEF QualificationInv, Processes
<1>3. /\ x \in Smoke /\ x.contract = smoke[n].contract /\ x.raw
      /\ x.evidence = smoke[n].evidence
  BY Before DEF Smoke
<1>4. smoke' = [smoke EXCEPT ![n] = x]
  BY DEF GuardedRun
<1>5. CASE Only(e, n, "idle") /\ UNCHANGED ran
  <2>1. Moves(e, n, x, ran[n], "idle")
    BY <1>4, <1>5, Before DEF Moves, Only
  <2>2. Allowed(e, n, x, ran[n], "idle")
    <3>1. RunOf(x, ran[n])
      BY <1>3, Before DEF RunOf
    <3>2. QED
      BY <1>3, <3>1 DEF Allowed
  <2>3. ran[n] \in Run /\ "idle" \in Step
    BY Before DEF Step
  <2> HIDE DEF x
  <2>4. QED
    BY <1>3, <2>1, <2>2, <2>3, StepHolds
<1>6. CASE /\ ~smoke[n].raw /\ tag # NoImage /\ CandidateValid(smoke[n].contract.candidate, tag)
           /\ Only(e, n, "running")
           /\ ran' = [ran EXCEPT ![n] = [count |-> @.count + 1, image |-> tag, at |-> now,
                                         passed |-> FALSE]]
  <2>1. ran[n].count = 0 /\ ~ran[n].passed /\ ~smoke[n].evidence.ready
        /\ Proper(smoke[n].contract)
    BY <1>2, <1>6, Before DEF RunOf
  <2>2. started \in Run /\ started.count = 1 /\ "running" \in Step
    BY <2>1, Before DEF QualificationInv, TypeOK, Run, Step
  <2>3. /\ receipts[smoke[n].contract.candidate].image = tag
        /\ receipts[smoke[n].contract.candidate].at <= now
    BY <1>6, <2>1 DEF CandidateValid, Proper, QualificationInv, Receipts, Written
  <2>4. RunOf(x, started)
    BY <1>2, <1>3, <2>1, <2>2, <2>3 DEF RunOf, Proper
  <2>5. \A f \in Executor : ~(OnGpu(f) /\ executors[f].nonce = n)
    BY <2>1, Before
  <2>6. Moves(e, n, x, started, "running")
    BY <1>4, <1>6, Before DEF Moves, Only
  <2>7. Allowed(e, n, x, started, "running")
    BY <1>2, <1>3, <2>1, <2>2, <2>4, <2>5 DEF Allowed
  <2> HIDE DEF x, started
  <2>8. QED
    BY <1>3, <2>2, <2>6, <2>7, StepHolds
<1>7. QED
  BY <1>5, <1>6 DEF GuardedRun

LEMMA EndRunHolds ==
  ASSUME QualificationInv, NEW e \in Executor, NEW n \in Nonce, EndRun(e, n)
  PROVE  QualificationInv'
<1>1. executors[e].pc = "running" /\ executors[e].nonce = n /\ OnGpu(e)
  BY DEF EndRun, OnGpu
<1>2. UNCHANGED smoke
  BY DEF EndRun
<1>3. CASE Only(e, n, "idle") /\ UNCHANGED ran
  BY <1>1, <1>2, <1>3, LookHolds DEF Step
<1>4. CASE /\ Only(e, n, "replayed")
           /\ \E ok \in BOOLEAN : ran' = [ran EXCEPT ![n].passed = ok]
  <2>1. PICK ok \in BOOLEAN : ran' = [ran EXCEPT ![n].passed = ok]
    BY <1>4
  <2> DEFINE r == [ran[n] EXCEPT !.passed = ok]
  <2>2. ~ran[n].passed /\ ran[n].count = 1 /\ ~smoke[n].evidence.ready
        /\ smoke[n].contract # NoContract
    BY <1>1, Before DEF QualificationInv, Processes, RunOf
  <2>3. /\ r \in Run /\ r.count = ran[n].count /\ r.image = ran[n].image /\ r.at = ran[n].at
        /\ "replayed" \in Step /\ smoke[n] \in Smoke
    BY Before DEF Run, Step
  <2>4. RunOf(smoke[n], r)
    BY <2>2, <2>3, Before DEF RunOf
  <2>5. Moves(e, n, smoke[n], r, "replayed")
    BY <1>2, <1>4, <2>1, Before DEF Moves, Only
  <2>6. \A f \in Executor : OnGpu(f) /\ executors[f].nonce = n => f = e
    BY <1>1, Before
  <2>7. Allowed(e, n, smoke[n], r, "replayed")
    BY <2>2, <2>3, <2>4, <2>6 DEF Allowed
  <2> HIDE DEF r
  <2>8. QED
    BY <2>3, <2>5, <2>7, StepHolds
<1>5. QED
  BY <1>3, <1>4 DEF EndRun

LEMMA WriteEvidenceHolds ==
  ASSUME QualificationInv, NEW e \in Executor, NEW n \in Nonce, WriteEvidence(e, n)
  PROVE  QualificationInv'
<1> DEFINE evidence == [at |-> now, image |-> smoke[n].contract.image,
                        pins |-> [NoPins EXCEPT !.manifest = smoke[n].contract.manifest],
                        ready |-> ran[n].passed]
           x == [smoke[n] EXCEPT !.evidence = evidence]
<1>1. executors[e].pc = "replayed" /\ executors[e].nonce = n /\ OnGpu(e)
  BY DEF WriteEvidence, OnGpu
<1>2. Only(e, n, "idle") /\ UNCHANGED ran
  BY DEF WriteEvidence
<1>3. CASE UNCHANGED smoke
  BY <1>1, <1>2, <1>3, LookHolds DEF Step
<1>4. CASE smoke' = [smoke EXCEPT ![n].evidence = evidence]
  <2>1. ran[n].count = 1 /\ ran[n].image = smoke[n].contract.image
    BY <1>1, Before DEF RunOf
  <2>2. evidence \in Receipt
    BY Before, NoneTyped DEF QualificationInv, TypeOK, Receipt, Pins, Smoke, Contract, Run
  <2>3. /\ x \in Smoke /\ x.contract = smoke[n].contract /\ x.raw = smoke[n].raw
        /\ x.evidence = evidence
    BY <2>2, Before DEF Smoke
  <2>4. RunOf(x, ran[n])
    BY <2>1, <2>3, Before DEF RunOf
  <2>5. Moves(e, n, x, ran[n], "idle")
    BY <1>2, <1>4, Before DEF Moves, Only
  <2>6. Allowed(e, n, x, ran[n], "idle")
    BY <2>3, <2>4 DEF Allowed
  <2>7. ran[n] \in Run /\ "idle" \in Step
    BY Before DEF Step
  <2> HIDE DEF x
  <2>8. QED
    BY <2>3, <2>5, <2>6, <2>7, StepHolds
<1>5. QED
  BY <1>3, <1>4 DEF WriteEvidence

-----------------------------------------------------------------------------
(* Deaths, the operator and the world                                      *)

LEMMA KillSmokeHolds ==
  ASSUME QualificationInv, NEW e \in Executor, KillSmoke(e)
  PROVE  QualificationInv'
<1> USE DEF KillSmoke
<1>1. /\ executors'[e] = NoProcess
      /\ \A f \in Executor \ {e} : executors'[f] = executors[f]
  BY DEF QualificationInv, TypeOK
<1>2. TypeOK'
  BY DEF QualificationInv, TypeOK, NoProcess, Step
<1>3. Builds' /\ Receipts'
  BY DEF QualificationInv, Builds, BuildOf, Receipts, Written
<1>4. Runs'
  BY DEF QualificationInv, Runs, RunOf, Proper
<1>5. Processes'
  BY <1>1 DEF QualificationInv, Processes, OnGpu, NoProcess
<1>6. LaunchedIsQualified'
  BY LaunchStays
<1>7. QED
  BY <1>2, <1>3, <1>4, <1>5, <1>6 DEF QualificationInv

LEMMA AuthorizeHolds ==
  ASSUME QualificationInv, NEW n \in Nonce, Authorize(n)
  PROVE  QualificationInv'
<1> DEFINE x == [smoke[n] EXCEPT !.auth.at = now]
<1>1. [smoke[n].auth EXCEPT !.at = now] \in Receipt
  <2>1. smoke[n].auth \in Receipt /\ now \in Nat
    BY DEF QualificationInv, TypeOK
  <2>2. QED
    BY <2>1 DEF Receipt
<1>2. /\ x \in [contract : Contract, auth : Receipt, claimed : BOOLEAN, raw : BOOLEAN,
                evidence : Receipt]
      /\ x.contract = smoke[n].contract /\ x.raw = smoke[n].raw
      /\ x.evidence = smoke[n].evidence
  BY <1>1 DEF QualificationInv, TypeOK
<1>3. smoke' = [smoke EXCEPT ![n] = x]
  BY DEF QualificationInv, TypeOK, Authorize
<1>4. UNCHANGED <<now, live, tag, boot, probe, receipts, executors, ran, launched>>
  BY DEF Authorize
<1> HIDE DEF x
<1>5. TypeOK'
  BY <1>2, <1>3, <1>4 DEF QualificationInv, TypeOK
<1>6. Builds' /\ Receipts'
  BY <1>4 DEF QualificationInv, Builds, BuildOf, Receipts, Written
<1>7. \A m \in Nonce : /\ smoke'[m].contract = smoke[m].contract
                       /\ smoke'[m].raw = smoke[m].raw
                       /\ smoke'[m].evidence = smoke[m].evidence
  BY <1>2, <1>3 DEF QualificationInv, TypeOK
<1>8. Runs'
  BY <1>7, <1>4 DEF QualificationInv, Runs, RunOf, Proper
<1>9. Processes'
  BY <1>7, <1>4 DEF QualificationInv, Processes, OnGpu
<1>10. LaunchedIsQualified'
  BY <1>4, LaunchStays
<1>11. QED
  BY <1>5, <1>6, <1>8, <1>9, <1>10 DEF QualificationInv

\* Files, tag and clock: a step of the world that changes one of them forwards.
LEMMA WorldHolds ==
  ASSUME QualificationInv, UNCHANGED <<boot, probe, receipts, smoke, executors, ran, launched>>,
         now' \in Nat, now <= now', live' \in Pins, live.files <= live'.files,
         live'.manifest <= live'.files, tag' \in Image
  PROVE  QualificationInv'
<1>1. now \in Nat \ {0} /\ live.files \in Nat /\ live'.files \in Nat
  BY DEF QualificationInv, TypeOK, Pins
<1>2. TypeOK'
  BY <1>1 DEF QualificationInv, TypeOK
<1>3. Builds'
  <2> SUFFICES ASSUME NEW s \in Session PROVE BuildOf(boot[s])'
    BY DEF Builds
  <2>1. boot[s] \in [stage : Stage, discovery : Receipt, production : Receipt]
    BY DEF QualificationInv, TypeOK
  <2>2. boot[s].discovery.at \in Nat /\ boot[s].production.image.files \in Nat
    BY <2>1 DEF Receipt, Image
  <2>3. BuildOf(boot[s])
    BY DEF QualificationInv, Builds
  <2>4. QED
    BY <1>1, <2>2, <2>3 DEF BuildOf
<1>4. Receipts'
  <2>1. \A o \in ReceiptDir : Written(receipts[o]) => Written(receipts[o])'
    BY WrittenStays DEF QualificationInv, TypeOK, Written
  <2>2. QED
    BY <2>1 DEF QualificationInv, Receipts
<1>5. Runs' /\ Processes'
  BY RestStays
<1>6. LaunchedIsQualified'
  BY LaunchStays
<1>7. QED
  BY <1>2, <1>3, <1>4, <1>5, <1>6 DEF QualificationInv

LEMMA EditFilesHolds == QualificationInv /\ EditFiles => QualificationInv'
<1> SUFFICES ASSUME QualificationInv, EditFiles PROVE QualificationInv'
  OBVIOUS
<1>1. live' \in Pins /\ live.files <= live'.files /\ live'.manifest <= live'.files
  <2>1. PICK i \in {live.inputs, live.files + 1} :
          live' = [live EXCEPT !.files = @ + 1, !.inputs = i]
    BY DEF EditFiles
  <2>2. /\ live \in Pins /\ live.manifest <= live.files
        /\ live.files \in Nat /\ live.manifest \in Nat
    BY DEF QualificationInv, Builds, TypeOK, Pins
  <2>3. /\ live' \in Pins /\ live'.files = live.files + 1 /\ live'.manifest = live.manifest
    <3> DEFINE edited == [live EXCEPT !.files = live.files + 1]
    <3>1. i \in Nat
      BY <2>2 DEF Pins
    <3>2. /\ edited \in Pins /\ edited.files = live.files + 1
          /\ edited.manifest = live.manifest
      BY <2>2 DEF Pins
    <3>3. live' = [edited EXCEPT !.inputs = i]
      BY <2>1
    <3> HIDE DEF edited
    <3>4. QED
      BY <3>1, <3>2, <3>3 DEF Pins
  <2>4. QED
    BY <2>2, <2>3
<1>2. now' \in Nat /\ now <= now' /\ tag' \in Image
  BY DEF EditFiles, QualificationInv, TypeOK
<1>3. QED
  BY <1>1, <1>2, WorldHolds DEF EditFiles

LEMMA WriteManifestHolds == QualificationInv /\ WriteManifest => QualificationInv'
<1> SUFFICES ASSUME QualificationInv, WriteManifest PROVE QualificationInv'
  OBVIOUS
<1>1. live' \in Pins /\ live.files <= live'.files /\ live'.manifest <= live'.files
  BY DEF WriteManifest, QualificationInv, Builds, TypeOK, Pins
<1>2. now' \in Nat /\ now <= now' /\ tag' \in Image
  BY DEF WriteManifest, QualificationInv, TypeOK
<1>3. QED
  BY <1>1, <1>2, WorldHolds DEF WriteManifest

LEMMA RetagHolds == QualificationInv /\ Retag => QualificationInv'
<1> SUFFICES ASSUME QualificationInv, Retag PROVE QualificationInv'
  OBVIOUS
<1>1. tag' \in Image
  BY DEF Retag, QualificationInv, TypeOK, Receipt
<1>2. /\ now' \in Nat /\ now <= now' /\ live' \in Pins
      /\ live.files <= live'.files /\ live'.manifest <= live'.files
  BY DEF Retag, QualificationInv, Builds, TypeOK, Pins
<1>3. QED
  BY <1>1, <1>2, WorldHolds DEF Retag

LEMMA AdvanceClockHolds == QualificationInv /\ AdvanceClock => QualificationInv'
<1> SUFFICES ASSUME QualificationInv, AdvanceClock PROVE QualificationInv'
  OBVIOUS
<1>1. now' \in Nat /\ now <= now'
  BY DEF AdvanceClock, QualificationInv, TypeOK
<1>2. /\ live' \in Pins /\ live.files <= live'.files /\ live'.manifest <= live'.files
      /\ tag' \in Image
  BY DEF AdvanceClock, QualificationInv, Builds, TypeOK, Pins
<1>3. QED
  BY <1>1, <1>2, WorldHolds DEF AdvanceClock

-----------------------------------------------------------------------------
(* The theorems                                                            *)

LEMMA QualificationNextHolds == QualificationInv /\ [QualificationNext]_qualificationVars => QualificationInv'
<1> SUFFICES ASSUME QualificationInv, [QualificationNext]_qualificationVars
             PROVE  QualificationInv'
  OBVIOUS
<1>1. ASSUME NEW s \in Session,
             Discover(s) \/ StartProduction(s) \/ BuildImage(s) \/ WriteProduction(s)
      PROVE  QualificationInv'
  BY <1>1, DiscoverHolds, StartProductionHolds, BuildImageHolds, WriteProductionHolds
<1>2. ASSUME NEW o \in ReceiptDir, StartProbe(o) \/ LaunchQualified(o)
      PROVE  QualificationInv'
  BY <1>2, StartProbeHolds, LaunchHolds
<1>3. CASE EndProbe
  BY <1>3, EndProbeHolds
<1>4. ASSUME NEW e \in Executor, KillSmoke(e)
      PROVE  QualificationInv'
  BY <1>4, KillSmokeHolds
<1>5. ASSUME NEW e \in Executor, NEW n \in Nonce, SmokeStep(e, n)
      PROVE  QualificationInv'
  BY <1>5, BuildPlanHolds, CheckPlanHolds, ClaimHolds, GuardedRunHolds, EndRunHolds,
     WriteEvidenceHolds DEF SmokeStep
<1>6. ASSUME NEW n \in Nonce, Authorize(n)
      PROVE  QualificationInv'
  BY <1>6, AuthorizeHolds
<1>7. CASE EditFiles \/ WriteManifest \/ Retag \/ AdvanceClock
  BY <1>7, EditFilesHolds, WriteManifestHolds, RetagHolds, AdvanceClockHolds
<1>8. CASE UNCHANGED qualificationVars
  <2>1. UNCHANGED <<now, live, tag, boot, probe, receipts, smoke, executors, ran, launched>>
    BY <1>8 DEF qualificationVars
  <2>2. /\ now' \in Nat /\ now <= now' /\ live' \in Pins /\ tag' \in Image
        /\ live.files <= live'.files /\ live'.manifest <= live'.files
    BY <2>1 DEF QualificationInv, Builds, TypeOK, Pins
  <2>3. QED
    BY <2>1, <2>2, WorldHolds
<1>9. QED
  BY <1>1, <1>2, <1>3, <1>4, <1>5, <1>6, <1>7, <1>8 DEF QualificationNext

-----------------------------------------------------------------------------
(* CAVIAR runs                                                             *)

CaviarSteps ==
  {"idle", "clear", "prepare", "preflight", "guard", "wait", "postflight", "convert", "evaluate",
   "receipt"}

Frame == [run : Nat, video : Revision]
FrameFiles == UNION {[S -> Frame] : S \in SUBSET Nat}
Manifests ==
  [run : Nat, status : {"none", "dry-run", "running", "safety_abort", "failed", "complete"},
   truth : BOOLEAN, frames : SUBSET Nat]
Roots ==
  [incarnation : Nat, configs : Nat, kitti : FrameFiles, log : Nat, predictions : FrameFiles,
   evaluation : Revision \cup {"none"}, manifest : Manifests,
   receipt : [state : {"none", "whole", "partial"}, manifest : Manifests]]
Box == [run : Nat, incarnation : Nat, video : Revision, next : Nat]

CaviarShapes ==
  /\ inputs \in [Input -> Revision] /\ inputEdits \in Nat
  /\ caviar \in [n : Nat, pc : CaviarSteps, kind : {"plain", "batch", "dry"}, truth : BOOLEAN,
                 frames : SUBSET Nat]
  /\ runRoot \in Roots /\ boxes \subseteq Box
  /\ caviar.pc # "idle" => caviar.n > 0

\* The container writes into the run root, not into a directory that was removed.
Mounted(b) == b.incarnation = runRoot.incarnation

\* A root that a container has mounted does not look empty.
BoxesKnown ==
  \A b \in boxes :
    /\ b.run <= caviar.n /\ b.incarnation <= runRoot.incarnation
    /\ Mounted(b) => runRoot.log # 0 \/ DOMAIN runRoot.kitti # {}
    /\ caviar.pc \in {"clear", "prepare", "preflight", "guard"} => b.run < caviar.n

Alone == \A b \in boxes : ~Mounted(b)

OfRun(files, n) ==
  \E video \in Revision : \A f \in DOMAIN files : files[f] = [run |-> n, video |-> video]

\* While the container runs it is the only one that writes into the root.
Waited ==
  caviar.pc = "wait" =>
    \E b \in boxes :
      /\ b.run = caviar.n /\ Mounted(b)
      /\ \A c \in boxes : Mounted(c) \/ c.run = caviar.n => c = b
      /\ \A f \in DOMAIN runRoot.kitti :
           runRoot.kitti[f] = [run |-> caviar.n, video |-> b.video]

\* The root of a run that did not end yet is new, and no other container has it.
RootIsNew ==
  /\ caviar.pc \in CaviarSteps \ {"idle", "clear", "receipt"} =>
       runRoot.manifest.status \in {"none", "running"} /\ runRoot.receipt.state = "none"
  /\ caviar.pc \in {"prepare", "preflight", "guard"} => Alone /\ DOMAIN runRoot.kitti = {}
  /\ caviar.pc \in {"postflight", "convert", "evaluate", "receipt"} => Alone
  /\ caviar.pc \in {"postflight", "convert"} => OfRun(runRoot.kitti, caviar.n)
  /\ caviar.pc = "evaluate" =>
       /\ OfRun(runRoot.predictions, caviar.n)
       /\ ExportedAll(runRoot.predictions, caviar.truth, caviar.frames)
  /\ caviar.pc = "receipt" => caviar.kind = "batch" /\ runRoot.manifest.status = "complete"

\* An edited video that is pinned again was edited twice.
Traced(video) ==
  video = "edited" => inputEdits > 0 /\ (inputs["video"] = "pinned" => inputEdits > 1)

PinnedOrTwo(files) == \A f \in DOMAIN files : files[f].video = "pinned" \/ inputEdits > 1

EditsTraced ==
  /\ Traced(inputs["video"])
  /\ \A b \in boxes : Traced(b.video)
  /\ \A f \in DOMAIN runRoot.kitti : Traced(runRoot.kitti[f].video)

Earned ==
  /\ caviar.kind = "batch" =>
       /\ caviar.pc = "convert" => PinnedOrTwo(runRoot.kitti)
       /\ caviar.pc \in {"evaluate", "receipt"} => PinnedOrTwo(runRoot.predictions)
  /\ runRoot.receipt.state = "whole" =>
       /\ runRoot.receipt.manifest.status = "complete" /\ runRoot.evaluation # "none"
       /\ PinnedOrTwo(runRoot.predictions)

CaviarInv ==
  /\ CaviarShapes /\ BoxesKnown /\ Waited /\ RootIsNew /\ EditsTraced /\ Earned
  /\ CompletedIsOfOneRun

LEMMA NoFiles == <<>> \in FrameFiles /\ DOMAIN <<>> = {}
<1>1. <<>> \in [{} -> Frame]
  OBVIOUS
<1>2. QED
  BY <1>1 DEF FrameFiles

LEMMA EmptyRootTyped ==
  ASSUME NEW i \in Nat
  PROVE  /\ EmptyRoot(i) \in Roots /\ EmptyRoot(i).kitti = <<>> /\ EmptyRoot(i).incarnation = i
         /\ EmptyRoot(i).log = 0 /\ EmptyRoot(i).manifest.status = "none"
         /\ EmptyRoot(i).receipt.state = "none" /\ EmptyRoot(i).predictions = <<>>
<1>1. NoManifest \in Manifests
  BY DEF NoManifest, Manifests
<1>2. QED
  BY <1>1, NoFiles DEF EmptyRoot, Roots, NoManifest

LEMMA CaviarInitHolds == CaviarInit => CaviarInv
<1> SUFFICES ASSUME CaviarInit PROVE CaviarInv
  OBVIOUS
<1>1. runRoot \in Roots /\ DOMAIN runRoot.kitti = {} /\ runRoot.manifest.status = "none"
      /\ runRoot.receipt.state = "none"
  BY EmptyRootTyped, NoFiles DEF CaviarInit
<1>2. CaviarShapes
  BY <1>1 DEF CaviarInit, CaviarShapes, NoCaviarRun, CaviarSteps, Input, Revision
<1>3. BoxesKnown /\ Waited /\ RootIsNew /\ EditsTraced
  BY <1>1 DEF CaviarInit, BoxesKnown, Waited, RootIsNew, EditsTraced, Traced, NoCaviarRun, Input
<1>4. Earned /\ CompletedIsOfOneRun
  BY <1>1 DEF CaviarInit, Earned, NoCaviarRun, CompletedIsOfOneRun
<1>5. QED
  BY <1>2, <1>3, <1>4 DEF CaviarInv

\* Where the step of a run leaves it.
LEMMA CaviarGone ==
  ASSUME CaviarShapes, NEW pc \in CaviarSteps, CaviarGoes(pc)
  PROVE  /\ caviar' \in [n : Nat, pc : CaviarSteps, kind : {"plain", "batch", "dry"},
                         truth : BOOLEAN, frames : SUBSET Nat]
         /\ caviar'.pc = pc /\ caviar'.n = caviar.n /\ caviar'.kind = caviar.kind
         /\ caviar'.truth = caviar.truth /\ caviar'.frames = caviar.frames
<1>1. caviar \in [n : Nat, pc : CaviarSteps, kind : {"plain", "batch", "dry"},
                  truth : BOOLEAN, frames : SUBSET Nat]
  BY DEF CaviarShapes
<1>2. QED
  BY <1>1 DEF CaviarGoes

\* A manifest of the run.
LEMMA ManifestTyped ==
  ASSUME CaviarShapes,
         NEW status \in {"none", "dry-run", "running", "safety_abort", "failed", "complete"}
  PROVE  /\ Manifest(status) \in Manifests /\ Manifest(status).status = status
         /\ Manifest(status).run = caviar.n /\ Manifest(status).frames = caviar.frames
         /\ Manifest(status).truth = caviar.truth
BY DEF CaviarShapes, Manifest, Manifests

\* A run that ends leaves the root as it is, but for a manifest that says so.
LEMMA CaviarEnds ==
  ASSUME CaviarInv, CaviarGoes("idle"), NEW status \in {"dry-run", "safety_abort", "failed"},
         runRoot' \in Told(runRoot, status), UNCHANGED <<inputs, inputEdits>>,
         boxes' \subseteq boxes
  PROVE  CaviarInv'
<1>1. /\ caviar' \in [n : Nat, pc : CaviarSteps, kind : {"plain", "batch", "dry"},
                      truth : BOOLEAN, frames : SUBSET Nat]
      /\ caviar'.pc = "idle" /\ caviar'.n = caviar.n
  BY CaviarGone DEF CaviarInv, CaviarSteps
<1>2. Manifest(status) \in Manifests /\ Manifest(status).status = status
  BY ManifestTyped DEF CaviarInv
<1>3. /\ runRoot' \in Roots
      /\ runRoot'.incarnation = runRoot.incarnation /\ runRoot'.kitti = runRoot.kitti
      /\ runRoot'.log = runRoot.log /\ runRoot'.predictions = runRoot.predictions
      /\ runRoot'.evaluation = runRoot.evaluation /\ runRoot'.receipt = runRoot.receipt
      /\ runRoot'.manifest = runRoot.manifest \/ runRoot'.manifest.status = status
  BY <1>2 DEF Told, CaviarInv, CaviarShapes, Roots
<1>4. CaviarShapes'
  BY <1>1, <1>3 DEF CaviarInv, CaviarShapes
<1>5. BoxesKnown' /\ Waited' /\ RootIsNew'
  BY <1>1, <1>3 DEF CaviarInv, BoxesKnown, Waited, RootIsNew, Mounted, CaviarSteps
<1>6. EditsTraced'
  BY <1>3 DEF CaviarInv, EditsTraced, Traced
<1>7. Earned'
  BY <1>1, <1>3 DEF CaviarInv, Earned, PinnedOrTwo
<1>8. CompletedIsOfOneRun'
  BY <1>3 DEF CaviarInv, CompletedIsOfOneRun
<1>9. QED
  BY <1>4, <1>5, <1>6, <1>7, <1>8 DEF CaviarInv

LEMMA StartCaviarHolds ==
  ASSUME CaviarInv, NEW kind \in {"plain", "batch", "dry"}, NEW truth \in BOOLEAN,
         NEW force \in BOOLEAN, StartCaviar(kind, truth, force)
  PROVE  CaviarInv'
<1> DEFINE pc == IF runRoot = EmptyRoot(runRoot.incarnation) THEN "prepare" ELSE "clear"
<1>1. PICK frames \in {{}, FramesOf(inputs["video"])} :
        caviar' = [n |-> caviar.n + 1, kind |-> kind, truth |-> truth, frames |-> frames, pc |-> pc]
  BY DEF StartCaviar
<1>2. caviar.n \in Nat /\ frames \in SUBSET Nat /\ runRoot.incarnation \in Nat
  BY DEF CaviarInv, CaviarShapes, FramesOf, Roots
<1>3. UNCHANGED <<inputs, inputEdits, runRoot, boxes>>
  BY DEF StartCaviar
<1>4. CaviarShapes'
  BY <1>1, <1>2, <1>3 DEF CaviarInv, CaviarShapes, CaviarSteps
<1>5. \A b \in boxes : b.run \in Nat /\ b.run < caviar'.n
  BY <1>1, <1>2 DEF CaviarInv, CaviarShapes, BoxesKnown, Box
<1>6. BoxesKnown'
  BY <1>1, <1>2, <1>3, <1>5 DEF CaviarInv, BoxesKnown, Mounted
<1>7. pc = "prepare" =>
        /\ runRoot.log = 0 /\ DOMAIN runRoot.kitti = {} /\ runRoot.manifest.status = "none"
        /\ runRoot.receipt.state = "none"
  BY <1>2, EmptyRootTyped, NoFiles
<1>8. pc = "prepare" => Alone
  BY <1>7 DEF CaviarInv, BoxesKnown, Alone
<1>9. Waited' /\ RootIsNew'
  BY <1>1, <1>3, <1>7, <1>8 DEF Waited, RootIsNew, Alone, Mounted
<1>10. EditsTraced' /\ Earned'
  BY <1>1, <1>3 DEF CaviarInv, EditsTraced, Traced, Earned, PinnedOrTwo
<1>11. CompletedIsOfOneRun'
  BY <1>3 DEF CaviarInv, CompletedIsOfOneRun
<1>12. QED
  BY <1>4, <1>6, <1>9, <1>10, <1>11 DEF CaviarInv

LEMMA ClearRootHolds == ASSUME CaviarInv, ClearRoot PROVE CaviarInv'
<1>1. caviar.pc = "clear" /\ UNCHANGED <<inputs, inputEdits, boxes>> /\ runRoot.incarnation \in Nat
  BY DEF ClearRoot, CaviarInv, CaviarShapes, Roots
<1>2. CASE runRoot' = EmptyRoot(runRoot.incarnation + 1) /\ CaviarGoes("prepare")
  <2>1. /\ caviar' \in [n : Nat, pc : CaviarSteps, kind : {"plain", "batch", "dry"},
                        truth : BOOLEAN, frames : SUBSET Nat]
        /\ caviar'.pc = "prepare" /\ caviar'.n = caviar.n
    BY <1>2, CaviarGone DEF CaviarInv, CaviarSteps
  <2>2. /\ runRoot' \in Roots /\ DOMAIN runRoot'.kitti = {} /\ DOMAIN runRoot'.predictions = {}
        /\ runRoot'.incarnation = runRoot.incarnation + 1
        /\ runRoot'.manifest.status = "none" /\ runRoot'.receipt.state = "none"
    BY <1>1, <1>2, EmptyRootTyped, NoFiles
  <2>3. \A b \in boxes : b.incarnation \in Nat /\ b.incarnation < runRoot'.incarnation
    BY <1>1, <2>2 DEF CaviarInv, CaviarShapes, BoxesKnown, Box
  <2>4. CaviarShapes'
    BY <1>1, <2>1, <2>2 DEF CaviarInv, CaviarShapes
  <2>5. Alone' /\ BoxesKnown'
    <3>1. \A b \in boxes : ~Mounted(b)' /\ b.incarnation <= runRoot'.incarnation
      BY <1>1, <2>2, <2>3 DEF Mounted
    <3>2. \A b \in boxes : b.run <= caviar.n /\ b.run < caviar.n
      BY <1>1 DEF CaviarInv, BoxesKnown
    <3>3. QED
      BY <1>1, <2>1, <3>1, <3>2 DEF BoxesKnown, Alone
  <2>6. Waited' /\ RootIsNew'
    BY <2>1, <2>2, <2>5 DEF Waited, RootIsNew
  <2>7. EditsTraced' /\ Earned' /\ CompletedIsOfOneRun'
    BY <1>1, <2>1, <2>2 DEF CaviarInv, EditsTraced, Traced, Earned, CompletedIsOfOneRun
  <2>8. QED
    BY <2>4, <2>5, <2>6, <2>7 DEF CaviarInv
<1>3. CASE /\ DOMAIN runRoot.kitti # {}
           /\ runRoot' = [EmptyRoot(runRoot.incarnation) EXCEPT !.kitti = runRoot.kitti]
           /\ CaviarGoes("idle")
  <2>1. /\ caviar' \in [n : Nat, pc : CaviarSteps, kind : {"plain", "batch", "dry"},
                        truth : BOOLEAN, frames : SUBSET Nat]
        /\ caviar'.pc = "idle" /\ caviar'.n = caviar.n
    BY <1>3, CaviarGone DEF CaviarInv, CaviarSteps
  <2>2. EmptyRoot(runRoot.incarnation) \in Roots
    BY <1>1, EmptyRootTyped
  <2>3. /\ runRoot' \in Roots /\ runRoot'.kitti = runRoot.kitti
        /\ runRoot'.incarnation = runRoot.incarnation
        /\ runRoot'.manifest.status = "none" /\ runRoot'.receipt.state = "none"
    BY <1>1, <1>3, <2>2, EmptyRootTyped DEF CaviarInv, CaviarShapes, Roots
  <2>4. CaviarShapes'
    BY <1>1, <2>1, <2>3 DEF CaviarInv, CaviarShapes
  <2>5. BoxesKnown'
    BY <1>1, <1>3, <2>1, <2>3 DEF CaviarInv, BoxesKnown, Mounted
  <2>6. Waited' /\ RootIsNew'
    BY <2>1 DEF Waited, RootIsNew
  <2>7. EditsTraced' /\ Earned' /\ CompletedIsOfOneRun'
    BY <1>1, <2>1, <2>3 DEF CaviarInv, EditsTraced, Traced, Earned, CompletedIsOfOneRun
  <2>8. QED
    BY <2>4, <2>5, <2>6, <2>7 DEF CaviarInv
<1>4. QED
  BY <1>2, <1>3 DEF ClearRoot, Cleared

LEMMA PrepareHolds == ASSUME CaviarInv, Prepare PROVE CaviarInv'
<1>1. /\ caviar.pc = "prepare" /\ UNCHANGED <<inputs, inputEdits, boxes>>
      /\ runRoot' = [runRoot EXCEPT !.configs = caviar.n]
  BY DEF Prepare, WrittenConfigs
<1>2. /\ caviar' \in [n : Nat, pc : CaviarSteps, kind : {"plain", "batch", "dry"},
                      truth : BOOLEAN, frames : SUBSET Nat]
      /\ caviar'.pc = "preflight" /\ caviar'.n = caviar.n /\ caviar'.kind = caviar.kind
  BY CaviarGone DEF Prepare, CaviarInv, CaviarSteps
<1>3. /\ runRoot' \in Roots
      /\ runRoot'.incarnation = runRoot.incarnation /\ runRoot'.kitti = runRoot.kitti
      /\ runRoot'.log = runRoot.log /\ runRoot'.predictions = runRoot.predictions
      /\ runRoot'.evaluation = runRoot.evaluation /\ runRoot'.receipt = runRoot.receipt
      /\ runRoot'.manifest = runRoot.manifest
  BY <1>1 DEF CaviarInv, CaviarShapes, Roots
<1>4. CaviarShapes'
  BY <1>1, <1>2, <1>3 DEF CaviarInv, CaviarShapes
<1>5. BoxesKnown' /\ Waited' /\ RootIsNew'
  BY <1>1, <1>2, <1>3
     DEF CaviarInv, BoxesKnown, Waited, RootIsNew, Alone, Mounted, CaviarSteps
<1>6. EditsTraced' /\ Earned' /\ CompletedIsOfOneRun'
  BY <1>1, <1>2, <1>3
     DEF CaviarInv, EditsTraced, Traced, Earned, PinnedOrTwo, CompletedIsOfOneRun
<1>7. QED
  BY <1>4, <1>5, <1>6 DEF CaviarInv

LEMMA PreflightHolds == ASSUME CaviarInv, Preflight PROVE CaviarInv'
<1>1. caviar.pc = "preflight" /\ UNCHANGED <<inputs, inputEdits, boxes>>
  BY DEF Preflight
<1>2. CASE caviar.kind = "batch" /\ ~LivePins
  BY <1>1, <1>2, CaviarEnds DEF Preflight, Told
<1>3. CASE ~(caviar.kind = "batch" /\ ~LivePins) /\ caviar.kind = "dry"
  BY <1>1, <1>3, CaviarEnds DEF Preflight, Told
<1>4. CASE ~(caviar.kind = "batch" /\ ~LivePins) /\ caviar.kind # "dry"
  <2>1. CaviarGoes("guard") /\ runRoot' = [runRoot EXCEPT !.manifest = Manifest("running")]
    BY <1>4 DEF Preflight
  <2>2. /\ caviar' \in [n : Nat, pc : CaviarSteps, kind : {"plain", "batch", "dry"},
                        truth : BOOLEAN, frames : SUBSET Nat]
        /\ caviar'.pc = "guard" /\ caviar'.n = caviar.n /\ caviar'.kind = caviar.kind
    BY <2>1, CaviarGone DEF CaviarInv, CaviarSteps
  <2>3. Manifest("running") \in Manifests /\ Manifest("running").status = "running"
    BY ManifestTyped DEF CaviarInv
  <2>4. /\ runRoot' \in Roots
        /\ runRoot'.incarnation = runRoot.incarnation /\ runRoot'.kitti = runRoot.kitti
        /\ runRoot'.log = runRoot.log /\ runRoot'.predictions = runRoot.predictions
        /\ runRoot'.evaluation = runRoot.evaluation /\ runRoot'.receipt = runRoot.receipt
        /\ runRoot'.manifest.status = "running"
    BY <2>1, <2>3 DEF CaviarInv, CaviarShapes, Roots
  <2>5. CaviarShapes'
    BY <1>1, <2>2, <2>4 DEF CaviarInv, CaviarShapes
  <2>6. BoxesKnown' /\ Waited' /\ RootIsNew'
    BY <1>1, <2>2, <2>4 DEF CaviarInv, BoxesKnown, Waited, RootIsNew, Alone, Mounted, CaviarSteps
  <2>7. EditsTraced' /\ Earned' /\ CompletedIsOfOneRun'
    BY <1>1, <2>2, <2>4
       DEF CaviarInv, EditsTraced, Traced, Earned, PinnedOrTwo, CompletedIsOfOneRun
  <2>8. QED
    BY <2>5, <2>6, <2>7 DEF CaviarInv
<1>5. QED
  BY <1>2, <1>3, <1>4

LEMMA GuardCaviarHolds == ASSUME CaviarInv, GuardCaviar PROVE CaviarInv'
<1> DEFINE box == [run |-> caviar.n, incarnation |-> runRoot.incarnation,
                   video |-> inputs["video"], next |-> 0]
<1>1. caviar.pc = "guard" /\ UNCHANGED <<inputs, inputEdits>>
  BY DEF GuardCaviar
<1>2. CASE FailCaviar("safety_abort") /\ UNCHANGED boxes
  BY <1>1, <1>2, CaviarEnds DEF FailCaviar
<1>3. CASE /\ boxes' = boxes \cup {box} /\ runRoot' = [runRoot EXCEPT !.log = caviar.n]
           /\ CaviarGoes("wait")
  <2>1. /\ caviar' \in [n : Nat, pc : CaviarSteps, kind : {"plain", "batch", "dry"},
                        truth : BOOLEAN, frames : SUBSET Nat]
        /\ caviar'.pc = "wait" /\ caviar'.n = caviar.n /\ caviar'.kind = caviar.kind
    BY <1>3, CaviarGone DEF CaviarInv, CaviarSteps
  <2>2. caviar.n \in Nat /\ runRoot \in Roots /\ inputs["video"] \in Revision
    BY DEF CaviarInv, CaviarShapes, Input
  <2>3. /\ runRoot' \in Roots
        /\ runRoot'.incarnation = runRoot.incarnation /\ runRoot'.kitti = runRoot.kitti
        /\ runRoot'.log = caviar.n /\ runRoot'.predictions = runRoot.predictions
        /\ runRoot'.evaluation = runRoot.evaluation /\ runRoot'.receipt = runRoot.receipt
        /\ runRoot'.manifest = runRoot.manifest
    BY <1>3, <2>2 DEF Roots
  <2>4. box \in Box /\ box.run = caviar.n /\ box.incarnation = runRoot.incarnation
        /\ box.video = inputs["video"]
    BY <2>2 DEF Box, Roots
  <2> HIDE DEF box
  <2>5. CaviarShapes'
    BY <1>1, <1>3, <2>1, <2>3, <2>4 DEF CaviarInv, CaviarShapes
  <2>6. \A b \in boxes : b.run \in Nat /\ b.run < caviar.n /\ ~Mounted(b)
    BY <1>1 DEF CaviarInv, CaviarShapes, Box, BoxesKnown, RootIsNew, Alone
  <2>7. Waited'
    <3>1. box \in boxes' /\ box.run = caviar'.n /\ box.incarnation = runRoot'.incarnation
      BY <1>3, <2>1, <2>3, <2>4
    <3>2. \A c \in boxes' : c.incarnation = runRoot'.incarnation \/ c.run = caviar'.n => c = box
      BY <1>3, <2>1, <2>2, <2>3, <2>6 DEF Mounted
    <3>3. DOMAIN runRoot'.kitti = {}
      BY <1>1, <2>3 DEF CaviarInv, RootIsNew
    <3>4. QED
      BY <3>1, <3>2, <3>3 DEF Waited, Mounted
  <2>8. BoxesKnown'
    <3>1. caviar.n # 0 \/ boxes = {}
      BY <2>2, <2>6
    <3>2. runRoot.incarnation \in Nat /\ caviar.n <= caviar.n
      BY <2>2 DEF Roots
    <3>3. caviar.n > 0
      BY <1>1 DEF CaviarInv, CaviarShapes
    <3>4. QED
      BY <1>3, <2>1, <2>2, <2>3, <2>4, <2>6, <3>2, <3>3 DEF CaviarInv, BoxesKnown, Mounted
  <2>9. RootIsNew'
    BY <1>1, <2>1, <2>3 DEF CaviarInv, RootIsNew, CaviarSteps
  <2>10. EditsTraced'
    BY <1>1, <1>3, <2>3, <2>4 DEF CaviarInv, EditsTraced, Traced
  <2>11. Earned' /\ CompletedIsOfOneRun'
    BY <1>1, <2>1, <2>3 DEF CaviarInv, Earned, PinnedOrTwo, CompletedIsOfOneRun
  <2>12. QED
    BY <2>5, <2>7, <2>8, <2>9, <2>10, <2>11 DEF CaviarInv
<1>4. QED
  BY <1>2, <1>3 DEF GuardCaviar

LEMMA GuardReturnsHolds == ASSUME CaviarInv, GuardReturns PROVE CaviarInv'
<1>1. PICK b \in boxes :
        /\ b.run = caviar.n /\ boxes' = boxes \ {b}
        /\ \/ FailCaviar("safety_abort")
           \/ CaviarGoes("postflight") /\ UNCHANGED runRoot
  BY DEF GuardReturns
<1>2. caviar.pc = "wait" /\ UNCHANGED <<inputs, inputEdits>>
  BY DEF GuardReturns
<1>3. CASE FailCaviar("safety_abort")
  BY <1>1, <1>2, <1>3, CaviarEnds DEF FailCaviar
<1>4. CASE CaviarGoes("postflight") /\ UNCHANGED runRoot
  <2>1. /\ caviar' \in [n : Nat, pc : CaviarSteps, kind : {"plain", "batch", "dry"},
                        truth : BOOLEAN, frames : SUBSET Nat]
        /\ caviar'.pc = "postflight" /\ caviar'.n = caviar.n /\ caviar'.kind = caviar.kind
    BY <1>4, CaviarGone DEF CaviarInv, CaviarSteps
  <2>2. CaviarShapes'
    BY <1>1, <1>2, <1>4, <2>1 DEF CaviarInv, CaviarShapes
  <2>3. Alone' /\ OfRun(runRoot.kitti, caviar.n)
    <3>1. PICK own \in boxes :
            /\ \A c \in boxes : Mounted(c) \/ c.run = caviar.n => c = own
            /\ \A f \in DOMAIN runRoot.kitti :
                 runRoot.kitti[f] = [run |-> caviar.n, video |-> own.video]
      BY <1>2 DEF CaviarInv, Waited
    <3>2. own = b /\ own.video \in Revision
      BY <1>1, <3>1 DEF CaviarInv, CaviarShapes, Box
    <3>3. QED
      BY <1>1, <1>4, <3>1, <3>2 DEF Alone, Mounted, OfRun
  <2>4. BoxesKnown' /\ Waited' /\ RootIsNew'
    BY <1>1, <1>2, <1>4, <2>1, <2>3
       DEF CaviarInv, BoxesKnown, Waited, RootIsNew, Mounted, OfRun, CaviarSteps
  <2>5. EditsTraced' /\ Earned' /\ CompletedIsOfOneRun'
    BY <1>1, <1>2, <1>4, <2>1
       DEF CaviarInv, EditsTraced, Traced, Earned, PinnedOrTwo, CompletedIsOfOneRun
  <2>6. QED
    BY <2>2, <2>4, <2>5 DEF CaviarInv
<1>5. QED
  BY <1>1, <1>3, <1>4

LEMMA CheckAgainHolds == ASSUME CaviarInv, CheckAgain PROVE CaviarInv'
<1>1. caviar.pc = "postflight" /\ UNCHANGED <<inputs, inputEdits, boxes>>
  BY DEF CheckAgain
<1>2. CASE FailCaviar("failed")
  BY <1>1, <1>2, CaviarEnds DEF FailCaviar
<1>3. CASE (caviar.kind = "batch" => LivePins) /\ CaviarGoes("convert") /\ UNCHANGED runRoot
  <2>1. /\ caviar' \in [n : Nat, pc : CaviarSteps, kind : {"plain", "batch", "dry"},
                        truth : BOOLEAN, frames : SUBSET Nat]
        /\ caviar'.pc = "convert" /\ caviar'.n = caviar.n /\ caviar'.kind = caviar.kind
    BY <1>3, CaviarGone DEF CaviarInv, CaviarSteps
  <2>2. CaviarShapes'
    BY <1>1, <1>3, <2>1 DEF CaviarInv, CaviarShapes
  <2>3. caviar.kind = "batch" => PinnedOrTwo(runRoot.kitti)
    <3>1. ASSUME NEW f \in DOMAIN runRoot.kitti PROVE runRoot.kitti[f].video \in Revision
      <4>1. OfRun(runRoot.kitti, caviar.n)
        BY <1>1 DEF CaviarInv, RootIsNew
      <4>2. QED
        BY <4>1 DEF OfRun
    <3>2. QED
      BY <1>3, <3>1 DEF LivePins, CaviarInv, EditsTraced, Traced, PinnedOrTwo, Revision
  <2>4. BoxesKnown' /\ Waited' /\ RootIsNew'
    BY <1>1, <1>3, <2>1
       DEF CaviarInv, BoxesKnown, Waited, RootIsNew, Alone, Mounted, OfRun, CaviarSteps
  <2>5. EditsTraced' /\ Earned' /\ CompletedIsOfOneRun'
    BY <1>1, <1>3, <2>1, <2>3
       DEF CaviarInv, EditsTraced, Traced, Earned, PinnedOrTwo, CompletedIsOfOneRun
  <2>6. QED
    BY <2>2, <2>4, <2>5 DEF CaviarInv
<1>4. QED
  BY <1>2, <1>3 DEF CheckAgain, Postflight

\* The exported frames are some of the files that there are.
LEMMA ExportedFrames ==
  ASSUME CaviarInv, NEW files, Exported \subseteq DOMAIN runRoot.kitti,
         files = [f \in Exported |-> runRoot.kitti[f]]
  PROVE  /\ files \in FrameFiles /\ DOMAIN files = Exported
         /\ \A f \in DOMAIN files : f \in DOMAIN runRoot.kitti /\ files[f] = runRoot.kitti[f]
<1>1. PICK S \in SUBSET Nat : runRoot.kitti \in [S -> Frame]
  BY DEF CaviarInv, CaviarShapes, Roots, FrameFiles
<1>2. files \in [Exported -> Frame] /\ Exported \in SUBSET Nat
  BY <1>1
<1>3. QED
  BY <1>2 DEF FrameFiles

LEMMA ConvertHolds == ASSUME CaviarInv, Convert PROVE CaviarInv'
<1>1. caviar.pc = "convert" /\ UNCHANGED <<inputs, inputEdits, boxes>>
  BY DEF Convert
<1>2. CASE FailCaviar("failed")
  BY <1>1, <1>2, CaviarEnds DEF FailCaviar
<1>3. CASE /\ Expected(caviar.frames) /\ Exported \subseteq DOMAIN runRoot.kitti
           /\ runRoot' = [runRoot EXCEPT !.predictions = [f \in Exported |-> runRoot.kitti[f]]]
           /\ CaviarGoes("evaluate")
  <2>1. /\ caviar' \in [n : Nat, pc : CaviarSteps, kind : {"plain", "batch", "dry"},
                        truth : BOOLEAN, frames : SUBSET Nat]
        /\ caviar'.pc = "evaluate" /\ caviar'.n = caviar.n /\ caviar'.kind = caviar.kind
        /\ caviar'.frames = caviar.frames /\ caviar'.truth = caviar.truth
    BY <1>3, CaviarGone DEF CaviarInv, CaviarSteps
  <2>2. PICK files : files = [f \in Exported |-> runRoot.kitti[f]]
    OBVIOUS
  <2>3. /\ files \in FrameFiles /\ DOMAIN files = Exported
        /\ \A f \in DOMAIN files : f \in DOMAIN runRoot.kitti /\ files[f] = runRoot.kitti[f]
    BY <1>3, <2>2, ExportedFrames
  <2>4. /\ runRoot' \in Roots
        /\ runRoot'.incarnation = runRoot.incarnation /\ runRoot'.kitti = runRoot.kitti
        /\ runRoot'.log = runRoot.log /\ runRoot'.predictions = files
        /\ runRoot'.evaluation = runRoot.evaluation /\ runRoot'.receipt = runRoot.receipt
        /\ runRoot'.manifest = runRoot.manifest
    <3>1. runRoot \in Roots /\ runRoot' = [runRoot EXCEPT !.predictions = files]
      BY <1>3, <2>2 DEF CaviarInv, CaviarShapes
    <3>2. QED
      BY <2>3, <3>1 DEF Roots
  <2>5. CaviarShapes'
    BY <1>1, <2>1, <2>4 DEF CaviarInv, CaviarShapes
  <2>6. ExportedAll(files, caviar.truth, caviar.frames)
    <3>1. caviar.frames \in {{}, DOMAIN runRoot.kitti}
      BY <1>3 DEF Expected
    <3>2. caviar.truth => \E t \in Revision : Exported = Annotated(t)
      BY DEF Exported, CaviarInv, CaviarShapes, Input
    <3>3. ~caviar.truth => Exported = DOMAIN runRoot.kitti
      BY DEF Exported
    <3>4. QED
      BY <1>3, <2>3, <3>1, <3>2, <3>3 DEF ExportedAll
  <2>7. OfRun(runRoot.kitti, caviar.n) => OfRun(files, caviar.n)
    BY <2>3 DEF OfRun
  <2>8. BoxesKnown' /\ Waited' /\ RootIsNew'
    <3>1. OfRun(files, caviar.n)
      BY <1>1, <2>7 DEF CaviarInv, RootIsNew
    <3>2. BoxesKnown' /\ Waited'
      BY <1>1, <2>1, <2>4 DEF CaviarInv, BoxesKnown, Waited, Mounted, CaviarSteps
    <3>3. RootIsNew'
      BY <1>1, <2>1, <2>4, <2>6, <3>1
         DEF CaviarInv, RootIsNew, Alone, Mounted, OfRun, ExportedAll, CaviarSteps
    <3>4. QED
      BY <3>2, <3>3
  <2>9. EditsTraced' /\ Earned'
    BY <1>1, <2>1, <2>3, <2>4
       DEF CaviarInv, EditsTraced, Traced, Earned, PinnedOrTwo, RootIsNew, CaviarSteps
  <2>10. CompletedIsOfOneRun'
    BY <1>1, <2>4 DEF CaviarInv, RootIsNew, CompletedIsOfOneRun, CaviarSteps
  <2>11. QED
    BY <2>5, <2>8, <2>9, <2>10 DEF CaviarInv
<1>4. QED
  BY <1>2, <1>3 DEF Convert

LEMMA EvaluateHolds == ASSUME CaviarInv, Evaluate PROVE CaviarInv'
<1>1. caviar.pc = "evaluate" /\ UNCHANGED <<inputs, inputEdits, boxes>>
  BY DEF Evaluate
<1>2. CASE FailCaviar("failed")
  BY <1>1, <1>2, CaviarEnds DEF FailCaviar
<1>3. CASE ~FailCaviar("failed")
  <2> DEFINE result == IF caviar.truth THEN inputs["truth"] ELSE runRoot.evaluation
             goes == IF caviar.kind = "batch" THEN "receipt" ELSE "idle"
  <2>1. runRoot' = [runRoot EXCEPT !.evaluation = result, !.manifest = Manifest("complete")]
        /\ CaviarGoes(goes)
    BY <1>3 DEF Evaluate
  <2>2. /\ caviar' \in [n : Nat, pc : CaviarSteps, kind : {"plain", "batch", "dry"},
                        truth : BOOLEAN, frames : SUBSET Nat]
        /\ caviar'.pc = goes /\ caviar'.n = caviar.n /\ caviar'.kind = caviar.kind
    BY <2>1, CaviarGone DEF CaviarInv, CaviarSteps
  <2>3. /\ Manifest("complete") \in Manifests /\ Manifest("complete").run = caviar.n
        /\ Manifest("complete").status = "complete"
        /\ Manifest("complete").frames = caviar.frames
        /\ Manifest("complete").truth = caviar.truth
    BY ManifestTyped DEF CaviarInv
  <2>4. result \in Revision \cup {"none"}
    BY DEF CaviarInv, CaviarShapes, Roots, Input
  <2> HIDE DEF result
  <2>5. /\ runRoot' \in Roots
        /\ runRoot'.incarnation = runRoot.incarnation /\ runRoot'.kitti = runRoot.kitti
        /\ runRoot'.log = runRoot.log /\ runRoot'.predictions = runRoot.predictions
        /\ runRoot'.receipt = runRoot.receipt /\ runRoot'.manifest = Manifest("complete")
    BY <2>1, <2>3, <2>4 DEF CaviarInv, CaviarShapes, Roots
  <2>6. CaviarShapes'
    BY <1>1, <2>2, <2>5 DEF CaviarInv, CaviarShapes
  <2>7. BoxesKnown' /\ Waited' /\ RootIsNew'
    <3>1. BoxesKnown' /\ Waited'
      BY <1>1, <2>2, <2>5 DEF CaviarInv, BoxesKnown, Waited, Mounted, CaviarSteps
    <3>2. caviar.pc = "evaluate" => Alone
      BY DEF CaviarInv, RootIsNew
    <3>3. RootIsNew'
      BY <1>1, <2>2, <2>3, <2>5, <3>2 DEF RootIsNew, Alone, Mounted, CaviarSteps
    <3>4. QED
      BY <3>1, <3>3
  <2>8. EditsTraced' /\ Earned'
    BY <1>1, <2>2, <2>5
       DEF CaviarInv, EditsTraced, Traced, Earned, PinnedOrTwo, RootIsNew, CaviarSteps
  <2>9. CompletedIsOfOneRun'
    <3>1. PICK m, files : m = Manifest("complete") /\ files = runRoot.predictions
      OBVIOUS
    <3>2. OfRun(files, m.run) /\ ExportedAll(files, m.truth, m.frames)
      BY <1>1, <2>3, <3>1 DEF CaviarInv, RootIsNew
    <3>3. \E video \in Revision : \A f \in DOMAIN files : files[f] = [run |-> m.run, video |-> video]
      BY <3>2 DEF OfRun
    <3>4. runRoot'.manifest = m /\ runRoot'.predictions = files
      BY <2>5, <3>1
    <3>5. ExportedAll(runRoot.predictions, runRoot.manifest.truth, runRoot.manifest.frames)'
      BY <3>2, <3>4 DEF ExportedAll
    <3>6. QED
      BY <3>3, <3>4, <3>5 DEF CompletedIsOfOneRun
  <2>10. QED
    BY <2>6, <2>7, <2>8, <2>9 DEF CaviarInv
<1>4. QED
  BY <1>2, <1>3

LEMMA WriteJobReceiptHolds == ASSUME CaviarInv, WriteJobReceipt PROVE CaviarInv'
<1> DEFINE Pinned(state) ==
             [runRoot EXCEPT !.receipt = [state |-> state, manifest |-> runRoot.manifest]]
<1>1. /\ caviar.pc = "receipt" /\ UNCHANGED <<inputs, inputEdits, boxes>> /\ CaviarGoes("idle")
      /\ runRoot \in Roots
  BY DEF WriteJobReceipt, CaviarInv, CaviarShapes
<1>2. CASE runRoot' \in Told(runRoot, "failed")
  BY <1>1, <1>2, CaviarEnds
<1>3. CASE runRoot' \notin Told(runRoot, "failed")
  <2>1. runRoot.evaluation # "none" /\ \E state \in {"whole", "partial"} :
          runRoot' = Pinned(state) \/ runRoot' = [Pinned(state) EXCEPT !.manifest = Manifest("failed")]
    BY <1>3 DEF WriteJobReceipt, Told
  <2>2. PICK state \in {"whole", "partial"} :
          runRoot' = Pinned(state) \/ runRoot' = [Pinned(state) EXCEPT !.manifest = Manifest("failed")]
    BY <2>1
  <2>3. /\ Pinned(state) \in Roots
        /\ Pinned(state).incarnation = runRoot.incarnation /\ Pinned(state).kitti = runRoot.kitti
        /\ Pinned(state).log = runRoot.log /\ Pinned(state).predictions = runRoot.predictions
        /\ Pinned(state).evaluation = runRoot.evaluation
        /\ Pinned(state).receipt = [state |-> state, manifest |-> runRoot.manifest]
        /\ Pinned(state).manifest = runRoot.manifest
    BY <1>1 DEF Roots
  <2>4. Manifest("failed") \in Manifests /\ Manifest("failed").status = "failed"
    BY ManifestTyped DEF CaviarInv
  <2> HIDE DEF Pinned
  <2>5. /\ runRoot' \in Roots
        /\ runRoot'.incarnation = runRoot.incarnation /\ runRoot'.kitti = runRoot.kitti
        /\ runRoot'.log = runRoot.log /\ runRoot'.predictions = runRoot.predictions
        /\ runRoot'.evaluation = runRoot.evaluation
        /\ runRoot'.receipt = [state |-> state, manifest |-> runRoot.manifest]
        /\ runRoot'.manifest = runRoot.manifest \/ runRoot'.manifest.status = "failed"
    <3>1. CASE runRoot' = Pinned(state)
      BY <2>3, <3>1
    <3>2. CASE runRoot' = [Pinned(state) EXCEPT !.manifest = Manifest("failed")]
      BY <2>3, <2>4, <3>2 DEF Roots
    <3>3. QED
      BY <2>2, <3>1, <3>2
  <2>6. /\ caviar' \in [n : Nat, pc : CaviarSteps, kind : {"plain", "batch", "dry"},
                        truth : BOOLEAN, frames : SUBSET Nat]
        /\ caviar'.pc = "idle" /\ caviar'.n = caviar.n
    BY <1>1, CaviarGone DEF CaviarInv, CaviarSteps
  <2>7. CaviarShapes'
    BY <1>1, <2>5, <2>6 DEF CaviarInv, CaviarShapes
  <2>8. BoxesKnown' /\ Waited' /\ RootIsNew'
    BY <1>1, <2>5, <2>6 DEF CaviarInv, BoxesKnown, Waited, RootIsNew, Mounted, CaviarSteps
  <2>9. EditsTraced'
    BY <1>1, <2>5 DEF CaviarInv, EditsTraced, Traced
  <2>10. Earned'
    <3>1. runRoot.manifest.status = "complete" /\ PinnedOrTwo(runRoot.predictions)
      BY <1>1 DEF CaviarInv, RootIsNew, Earned
    <3>2. QED
      BY <1>1, <2>1, <2>5, <2>6, <3>1 DEF Earned, PinnedOrTwo
  <2>11. CompletedIsOfOneRun'
    BY <2>5 DEF CaviarInv, CompletedIsOfOneRun
  <2>12. QED
    BY <2>7, <2>8, <2>9, <2>10, <2>11 DEF CaviarInv
<1>4. QED
  BY <1>2, <1>3

\* A frame of a container that is not mounted is written elsewhere.
LEMMA WriteFrameHolds == ASSUME CaviarInv, NEW b \in boxes, WriteFrame(b) PROVE CaviarInv'
<1> DEFINE box == [b EXCEPT !.next = b.next + 1]
<1>1. /\ boxes' = (boxes \ {b}) \cup {box} /\ UNCHANGED <<inputs, inputEdits, caviar>>
      /\ b.next \in FramesOf(b.video)
  BY DEF WriteFrame
<1>2. /\ b \in Box /\ box \in Box /\ box.run = b.run /\ box.incarnation = b.incarnation
      /\ box.video = b.video /\ b.run \in Nat /\ b.video \in Revision /\ b.next \in Nat
  BY DEF CaviarInv, CaviarShapes, Box
<1> HIDE DEF box
<1>3. CASE b.incarnation # runRoot.incarnation
  <2>1. UNCHANGED runRoot
    BY <1>3 DEF WriteFrame
  <2>2. CaviarShapes'
    BY <1>1, <1>2, <2>1 DEF CaviarInv, CaviarShapes
  <2>3. BoxesKnown' /\ EditsTraced'
    BY <1>1, <1>2, <2>1 DEF CaviarInv, BoxesKnown, Mounted, EditsTraced, Traced
  <2>4. Waited'
    <3> SUFFICES ASSUME caviar.pc = "wait" PROVE Waited'
      BY <1>1 DEF Waited
    <3>1. PICK own \in boxes :
            /\ own.run = caviar.n /\ Mounted(own)
            /\ \A c \in boxes : Mounted(c) \/ c.run = caviar.n => c = own
            /\ \A f \in DOMAIN runRoot.kitti :
                 runRoot.kitti[f] = [run |-> caviar.n, video |-> own.video]
      BY DEF CaviarInv, Waited
    <3>2. own # b /\ b.run # caviar.n
      BY <1>3, <3>1 DEF Mounted
    <3>3. QED
      BY <1>1, <1>2, <1>3, <2>1, <3>1, <3>2 DEF Waited, Mounted
  <2>5. RootIsNew' /\ Earned' /\ CompletedIsOfOneRun'
    BY <1>1, <1>2, <1>3, <2>1
       DEF CaviarInv, RootIsNew, Alone, Mounted, OfRun, Earned, PinnedOrTwo, CompletedIsOfOneRun
  <2>6. QED
    BY <2>2, <2>3, <2>4, <2>5 DEF CaviarInv
<1>4. CASE b.incarnation = runRoot.incarnation
  <2> DEFINE written == [f \in DOMAIN runRoot.kitti \cup {b.next} |->
               IF f = b.next THEN [run |-> b.run, video |-> b.video] ELSE runRoot.kitti[f]]
  <2>1. runRoot' = [runRoot EXCEPT !.kitti = written]
    BY <1>4 DEF WriteFrame
  <2>2. written \in FrameFiles
    <3>1. PICK S \in SUBSET Nat : runRoot.kitti \in [S -> Frame]
      BY DEF CaviarInv, CaviarShapes, Roots, FrameFiles
    <3>2. written \in [S \cup {b.next} -> Frame] /\ S \cup {b.next} \in SUBSET Nat
      BY <1>2, <3>1 DEF Frame
    <3>3. QED
      BY <3>2 DEF FrameFiles
  <2>3. /\ DOMAIN written = DOMAIN runRoot.kitti \cup {b.next}
        /\ \A f \in DOMAIN written :
             written[f] = IF f = b.next THEN [run |-> b.run, video |-> b.video]
                          ELSE runRoot.kitti[f]
    OBVIOUS
  <2> HIDE DEF written
  <2>4. /\ runRoot' \in Roots /\ runRoot'.kitti = written
        /\ runRoot'.incarnation = runRoot.incarnation
        /\ runRoot'.log = runRoot.log /\ runRoot'.predictions = runRoot.predictions
        /\ runRoot'.evaluation = runRoot.evaluation /\ runRoot'.receipt = runRoot.receipt
        /\ runRoot'.manifest = runRoot.manifest
    BY <2>1, <2>2 DEF CaviarInv, CaviarShapes, Roots
  <2>5. CaviarShapes'
    BY <1>1, <1>2, <2>4 DEF CaviarInv, CaviarShapes
  <2>6. Mounted(b) /\ DOMAIN written # {}
    BY <1>4, <2>3 DEF Mounted
  <2>7. BoxesKnown'
    BY <1>1, <1>2, <2>4, <2>6 DEF CaviarInv, BoxesKnown, Mounted
  <2>8. EditsTraced'
    BY <1>1, <1>2, <2>3, <2>4 DEF CaviarInv, EditsTraced, Traced
  <2>9. caviar.pc \in {"idle", "clear", "wait"}
    BY <2>6 DEF CaviarInv, CaviarShapes, RootIsNew, Alone, CaviarSteps
  <2>10. Waited'
    <3> SUFFICES ASSUME caviar.pc = "wait" PROVE Waited'
      BY <1>1 DEF Waited
    <3>1. PICK own \in boxes :
            /\ own.run = caviar.n /\ Mounted(own)
            /\ \A c \in boxes : Mounted(c) \/ c.run = caviar.n => c = own
            /\ \A f \in DOMAIN runRoot.kitti :
                 runRoot.kitti[f] = [run |-> caviar.n, video |-> own.video]
      BY DEF CaviarInv, Waited
    <3>2. own = b
      BY <2>6, <3>1
    <3>3. \A f \in DOMAIN written : written[f] = [run |-> caviar.n, video |-> box.video]
      BY <1>2, <2>3, <3>1, <3>2
    <3>4. box \in boxes' /\ \A c \in boxes' : Mounted(c) \/ c.run = caviar.n => c = box
      BY <1>1, <1>2, <3>1, <3>2
    <3>5. QED
      BY <1>1, <1>2, <1>4, <2>4, <3>1, <3>2, <3>3, <3>4 DEF Waited, Mounted
  <2>11. RootIsNew' /\ Earned' /\ CompletedIsOfOneRun'
    BY <1>1, <2>4, <2>9
       DEF CaviarInv, RootIsNew, CaviarSteps, Earned, PinnedOrTwo, CompletedIsOfOneRun
  <2>12. QED
    BY <2>5, <2>7, <2>8, <2>10, <2>11 DEF CaviarInv
<1>5. QED
  BY <1>3, <1>4

LEMMA EditInputHolds == ASSUME CaviarInv, NEW i \in Input, EditInput(i) PROVE CaviarInv'
<1>1. /\ inputEdits' = inputEdits + 1 /\ UNCHANGED <<caviar, runRoot, boxes>>
      /\ inputEdits \in Nat /\ inputs \in [Input -> Revision]
  BY DEF EditInput, CaviarInv, CaviarShapes
<1>2. inputs' \in [Input -> Revision]
      /\ (inputs'["video"] = "pinned" => inputs["video"] \in {"pinned", "edited"})
  BY <1>1 DEF EditInput, Input, Revision
<1>3. CaviarShapes'
  BY <1>1, <1>2 DEF CaviarInv, CaviarShapes
<1>4. BoxesKnown' /\ Waited' /\ RootIsNew' /\ CompletedIsOfOneRun'
  BY <1>1 DEF CaviarInv, BoxesKnown, Waited, RootIsNew, Alone, OfRun, Mounted, CompletedIsOfOneRun
<1>5. /\ inputs'["video"] = "edited" => inputEdits' > 0
      /\ inputs'["video"] = "pinned" =>
           inputs["video"] = "pinned" \/ inputs["video"] = "edited"
  BY <1>1, <1>2
<1>6. ASSUME NEW video, Traced(video) PROVE Traced(video)'
  <2>1. CASE inputs["video"] = "pinned"
    BY <1>1, <1>6, <2>1 DEF Traced
  <2>2. CASE inputs["video"] = "edited"
    BY <1>1, <1>6, <2>2 DEF CaviarInv, EditsTraced, Traced
  <2>3. QED
    BY <1>1, <2>1, <2>2 DEF Input, Revision
<1>7. EditsTraced'
  BY <1>1, <1>5, <1>6 DEF CaviarInv, EditsTraced, Traced
<1>8. Earned'
  BY <1>1 DEF CaviarInv, Earned, PinnedOrTwo
<1>9. QED
  BY <1>3, <1>4, <1>7, <1>8 DEF CaviarInv

LEMMA CaviarNextHolds == CaviarInv /\ [CaviarNext]_caviarVars => CaviarInv'
<1> SUFFICES ASSUME CaviarInv, [CaviarNext]_caviarVars PROVE CaviarInv'
  OBVIOUS
<1>1. CASE KillCaviar
  BY <1>1, CaviarEnds DEF KillCaviar, Told
<1>2. ASSUME NEW b \in boxes, LeftBoxEnds(b) PROVE CaviarInv'
  <2>1. /\ boxes' = boxes \ {b} /\ UNCHANGED <<inputs, inputEdits, caviar, runRoot>>
        /\ b.run # caviar.n \/ caviar.pc = "idle"
    BY <1>2 DEF LeftBoxEnds
  <2>2. CaviarShapes' /\ BoxesKnown' /\ EditsTraced'
    BY <2>1 DEF CaviarInv, CaviarShapes, BoxesKnown, Mounted, EditsTraced, Traced
  <2>3. Waited'
    BY <2>1 DEF CaviarInv, Waited, Mounted
  <2>4. RootIsNew' /\ Earned' /\ CompletedIsOfOneRun'
    BY <2>1 DEF CaviarInv, RootIsNew, Alone, Mounted, OfRun, Earned, PinnedOrTwo, CompletedIsOfOneRun
  <2>5. QED
    BY <2>2, <2>3, <2>4 DEF CaviarInv
<1>3. CASE UNCHANGED caviarVars
  BY <1>3 DEF caviarVars, CaviarInv, CaviarShapes, BoxesKnown, Waited, Mounted, RootIsNew, Alone,
     OfRun, EditsTraced, Traced, Earned, PinnedOrTwo, CompletedIsOfOneRun
<1>4. QED
  BY <1>1, <1>2, <1>3, StartCaviarHolds, ClearRootHolds, PrepareHolds, PreflightHolds,
     GuardCaviarHolds, GuardReturnsHolds, CheckAgainHolds, ConvertHolds, EvaluateHolds,
     WriteJobReceiptHolds, WriteFrameHolds, EditInputHolds DEF CaviarNext

LEMMA CaviarMeans == CaviarInv => CaviarIsSound
BY DEF CaviarInv, Earned, PinnedOrTwo, CaviarIsSound, JobReceiptIsEarned, ValidReceipt

-----------------------------------------------------------------------------
(* The smoke: the parity of two runs                                       *)

\* A set of naturals has a least one.
LEMMA LeastNatural ==
  ASSUME NEW T \in SUBSET Nat, T # {}
  PROVE  \E n \in T : \A m \in T : n <= m
<1> DEFINE R == OpToRel(<, Nat)
<1> HIDE DEF R
<1>1. IsWellFoundedOn(R, Nat)
  BY NatLessThanWellFounded DEF R
<1>2. \E x \in T : \A y \in T : <<y, x>> \notin R
  BY <1>1, WFMin
<1>3. \A x, y \in Nat : <<y, x>> \notin R => x <= y
  BY DEF R, OpToRel
<1>4. QED
  BY <1>2, <1>3

\* What the loop over the CPU detections leaves of the CUDA detections.
Remaining(left, item, cuda) ==
  IF 0 \in left THEN left ELSE TakeClosest(left, item, cuda)

IsAvailable(cpu, cuda, n, f) ==
  f = [m \in 0 .. n |-> IF m = 0 THEN DOMAIN cuda ELSE Remaining(f[m - 1], cpu[m], cuda)]

LEMMA AvailableExists ==
  ASSUME NEW cpu, NEW cuda, NEW n \in Nat
  PROVE  \E f : IsAvailable(cpu, cuda, n, f)
<1> DEFINE T == {k \in Nat : ~\E f : IsAvailable(cpu, cuda, k, f)}
<1>1. SUFFICES ASSUME n \in T PROVE FALSE
  OBVIOUS
<1>2. PICK k \in T : \A m \in T : k <= m
  <2> HIDE DEF T
  <2>1. T \in SUBSET Nat
    BY DEF T
  <2>2. QED
    BY <1>1, <2>1, LeastNatural
<1>3. k # 0
  <2>1. IsAvailable(cpu, cuda, 0, [m \in 0 .. 0 |-> DOMAIN cuda])
    BY DEF IsAvailable
  <2>2. QED
    BY <1>2, <2>1
<1>4. k - 1 \in Nat /\ ~(k <= k - 1)
  BY <1>2, <1>3
<1>5. k - 1 \notin T
  <2> HIDE DEF T
  <2>1. QED
    BY <1>2, <1>4
<1>6. PICK f : IsAvailable(cpu, cuda, k - 1, f)
  BY <1>4, <1>5
<1> DEFINE g == [m \in 0 .. k |-> IF m = k THEN Remaining(f[k - 1], cpu[k], cuda) ELSE f[m]]
<1>7. \A m \in 0 .. (k - 1) :
        f[m] = IF m = 0 THEN DOMAIN cuda ELSE Remaining(f[m - 1], cpu[m], cuda)
  BY <1>6 DEF IsAvailable
<1>8. ASSUME NEW m \in 0 .. k
      PROVE  g[m] = IF m = 0 THEN DOMAIN cuda ELSE Remaining(g[m - 1], cpu[m], cuda)
  <2>1. CASE m = k
    <3>1. k - 1 \in 0 .. k /\ k - 1 # k
      BY <1>4
    <3>2. g[m] = Remaining(f[k - 1], cpu[k], cuda) /\ g[k - 1] = f[k - 1]
      BY <2>1, <3>1
    <3>3. QED
      BY <1>3, <2>1, <3>2
  <2>2. CASE m # k
    <3>1. m \in 0 .. (k - 1) /\ g[m] = f[m]
      BY <1>4, <2>2
    <3>2. m # 0 => m - 1 \in 0 .. k /\ m - 1 # k
      BY <1>4, <3>1
    <3>3. m # 0 => g[m - 1] = f[m - 1]
      BY <3>2
    <3> HIDE DEF g
    <3>4. QED
      BY <1>7, <3>1, <3>3
  <2>3. QED
    BY <2>1, <2>2
<1>9. IsAvailable(cpu, cuda, k, g)
  <2>1. g = [m \in 0 .. k |-> g[m]]
    OBVIOUS
  <2> HIDE DEF g
  <2>2. QED
    BY <1>8, <2>1 DEF IsAvailable
<1>10. QED
  BY <1>2, <1>9

LEMMA AvailableFacts ==
  ASSUME NEW n \in Nat, NEW cpu \in [1 .. n -> Nat], NEW cuda
  PROVE  /\ Available(cpu, cuda)[0] = DOMAIN cuda
         /\ \A m \in 1 .. n : Available(cpu, cuda)[m]
              = Remaining(Available(cpu, cuda)[m - 1], cpu[m], cuda)
<1> DEFINE A == Available(cpu, cuda)
<1>1. Len(cpu) = n
  OBVIOUS
<1>2. A = CHOOSE f : IsAvailable(cpu, cuda, Len(cpu), f)
  BY Zenon DEF Available, IsAvailable, Remaining
<1>3. IsAvailable(cpu, cuda, n, A)
  <2> HIDE DEF A
  <2>1. A = CHOOSE f : IsAvailable(cpu, cuda, n, f)
    BY <1>1, <1>2
  <2>2. QED
    BY <2>1, AvailableExists, Zenon
<1>4. \A m \in 0 .. n :
        A[m] = IF m = 0 THEN DOMAIN cuda ELSE Remaining(A[m - 1], cpu[m], cuda)
  <2> HIDE DEF A
  <2>1. QED
    BY <1>3 DEF IsAvailable
<1>5. 0 \in 0 .. n /\ \A m \in 1 .. n : m \in 0 .. n /\ m # 0
  OBVIOUS
<1>6. QED
  BY <1>4, <1>5

\* What one CPU detection takes is within the tolerance, and nothing that is left is closer.
LEMMA ClosestFacts ==
  ASSUME NEW left \in SUBSET (Nat \ {0}), NEW item \in Nat, NEW cuda,
         \A i \in left : cuda[i] \in Nat
  PROVE  LET near == {i \in left : Far(item, cuda[i]) <= Tolerance}
         IN /\ near = {} => TakeClosest(left, item, cuda) = {0}
            /\ near # {} => \E i \in near :
                 /\ TakeClosest(left, item, cuda) = left \ {i}
                 /\ \A j \in near : Far(item, cuda[i]) <= Far(item, cuda[j])
<1> DEFINE near == {i \in left : Far(item, cuda[i]) <= Tolerance}
           Closest(i) == \A j \in near :
                           \/ Far(item, cuda[i]) < Far(item, cuda[j])
                           \/ Far(item, cuda[i]) = Far(item, cuda[j]) /\ i <= j
           c == CHOOSE i \in near : Closest(i)
<1>1. \A i \in left : Far(item, cuda[i]) \in Nat /\ i \in Nat
  BY DEF Far
<1>2. near = {} => TakeClosest(left, item, cuda) = {0}
  BY DEF TakeClosest
<1>3. ASSUME near # {}
      PROVE  \E i \in near : Closest(i)
  <2> DEFINE T == {Far(item, cuda[i]) : i \in near}
  <2>1. T \in SUBSET Nat /\ T # {}
    BY <1>1, <1>3
  <2>2. PICK least \in T : \A m \in T : least <= m
    <3> HIDE DEF T
    <3>1. QED
      BY <2>1, LeastNatural
  <2> DEFINE U == {i \in near : Far(item, cuda[i]) = least}
  <2>3. U \in SUBSET Nat /\ U # {}
    BY <2>2, <1>1
  <2>4. PICK first \in U : \A m \in U : first <= m
    <3> HIDE DEF U
    <3>1. QED
      BY <2>3, LeastNatural
  <2>5. ASSUME NEW j \in near
        PROVE  \/ Far(item, cuda[first]) < Far(item, cuda[j])
               \/ Far(item, cuda[first]) = Far(item, cuda[j]) /\ first <= j
    <3>1. least <= Far(item, cuda[j]) /\ least = Far(item, cuda[first])
      BY <2>2, <2>4
    <3>2. Far(item, cuda[j]) \in Nat /\ least \in Nat
      BY <1>1, <2>1, <2>2
    <3>3. CASE least = Far(item, cuda[j])
      BY <3>1, <3>3, <2>4
    <3>4. CASE least # Far(item, cuda[j])
      BY <3>1, <3>2, <3>4
    <3>5. QED
      BY <3>3, <3>4
  <2>6. QED
    BY <2>4, <2>5
<1>4. ASSUME near # {}
      PROVE  \E i \in near :
               /\ TakeClosest(left, item, cuda) = left \ {i}
               /\ \A j \in near : Far(item, cuda[i]) <= Far(item, cuda[j])
  <2>1. c \in near /\ Closest(c)
    BY <1>3, <1>4, Zenon
  <2>2. TakeClosest(left, item, cuda) = left \ {c}
    BY <1>4, Zenon DEF TakeClosest
  <2>3. \A j \in near : Far(item, cuda[c]) <= Far(item, cuda[j])
    <3> HIDE DEF c
    <3>1. QED
      BY <2>1, <1>1
  <2>4. QED
    BY <2>1, <2>2, <2>3
<1>5. QED
  BY <1>2, <1>4

\* Two runs on the same frame, n detections each.
Outputs(n, cpu, cuda) == n \in Nat /\ cpu \in [1 .. n -> Nat] /\ cuda \in [1 .. n -> Nat]

LEMMA AvailableType ==
  ASSUME NEW n, NEW cpu, NEW cuda, Outputs(n, cpu, cuda), NEW m \in 0 .. n,
         0 \notin Available(cpu, cuda)[m]
  PROVE  /\ Available(cpu, cuda)[m] \subseteq 1 .. n
         /\ \A k \in 0 .. m : 0 \notin Available(cpu, cuda)[k]
<1> DEFINE A == Available(cpu, cuda)
<1>0. n \in Nat /\ cpu \in [1 .. n -> Nat] /\ cuda \in [1 .. n -> Nat] /\ DOMAIN cuda = 1 .. n
  BY DEF Outputs
<1>1. A[0] = 1 .. n /\ \A k \in 1 .. n : A[k] = Remaining(A[k - 1], cpu[k], cuda)
  BY <1>0, AvailableFacts
<1> HIDE DEF A
<1>2. ASSUME NEW k \in 0 .. m, 0 \in A[k]
      PROVE  FALSE
  <2> DEFINE T == {j \in k .. m : 0 \notin A[j]}
  <2>1. T \in SUBSET Nat /\ m \in T
    BY DEF A
  <2>2. PICK j \in T : \A i \in T : j <= i
    <3> HIDE DEF T
    <3>1. QED
      BY <2>1, LeastNatural
  <2>3. j # k /\ j - 1 \in k .. m /\ ~(j <= j - 1) /\ j \in 1 .. n
    BY <1>0, <1>2, <2>2
  <2>4. j - 1 \notin T
    <3> HIDE DEF T
    <3>1. QED
      BY <2>2, <2>3
  <2>5. A[j] = A[j - 1] /\ 0 \in A[j - 1]
    BY <1>1, <2>3, <2>4 DEF Remaining
  <2>6. QED
    BY <2>2, <2>5
<1>3. ASSUME NEW k \in 0 .. m, ~(A[k] \subseteq 1 .. n)
      PROVE  FALSE
  <2> DEFINE T == {j \in 0 .. m : ~(A[j] \subseteq 1 .. n)}
  <2>1. T \in SUBSET Nat /\ k \in T
    BY <1>3
  <2>2. PICK j \in T : \A i \in T : j <= i
    <3> HIDE DEF T
    <3>1. QED
      BY <2>1, LeastNatural
  <2>3. j # 0
    BY <2>2, <1>1
  <2>4. j - 1 \in 0 .. m /\ ~(j <= j - 1) /\ j \in 1 .. n
    BY <1>0, <2>2, <2>3
  <2>5. j - 1 \notin T
    <3> HIDE DEF T
    <3>1. QED
      BY <2>2, <2>4
  <2>6. A[j - 1] \subseteq 1 .. n /\ 0 \notin A[j - 1] /\ 0 \notin A[j]
    BY <2>2, <2>4, <2>5, <1>2
  <2>7. A[j] = TakeClosest(A[j - 1], cpu[j], cuda)
    BY <1>1, <2>4, <2>6 DEF Remaining
  <2>8. A[j] \subseteq A[j - 1]
    BY <2>6, <2>7 DEF TakeClosest
  <2>9. QED
    BY <2>2, <2>6, <2>8
<1>4. QED
  BY <1>2, <1>3 DEF A

\* A detection that was matched took one of what was left.
LEMMA TakesOne ==
  ASSUME NEW n, NEW cpu, NEW cuda, Outputs(n, cpu, cuda), NEW m \in 1 .. n,
         0 \notin Available(cpu, cuda)[m]
  PROVE  \E i \in Available(cpu, cuda)[m - 1] :
           /\ Available(cpu, cuda)[m] = Available(cpu, cuda)[m - 1] \ {i}
           /\ Far(cpu[m], cuda[i]) <= Tolerance
<1> DEFINE A == Available(cpu, cuda)
           near == {i \in A[m - 1] : Far(cpu[m], cuda[i]) <= Tolerance}
<1>0. n \in Nat /\ cpu \in [1 .. n -> Nat] /\ cuda \in [1 .. n -> Nat] /\ m \in 0 .. n /\ m - 1 \in 0 .. m
      /\ m - 1 \in 0 .. n
  BY DEF Outputs
<1>1. A[m] = Remaining(A[m - 1], cpu[m], cuda)
  <2>1. \A k \in 1 .. n : A[k] = Remaining(A[k - 1], cpu[k], cuda)
    BY <1>0, AvailableFacts, Zenon
  <2> HIDE DEF A
  <2>2. QED
    BY <2>1
<1>2. 0 \notin A[m - 1]
  BY <1>0, AvailableType, Zenon
<1>3. A[m - 1] \subseteq 1 .. n
  BY <1>0, <1>2, AvailableType, Zenon
<1>4. A[m] = TakeClosest(A[m - 1], cpu[m], cuda)
  <2> HIDE DEF A
  <2>1. QED
    BY <1>1, <1>2, Zenon DEF Remaining
<1>5. A[m - 1] \in SUBSET (Nat \ {0}) /\ cpu[m] \in Nat /\ \A i \in A[m - 1] : cuda[i] \in Nat
  <2> HIDE DEF A
  <2>1. QED
    BY <1>0, <1>2, <1>3
<1>6. near # {}
  <2>1. near = {} => TakeClosest(A[m - 1], cpu[m], cuda) = {0}
    BY <1>5, ClosestFacts, Zenon
  <2>2. 0 \notin A[m]
    OBVIOUS
  <2> HIDE DEF A, near
  <2>3. QED
    BY <2>1, <2>2, <1>4
<1>7. \E i \in near :
        /\ TakeClosest(A[m - 1], cpu[m], cuda) = A[m - 1] \ {i}
        /\ \A j \in near : Far(cpu[m], cuda[i]) <= Far(cpu[m], cuda[j])
  BY <1>5, <1>6, ClosestFacts, Zenon
<1>8. QED
  BY <1>4, <1>7, Zenon

\* Nothing comes back.
LEMMA AvailableShrinks ==
  ASSUME NEW n, NEW cpu, NEW cuda, Outputs(n, cpu, cuda),
         NEW m \in 0 .. n, NEW k \in 0 .. m, 0 \notin Available(cpu, cuda)[m]
  PROVE  Available(cpu, cuda)[m] \subseteq Available(cpu, cuda)[k]
<1> DEFINE A == Available(cpu, cuda)
           T == {j \in k .. m : ~(A[j] \subseteq A[k])}
<1>0. n \in Nat
  BY DEF Outputs
<1>1. SUFFICES ASSUME m \in T PROVE FALSE
  BY <1>0
<1>2. PICK j \in T : \A i \in T : j <= i
  <2> HIDE DEF T
  <2>1. T \in SUBSET Nat
    BY DEF T
  <2>2. QED
    BY <1>1, <2>1, LeastNatural
<1>3. j # k /\ j \in k .. m
  BY <1>2
<1>4. j - 1 \in k .. m /\ ~(j <= j - 1) /\ j \in 1 .. n /\ j \in 0 .. m
  BY <1>0, <1>3
<1>5. j - 1 \notin T
  <2> HIDE DEF T
  <2>1. QED
    BY <1>2, <1>4
<1>6. A[j - 1] \subseteq A[k]
  BY <1>4, <1>5
<1>7. 0 \notin A[j]
  BY <1>4, AvailableType, Zenon
<1>8. \A x \in 1 .. n : 0 \notin A[x] => A[x] \subseteq A[x - 1]
  BY TakesOne
<1>9. QED
  BY <1>2, <1>4, <1>6, <1>7, <1>8

\* The n detections of two runs, paired.
Pairing(match, n, cpu, cuda) ==
  /\ match \in [1 .. n -> 1 .. n]
  /\ \A i \in 1 .. n : Far(cpu[i], cuda[match[i]]) <= Tolerance
  /\ \A i, j \in 1 .. n : match[i] = match[j] => i = j
  /\ \A k \in 1 .. n : \E i \in 1 .. n : match[i] = k

\* A parity that passes is a one-to-one matching within the tolerance.
LEMMA ParityMatches ==
  ASSUME NEW n, NEW cpu, NEW cuda, Outputs(n, cpu, cuda), Parity(cpu, cuda)
  PROVE  \E match : Pairing(match, n, cpu, cuda)
<1> DEFINE A == Available(cpu, cuda)
           Taken(m, i) == /\ i \in A[m - 1] /\ A[m] = A[m - 1] \ {i}
                          /\ Far(cpu[m], cuda[i]) <= Tolerance
           match == [m \in 1 .. n |-> CHOOSE i : Taken(m, i)]
<1>1. n \in Nat /\ cpu \in [1 .. n -> Nat] /\ cuda \in [1 .. n -> Nat]
  BY DEF Outputs
<1>2. A[0] = 1 .. n /\ A[n] = {}
  <2>1. Len(cpu) = n /\ DOMAIN cuda = 1 .. n
    BY <1>1
  <2>2. A[Len(cpu)] = {}
    BY Zenon DEF Parity
  <2>3. A[0] = DOMAIN cuda
    BY <1>1, AvailableFacts
  <2> HIDE DEF A
  <2>4. QED
    BY <2>1, <2>2, <2>3
<1>3. n \in 0 .. n /\ 0 \notin A[n]
  BY <1>1, <1>2
<1>4. \A m \in 0 .. n : 0 \notin A[m]
  BY <1>3, AvailableType, Zenon
<1>5. \A m \in 0 .. n : A[m] \subseteq 1 .. n
  BY <1>4, AvailableType, Zenon
<1>6. \A m \in 1 .. n : m \in 0 .. n /\ m - 1 \in 0 .. n
  BY <1>1
<1>7. ASSUME NEW m \in 1 .. n
      PROVE  Taken(m, match[m])
  <2>1. \E i : Taken(m, i)
    BY <1>4, <1>6, TakesOne, Zenon
  <2>2. match[m] = CHOOSE i : Taken(m, i)
    OBVIOUS
  <2> HIDE DEF match, Taken
  <2>3. QED
    BY <2>1, <2>2, Zenon
<1>8. match \in [1 .. n -> 1 .. n]
  <2>1. \A m \in 1 .. n : match[m] \in 1 .. n
    BY <1>5, <1>6, <1>7, Zenon
  <2>2. QED
    BY <2>1
<1>9. ASSUME NEW i \in 1 .. n, NEW j \in 1 .. n, i < j
      PROVE  match[i] # match[j]
  <2>1. match[i] \notin A[i] /\ match[j] \in A[j - 1]
    <3> HIDE DEF A, match
    <3>1. QED
      BY <1>7
  <2>2. j - 1 \in 0 .. n /\ i \in 0 .. (j - 1)
    BY <1>1, <1>9
  <2>3. A[j - 1] \subseteq A[i]
    BY <1>4, <2>2, AvailableShrinks, Zenon
  <2> HIDE DEF A, match
  <2>4. QED
    BY <2>1, <2>3
<1>10. ASSUME NEW k \in 1 .. n
       PROVE  \E i \in 1 .. n : match[i] = k
  <2> DEFINE T == {m \in 0 .. n : k \notin A[m]}
  <2>1. T \in SUBSET Nat /\ n \in T
    BY <1>1, <1>2
  <2>2. PICK m \in T : \A i \in T : m <= i
    <3> HIDE DEF T
    <3>1. QED
      BY <2>1, LeastNatural
  <2>3. m # 0
    BY <2>2, <1>2
  <2>4. m \in 1 .. n /\ m - 1 \in 0 .. n /\ ~(m <= m - 1)
    BY <2>2, <2>3, <1>1
  <2>5. m - 1 \notin T
    <3> HIDE DEF T
    <3>1. QED
      BY <2>2, <2>4
  <2>6. k \in A[m - 1] /\ k \notin A[m]
    BY <2>2, <2>4, <2>5
  <2>7. A[m] = A[m - 1] \ {match[m]}
    BY <1>7, <2>4
  <2>8. match[m] = k
    <3> HIDE DEF A, match
    <3>1. QED
      BY <2>6, <2>7
  <2>9. QED
    BY <2>4, <2>8
<1>11. \A i, j \in 1 .. n : match[i] = match[j] => i = j
  <2> HIDE DEF match
  <2>1. QED
    BY <1>9, <1>1
<1>12. \A i \in 1 .. n : Far(cpu[i], cuda[match[i]]) <= Tolerance
  BY <1>7
<1>13. QED
  <2> HIDE DEF match
  <2>1. QED
    BY <1>8, <1>10, <1>11, <1>12 DEF Pairing

\* A spot is as far from another as they differ.
LEMMA NotFar ==
  ASSUME NEW x \in Nat, NEW y \in Nat
  PROVE  Far(x, y) \in Nat /\ (Far(x, y) = 0 <=> x = y)
BY DEF Far

LEMMA OneLess ==
  ASSUME NEW S, IsFiniteSet(S), NEW x \in S
  PROVE  Cardinality(S \ {x}) = Cardinality(S) - 1
BY FS_RemoveElement

LEMMA WithoutFirst ==
  ASSUME NEW m \in Nat, NEW n \in Nat
  PROVE  \A k : k \in (m + 1) .. n <=> k \in ((m - 1) + 1) .. n /\ k # m
OBVIOUS

\* Every place has as many detections in the one as in the other.
Same(n, cpu, cuda) ==
  \A x \in Nat : Cardinality({k \in 1 .. n : cpu[k] = x})
                   = Cardinality({k \in 1 .. n : cuda[k] = x})

\* Of two runs with the same detections every detection takes one of its own place, so that
\* the rest of the runs have the same detections.
LEMMA SameDetectionsMatch ==
  ASSUME NEW n, NEW cpu, NEW cuda, Outputs(n, cpu, cuda), n # 0,
         Same(n, cpu, cuda)
  PROVE  Parity(cpu, cuda)
<1> DEFINE A == Available(cpu, cuda)
           Rest(m, x) == {k \in (m + 1) .. n : cpu[k] = x}
           Left(m, x) == {k \in A[m] : cuda[k] = x}
           Balanced(m) == /\ 0 \notin A[m] /\ A[m] \subseteq 1 .. n
                          /\ \A x \in Nat : Cardinality(Rest(m, x)) = Cardinality(Left(m, x))
<1>1. /\ n \in Nat /\ cpu \in [1 .. n -> Nat] /\ cuda \in [1 .. n -> Nat]
      /\ DOMAIN cuda = 1 .. n /\ Len(cpu) = n /\ Len(cuda) = n
  BY DEF Outputs
<1>2. A[0] = 1 .. n /\ \A m \in 1 .. n : A[m] = Remaining(A[m - 1], cpu[m], cuda)
  BY <1>1, AvailableFacts
<1>3. ASSUME NEW m \in 0 .. n, A[m] \subseteq 1 .. n, NEW x
      PROVE  IsFiniteSet(Rest(m, x)) /\ IsFiniteSet(Left(m, x))
  <2>1. IsFiniteSet((m + 1) .. n) /\ IsFiniteSet(1 .. n)
    BY <1>1, FS_Interval
  <2>2. Rest(m, x) \subseteq (m + 1) .. n /\ Left(m, x) \subseteq 1 .. n
    <3> HIDE DEF A
    <3>1. QED
      BY <1>3
  <2> HIDE DEF Rest, Left
  <2>3. QED
    BY <2>1, <2>2, FS_Subset
<1>4. Balanced(0)
  <2> HIDE DEF A
  <2>1. 0 \notin A[0] /\ A[0] \subseteq 1 .. n
    BY <1>1, <1>2
  <2>2. \A x \in Nat : /\ Rest(0, x) = {k \in 1 .. n : cpu[k] = x}
                       /\ Left(0, x) = {k \in 1 .. n : cuda[k] = x}
    <3>1. 0 + 1 = 1 /\ A[0] = 1 .. n
      BY <1>2
    <3>2. QED
      BY <3>1, Zenon
  <2> HIDE DEF Rest, Left
  <2>3. QED
    BY <2>1, <2>2 DEF Same
<1>5. ASSUME NEW m \in 1 .. n, Balanced(m - 1)
      PROVE  Balanced(m)
  <2> DEFINE y == cpu[m]
             near == {i \in A[m - 1] : Far(y, cuda[i]) <= Tolerance}
  <2> HIDE DEF A
  <2>1. /\ m - 1 \in 0 .. n /\ m \in 0 .. n /\ m \in Nat /\ y \in Nat
        /\ 0 \notin A[m - 1] /\ A[m - 1] \subseteq 1 .. n
        /\ \A x \in Nat : Cardinality(Rest(m - 1, x)) = Cardinality(Left(m - 1, x))
    <3> HIDE DEF Rest, Left
    <3>1. m - 1 \in 0 .. n /\ m \in 0 .. n /\ m \in Nat /\ y \in Nat
      BY <1>1
    <3>2. QED
      BY <1>5, <3>1, Zenon
  <2>2. A[m - 1] \in SUBSET (Nat \ {0}) /\ \A i \in A[m - 1] : cuda[i] \in Nat
    BY <1>1, <2>1
  <2>3. /\ \A x : IsFiniteSet(Rest(m - 1, x)) /\ IsFiniteSet(Left(m - 1, x))
    BY <1>3, <2>1
  <2>4. m \in Rest(m - 1, y)
    BY <1>1, <2>1
  <2>5. Left(m - 1, y) # {}
    <3> HIDE DEF Rest, Left, y
    <3>1. Cardinality(Rest(m - 1, y)) # 0
      BY <2>3, <2>4, FS_EmptySet
    <3>2. QED
      BY <3>1, <2>1, FS_EmptySet
  <2>6. PICK same \in A[m - 1] : cuda[same] = y
    BY <2>5
  <2>7. same \in near
    <3>1. Far(y, cuda[same]) = 0
      BY <2>1, <2>6, NotFar
    <3>2. QED
      BY <3>1, SmokeAssumption
  <2>8. PICK i \in near :
          /\ TakeClosest(A[m - 1], y, cuda) = A[m - 1] \ {i}
          /\ \A j \in near : Far(y, cuda[i]) <= Far(y, cuda[j])
    <3> HIDE DEF y
    <3>1. near # {}
      BY <2>7
    <3>2. QED
      BY <2>1, <2>2, <3>1, ClosestFacts, Zenon
  <2>9. cuda[i] = y /\ i \in A[m - 1]
    <3>1. Far(y, cuda[i]) <= Far(y, cuda[same]) /\ i \in A[m - 1]
      BY <2>7, <2>8
    <3>2. Far(y, cuda[same]) = 0
      BY <2>1, <2>6, NotFar
    <3>3. cuda[i] \in Nat
      BY <2>2, <3>1
    <3>4. Far(y, cuda[i]) \in Nat
      BY <2>1, <3>3, NotFar
    <3>5. Far(y, cuda[i]) = 0
      BY <3>1, <3>2, <3>4
    <3>6. QED
      BY <2>1, <3>1, <3>3, <3>5, NotFar
  <2>10. A[m] = A[m - 1] \ {i}
    BY <1>2, <2>1, <2>8 DEF Remaining
  <2>11. 0 \notin A[m] /\ A[m] \subseteq 1 .. n
    BY <2>1, <2>10
  <2>12. \A k : k \in (m + 1) .. n <=> k \in ((m - 1) + 1) .. n /\ k # m
    BY <1>1, <2>1, WithoutFirst, Zenon
  <2>13. ASSUME NEW x \in Nat
         PROVE  Cardinality(Rest(m, x)) = Cardinality(Left(m, x))
    <3>1. CASE x = y
      <4>1. Rest(m, x) = Rest(m - 1, x) \ {m}
        BY <2>12, Zenon
      <4>2. Left(m, x) = Left(m - 1, x) \ {i}
        BY <2>10
      <4>3. m \in Rest(m - 1, x) /\ i \in Left(m - 1, x)
        BY <2>4, <2>9, <3>1
      <4> HIDE DEF Rest, Left
      <4>4. Cardinality(Rest(m, x)) = Cardinality(Rest(m - 1, x)) - 1
        BY <4>1, <4>3, <2>3, OneLess, Zenon
      <4>5. Cardinality(Left(m, x)) = Cardinality(Left(m - 1, x)) - 1
        BY <4>2, <4>3, <2>3, OneLess, Zenon
      <4>6. Cardinality(Rest(m - 1, x)) = Cardinality(Left(m - 1, x))
        BY <2>1, Zenon
      <4>7. QED
        BY <4>4, <4>5, <4>6, Zenon
    <3>2. CASE x # y
      <4>1. Rest(m, x) = Rest(m - 1, x)
        <5>1. \A k \in 1 .. n : k # m \/ cpu[k] # x
          BY <3>2
        <5>2. \A k \in ((m - 1) + 1) .. n : k \in 1 .. n
          BY <1>1, <2>1
        <5> HIDE DEF y
        <5>3. \A k : k \in Rest(m, x) <=> k \in Rest(m - 1, x)
          BY <2>12, <5>1, <5>2, Zenon
        <5> HIDE DEF Rest
        <5>4. QED
          BY <5>3, Zenon
      <4>2. Left(m, x) = Left(m - 1, x)
        BY <2>9, <2>10, <3>2
      <4> HIDE DEF Rest, Left
      <4>3. QED
        BY <4>1, <4>2, <2>1
    <3>3. QED
      BY <3>1, <3>2
  <2>14. QED
    <3> HIDE DEF Rest, Left
    <3>1. QED
      BY <2>11, <2>13
<1>6. Balanced(n)
  <2> DEFINE T == {m \in 0 .. n : ~Balanced(m)}
  <2> HIDE DEF Balanced
  <2>1. SUFFICES ASSUME n \in T PROVE FALSE
    BY <1>1
  <2>2. PICK m \in T : \A k \in T : m <= k
    <3>1. T \in SUBSET Nat
      OBVIOUS
    <3> HIDE DEF T
    <3>2. QED
      BY <2>1, <3>1, LeastNatural
  <2>3. m # 0 /\ m \in 0 .. n
    BY <2>2, <1>4
  <2>4. m - 1 \in 0 .. n /\ ~(m <= m - 1) /\ m \in 1 .. n
    BY <1>1, <2>3
  <2>5. m - 1 \notin T
    <3> HIDE DEF T
    <3>1. QED
      BY <2>2, <2>4
  <2>6. QED
    BY <2>2, <2>4, <2>5, <1>5
<1>7. A[n] = {}
  <2> HIDE DEF A
  <2> SUFFICES ASSUME NEW k \in A[n] PROVE FALSE
    OBVIOUS
  <2>1. cuda[k] \in Nat /\ n \in 0 .. n /\ A[n] \subseteq 1 .. n
    BY <1>1, <1>6
  <2>2. Rest(n, cuda[k]) = {} /\ k \in Left(n, cuda[k])
    BY <1>1
  <2>3. IsFiniteSet(Left(n, cuda[k]))
    BY <1>3, <2>1
  <2>4. Cardinality(Rest(n, cuda[k])) = Cardinality(Left(n, cuda[k]))
    BY <1>6, <2>1
  <2> HIDE DEF Rest, Left
  <2>5. QED
    BY <2>2, <2>3, <2>4, FS_EmptySet
<1>8. cpu # <<>>
  BY <1>1
<1>9. QED
  <2> HIDE DEF A
  <2>1. Available(cpu, cuda)[Len(cpu)] = {}
    BY <1>1, <1>7 DEF A
  <2>2. QED
    BY <1>1, <1>8, <2>1, Zenon DEF Parity

-----------------------------------------------------------------------------
(* The smoke: worker and host                                              *)

FdSample == [fds : SUBSET Device, error : {"none", "entry", "root"}]

Markers == {"none", "own", "child"}

RawRun == [fd : BOOLEAN, marker : Markers, log : {"clean", "fallback"}, kitti : Detections]

SmokeShapes ==
  /\ worker \in [run : 1 .. 3, pc : {"start", "poll", "grace", "wait", "failed", "written"}]
  /\ app \in [state : {"none", "running", "exiting", "exited"}, fds : SUBSET Device,
              code : {0, 1}, marker : Markers, log : {"clean", "fallback"}]
  /\ runData \in [samples : Seq(FdSample), errors : Nat, terminal : Nat]
  /\ raw \in Seq(RawRun)
  /\ verdict \in {"none", "refused", "pass", "fail"}

\* The last sample is the only one with an error, and every device was seen before it.
EndsInTeardown(samples) ==
  /\ samples[Len(samples)].error = "root"
  /\ Device \subseteq Observed(SubSeq(samples, 1, Len(samples) - 1))

\* What the worker keeps of the samples of a run: the first error ends the sampling, and it
\* is pending, counted or terminal.
SamplesAreKept ==
  LET samples == runData.samples
      last == Len(runData.samples)
  IN /\ worker.pc = "poll" =>
          Errors(samples) = {} /\ runData.errors = 0 /\ runData.terminal = 0
     /\ worker.pc \in {"grace", "wait"} => samples # <<>> /\ Errors(samples) = {last}
     /\ worker.pc = "grace" =>
          EndsInTeardown(samples) /\ runData.errors = 0 /\ runData.terminal = 0
     /\ worker.pc = "wait" =>
          \/ runData.errors = 1 /\ runData.terminal = 0
          \/ runData.errors = 0 /\ runData.terminal = last /\ EndsInTeardown(samples)

\* The runs that are finished had the markers of their parsers.
RunsAreKept ==
  /\ Len(raw) = worker.run - 1
  /\ worker.pc = "written" <=> worker.run = 3
  /\ 1 \in DOMAIN raw => raw[1].marker # "none"
  /\ 2 \in DOMAIN raw => raw[2].marker = "none"

\* A verdict comes after both runs, and passes what ReplayRaw found.
VerdictIsKept ==
  /\ verdict # "none" => worker.pc = "written"
  /\ verdict = "pass" => raw[1].marker = "own" /\ Parity(raw[2].kitti, raw[1].kitti)

SmokeInv == SmokeShapes /\ SamplesAreKept /\ RunsAreKept /\ VerdictIsKept

LEMMA SmokeInitHolds == SmokeInit => SmokeInv
<1> SUFFICES ASSUME SmokeInit PROVE SmokeInv
  OBVIOUS
<1>1. SmokeShapes
  BY DEF SmokeInit, SmokeShapes, NoApp, NoRunData, Markers
<1>2. SamplesAreKept /\ RunsAreKept /\ VerdictIsKept
  BY DEF SmokeInit, SamplesAreKept, RunsAreKept, VerdictIsKept
<1>3. QED
  BY <1>1, <1>2 DEF SmokeInv

\* The samples with one more.
LEMMA OneMoreSample ==
  ASSUME NEW samples \in Seq(FdSample), NEW sample \in FdSample
  PROVE  LET more == Append(samples, sample)
         IN /\ more \in Seq(FdSample) /\ more # <<>> /\ Len(more) = Len(samples) + 1
            /\ more[Len(more)] = sample
            /\ SubSeq(more, 1, Len(more) - 1) = samples
            /\ sample.error = "none" => Errors(more) = Errors(samples)
            /\ sample.error # "none" /\ Errors(samples) = {} => Errors(more) = {Len(more)}
<1> DEFINE more == Append(samples, sample)
<1>1. /\ more \in Seq(FdSample) /\ more # <<>> /\ Len(more) = Len(samples) + 1
      /\ more[Len(more)] = sample /\ DOMAIN more = 1 .. Len(samples) + 1
      /\ DOMAIN samples = 1 .. Len(samples) /\ Len(samples) \in Nat
      /\ \A i \in 1 .. Len(samples) : more[i] = samples[i]
  OBVIOUS
<1>2. SubSeq(more, 1, Len(more) - 1) = samples
  OBVIOUS
<1>3. sample.error = "none" => Errors(more) = Errors(samples)
  <2> HIDE DEF more
  <2>1. QED
    BY <1>1 DEF Errors
<1>4. sample.error # "none" /\ Errors(samples) = {} => Errors(more) = {Len(more)}
  <2> HIDE DEF more
  <2>1. QED
    BY <1>1 DEF Errors
<1>5. QED
  BY <1>1, <1>2, <1>3, <1>4

LEMMA SampledIsSample == SmokeShapes => Sampled \subseteq FdSample
BY DEF SmokeShapes, Sampled, FdSample

LEMMA SampleFdsHolds == SmokeInv /\ SampleFds => SmokeInv'
<1> SUFFICES ASSUME SmokeInv, SampleFds PROVE SmokeInv'
  OBVIOUS
<1>1. PICK sample \in Sampled :
        /\ runData' = [runData EXCEPT
             !.samples = Append(@, sample),
             !.errors = IF sample.error = "none" \/ TerminalCandidate(sample)
                          THEN @ ELSE @ + 1]
        /\ worker' = [worker EXCEPT !.pc =
             IF sample.error = "none" THEN "poll"
             ELSE IF TerminalCandidate(sample) THEN "grace" ELSE "wait"]
  BY DEF SampleFds
<1>2. worker.pc = "poll" /\ UNCHANGED <<app, raw, verdict>>
  BY DEF SampleFds
<1>3. /\ Errors(runData.samples) = {} /\ runData.errors = 0 /\ runData.terminal = 0
      /\ runData.samples \in Seq(FdSample) /\ sample \in FdSample
  BY <1>2, SampledIsSample DEF SmokeInv, SamplesAreKept, SmokeShapes
<1> DEFINE more == Append(runData.samples, sample)
<1>4. /\ more \in Seq(FdSample) /\ more # <<>> /\ more[Len(more)] = sample
      /\ SubSeq(more, 1, Len(more) - 1) = runData.samples
      /\ sample.error = "none" => Errors(more) = Errors(runData.samples)
      /\ sample.error # "none" /\ Errors(runData.samples) = {} => Errors(more) = {Len(more)}
  BY <1>3, OneMoreSample, Zenon
<1>5. runData' = [samples |-> more, terminal |-> 0,
        errors |-> IF sample.error = "none" \/ TerminalCandidate(sample) THEN 0 ELSE 1]
  <2>1. runData = [samples |-> runData.samples, errors |-> 0, terminal |-> 0]
    BY <1>3 DEF SmokeInv, SmokeShapes
  <2> HIDE DEF more
  <2>2. CASE sample.error = "none" \/ TerminalCandidate(sample)
    <3>1. runData' = [runData EXCEPT !.samples = more]
      BY <1>1, <1>3, <2>1, <2>2 DEF more
    <3>2. QED
      BY <2>1, <2>2, <3>1
  <2>3. CASE ~(sample.error = "none" \/ TerminalCandidate(sample))
    <3>1. runData' = [runData EXCEPT !.samples = more, !.errors = runData.errors + 1]
      BY <1>1, <2>3, Zenon DEF more
    <3>2. runData.errors + 1 = 1
      BY <1>3
    <3>3. runData' = [samples |-> more, terminal |-> 0, errors |-> 1]
      BY <1>3, <3>1, <3>2 DEF SmokeInv, SmokeShapes
    <3>4. QED
      BY <2>3, <3>3, Zenon
  <2>4. QED
    BY <2>2, <2>3
<1>6. worker' = [run |-> worker.run, pc |->
        IF sample.error = "none" THEN "poll"
        ELSE IF TerminalCandidate(sample) THEN "grace" ELSE "wait"]
  BY <1>1 DEF SmokeInv, SmokeShapes
<1>7. SmokeShapes'
  <2> HIDE DEF more
  <2>1. QED
    BY <1>2, <1>4, <1>5, <1>6 DEF SmokeInv, SmokeShapes
<1>8. SamplesAreKept'
  <2> HIDE DEF more
  <2>1. CASE sample.error = "none"
    BY <2>1, <1>3, <1>4, <1>5, <1>6 DEF SamplesAreKept
  <2>2. CASE sample.error # "none" /\ TerminalCandidate(sample)
    <3>1. EndsInTeardown(more)
      BY <2>2, <1>4 DEF TerminalCandidate, EndsInTeardown
    <3>2. QED
      BY <2>2, <3>1, <1>3, <1>4, <1>5, <1>6 DEF SamplesAreKept
  <2>3. CASE sample.error # "none" /\ ~TerminalCandidate(sample)
    BY <2>3, <1>3, <1>4, <1>5, <1>6 DEF SamplesAreKept
  <2>4. QED
    BY <2>1, <2>2, <2>3
<1>9. RunsAreKept' /\ VerdictIsKept'
  BY <1>2, <1>6 DEF SmokeInv, RunsAreKept, VerdictIsKept
<1>10. QED
  BY <1>7, <1>8, <1>9 DEF SmokeInv

LEMMA GraceHolds == SmokeInv /\ (ExitInGrace \/ GraceEnds) => SmokeInv'
<1> SUFFICES ASSUME SmokeInv, ExitInGrace \/ GraceEnds PROVE SmokeInv'
  OBVIOUS
<1>1. /\ worker.pc = "grace" /\ UNCHANGED <<app, raw, verdict>>
      /\ worker' = [worker EXCEPT !.pc = "wait"]
      /\ \/ runData' = [runData EXCEPT !.terminal = Len(runData.samples)]
         \/ runData' = [runData EXCEPT !.errors = @ + 1]
  BY DEF ExitInGrace, GraceEnds
<1>2. /\ runData.errors = 0 /\ runData.terminal = 0 /\ runData.samples # <<>>
      /\ Errors(runData.samples) = {Len(runData.samples)} /\ EndsInTeardown(runData.samples)
      /\ runData.samples \in Seq(FdSample)
  BY <1>1 DEF SmokeInv, SamplesAreKept, SmokeShapes
<1>3. /\ runData'.samples = runData.samples
      /\ \/ runData'.errors = 1 /\ runData'.terminal = 0
         \/ runData'.errors = 0 /\ runData'.terminal = Len(runData.samples)
      /\ runData' \in [samples : Seq(FdSample), errors : Nat, terminal : Nat]
  <2>1. Len(runData.samples) \in Nat
    BY <1>2
  <2>2. QED
    BY <1>1, <1>2, <2>1 DEF SmokeInv, SmokeShapes
<1>4. worker' = [run |-> worker.run, pc |-> "wait"]
  BY <1>1 DEF SmokeInv, SmokeShapes
<1>5. SmokeShapes'
  BY <1>1, <1>3, <1>4 DEF SmokeInv, SmokeShapes
<1>6. SamplesAreKept'
  BY <1>2, <1>3, <1>4 DEF SamplesAreKept
<1>7. RunsAreKept' /\ VerdictIsKept'
  BY <1>1, <1>4 DEF SmokeInv, RunsAreKept, VerdictIsKept
<1>8. QED
  BY <1>5, <1>6, <1>7 DEF SmokeInv

LEMMA ReapHolds == SmokeInv /\ Reap => SmokeInv'
<1> SUFFICES ASSUME SmokeInv, Reap PROVE SmokeInv'
  OBVIOUS
<1>1. worker.pc \in {"poll", "wait"} /\ app' = NoApp /\ runData' = NoRunData /\ UNCHANGED verdict
  BY DEF Reap
<1>2. /\ worker.run \in {1, 2} /\ Len(raw) = worker.run - 1 /\ verdict = "none"
      /\ Len(RunIds) = 2
  BY <1>1 DEF SmokeInv, SmokeShapes, RunsAreKept, VerdictIsKept, RunIds
<1>3. CASE UNCHANGED raw /\ worker' = [worker EXCEPT !.pc = "failed"]
  <2>1. worker' = [run |-> worker.run, pc |-> "failed"]
    BY <1>3 DEF SmokeInv, SmokeShapes
  <2>2. SmokeShapes'
    BY <1>1, <1>2, <1>3, <2>1 DEF SmokeInv, SmokeShapes, NoApp, NoRunData, Markers
  <2>3. SamplesAreKept' /\ VerdictIsKept'
    BY <1>1, <1>2, <2>1 DEF SamplesAreKept, VerdictIsKept
  <2>4. RunsAreKept'
    BY <1>2, <1>3, <2>1 DEF SmokeInv, RunsAreKept
  <2>5. QED
    BY <2>2, <2>3, <2>4 DEF SmokeInv
<1>4. ASSUME NEW out \in Detections, MarkerAsExpected,
             raw' = Append(raw, [fd |-> FdEvidencePasses(runData), marker |-> app.marker,
                                 log |-> app.log, kitti |-> out]),
             worker' = [run |-> worker.run + 1,
                        pc |-> IF worker.run = Len(RunIds) THEN "written" ELSE "start"]
      PROVE  SmokeInv'
  <2> DEFINE done == [fd |-> FdEvidencePasses(runData), marker |-> app.marker,
                      log |-> app.log, kitti |-> out]
  <2>1. FdEvidencePasses(runData) \in BOOLEAN
    BY DEF FdEvidencePasses
  <2>2. done \in RawRun
    BY <2>1 DEF SmokeInv, SmokeShapes, RawRun
  <2>3. raw' \in Seq(RawRun) /\ Len(raw') = Len(raw) + 1 /\ DOMAIN raw' = 1 .. Len(raw) + 1
        /\ raw'[Len(raw) + 1] = done /\ \A i \in 1 .. Len(raw) : raw'[i] = raw[i]
    <3> HIDE DEF done
    <3>1. raw \in Seq(RawRun) /\ raw' = Append(raw, done)
      BY <1>4 DEF SmokeInv, SmokeShapes, done
    <3>2. QED
      BY <2>2, <3>1
  <2>4. done.marker = app.marker
    OBVIOUS
  <2>5. /\ worker.run = 1 => done.marker # "none"
        /\ worker.run = 2 => done.marker = "none"
    BY <1>4, <2>4 DEF MarkerAsExpected, RunIds
  <2> HIDE DEF done
  <2>6. SmokeShapes'
    BY <1>1, <1>2, <1>4, <2>3 DEF SmokeInv, SmokeShapes, NoApp, NoRunData, Markers
  <2>7. SamplesAreKept' /\ VerdictIsKept'
    BY <1>1, <1>2, <1>4 DEF SamplesAreKept, VerdictIsKept
  <2>8. RunsAreKept'
    <3>1. CASE worker.run = 1
      BY <1>2, <1>4, <2>3, <2>5, <3>1 DEF SmokeInv, RunsAreKept
    <3>2. CASE worker.run = 2
      <4>1. raw'[2] = done /\ raw'[1] = raw[1] /\ Len(raw') = 2 /\ 1 \in DOMAIN raw
        BY <1>2, <2>3, <3>2 DEF SmokeInv, SmokeShapes
      <4>2. worker' = [run |-> 3, pc |-> "written"]
        BY <1>2, <1>4, <3>2
      <4>3. QED
        BY <2>3, <2>5, <3>2, <4>1, <4>2 DEF SmokeInv, RunsAreKept
    <3>3. QED
      BY <1>2, <3>1, <3>2
  <2>9. QED
    BY <2>6, <2>7, <2>8 DEF SmokeInv
<1>5. QED
  BY <1>3, <1>4 DEF Reap

LEMMA ReplayHolds == SmokeInv /\ ReplayRaw => SmokeInv'
<1> SUFFICES ASSUME SmokeInv, ReplayRaw PROVE SmokeInv'
  OBVIOUS
<1>1. worker.pc = "written" /\ UNCHANGED <<worker, app, runData, raw>>
  BY DEF ReplayRaw
<1>2. verdict' \in {"refused", "pass", "fail"}
  BY DEF ReplayRaw
<1>3. verdict' = "pass" => raw[1].marker = "own" /\ Parity(raw[2].kitti, raw[1].kitti)
  BY DEF ReplayRaw
<1>4. SmokeShapes' /\ SamplesAreKept' /\ RunsAreKept'
  BY <1>1, <1>2 DEF SmokeInv, SmokeShapes, SamplesAreKept, RunsAreKept
<1>5. VerdictIsKept'
  BY <1>1, <1>3 DEF VerdictIsKept
<1>6. QED
  BY <1>4, <1>5 DEF SmokeInv

\* What the application does, and the start of a run, leaves the evidence alone.
LEMMA ApplicationHolds ==
  SmokeInv /\ (AppOpens \/ AppTearsDown \/ AppExits \/ StartRun) => SmokeInv'
<1> SUFFICES ASSUME SmokeInv, AppOpens \/ AppTearsDown \/ AppExits \/ StartRun
             PROVE  SmokeInv'
  OBVIOUS
<1>1. CASE AppOpens \/ AppTearsDown \/ AppExits
  <2>1. app' \in [state : {"none", "running", "exiting", "exited"}, fds : SUBSET Device,
                  code : {0, 1}, marker : Markers, log : {"clean", "fallback"}]
    <3>1. CASE AppOpens
      <4>1. PICK d \in Device : app' = [app EXCEPT !.fds = app.fds \cup {d}]
        BY <3>1 DEF AppOpens
      <4>2. app.fds \cup {d} \in SUBSET Device
        BY DEF SmokeInv, SmokeShapes
      <4>3. QED
        BY <4>1, <4>2 DEF SmokeInv, SmokeShapes
    <3>2. CASE AppTearsDown
      BY <3>2 DEF AppTearsDown, SmokeInv, SmokeShapes
    <3>3. CASE AppExits
      BY <3>3 DEF AppExits, SmokeInv, SmokeShapes
    <3>4. QED
      BY <1>1, <3>1, <3>2, <3>3
  <2>2. UNCHANGED <<worker, runData, raw, verdict>>
    BY <1>1 DEF AppOpens, AppTearsDown, AppExits
  <2>3. QED
    BY <2>1, <2>2
       DEF SmokeInv, SmokeShapes, SamplesAreKept, RunsAreKept, VerdictIsKept
<1>2. CASE StartRun
  <2>1. app' \in [state : {"none", "running", "exiting", "exited"}, fds : SUBSET Device,
                  code : {0, 1}, marker : Markers, log : {"clean", "fallback"}]
    <3>1. PICK m \in Markers, l \in {"clean", "fallback"} :
            app' = [NoApp EXCEPT !.state = "running", !.marker = m, !.log = l]
      BY <1>2 DEF StartRun, Markers
    <3>2. QED
      BY <3>1 DEF NoApp
  <2>2. /\ worker.pc = "start" /\ worker' = [run |-> worker.run, pc |-> "poll"]
        /\ runData' = NoRunData /\ UNCHANGED <<raw, verdict>>
    BY <1>2 DEF StartRun, SmokeInv, SmokeShapes
  <2>3. SmokeShapes'
    BY <2>1, <2>2 DEF SmokeInv, SmokeShapes, NoRunData
  <2>4. SamplesAreKept'
    BY <2>2 DEF SamplesAreKept, NoRunData, Errors
  <2>5. RunsAreKept' /\ VerdictIsKept'
    BY <2>2 DEF SmokeInv, RunsAreKept, VerdictIsKept
  <2>6. QED
    BY <2>3, <2>4, <2>5 DEF SmokeInv
<1>3. QED
  BY <1>1, <1>2

LEMMA SmokeNextHolds == SmokeInv /\ [SmokeNext]_smokeVars => SmokeInv'
<1>1. SmokeInv /\ UNCHANGED smokeVars => SmokeInv'
  BY DEF smokeVars, SmokeInv, SmokeShapes, SamplesAreKept, RunsAreKept, VerdictIsKept
<1>2. QED
  BY <1>1, ApplicationHolds, SampleFdsHolds, GraceHolds, ReapHolds, ReplayHolds DEF SmokeNext

\* The evidence of a run that is over: without an error it passes if every device was seen,
\* with the error of the teardown as well, and with one that was counted never.
LEMMA HostReadsAlike == SmokeInv => WorkerAndHostAgree
<1> SUFFICES ASSUME SmokeInv, worker.pc \in {"poll", "wait"}
             PROVE  FdEvidencePasses(runData) <=>
                      runData.errors = 0 /\ Device \subseteq Observed(runData.samples)
  BY DEF WorkerAndHostAgree
<1> DEFINE samples == runData.samples
           seen == Device \subseteq Observed(samples)
<1>1. runData.samples \in Seq(FdSample) /\ Device # {}
  BY SmokeAssumption DEF SmokeInv, SmokeShapes
<1>2. seen => samples # <<>>
  BY <1>1 DEF Observed
<1>3. CASE worker.pc = "poll"
  <2>1. Errors(samples) = {} /\ runData.errors = 0 /\ runData.terminal = 0
    BY <1>3 DEF SmokeInv, SamplesAreKept
  <2>2. Cardinality(Errors(samples)) = 0
    BY <2>1, FS_EmptySet
  <2>3. QED
    BY <1>2, <2>1, <2>2 DEF FdEvidencePasses
<1>4. CASE worker.pc = "wait" /\ runData.errors = 1 /\ runData.terminal = 0
  <2>1. Errors(samples) # {}
    BY <1>4 DEF SmokeInv, SamplesAreKept
  <2>2. QED
    BY <1>4, <2>1 DEF FdEvidencePasses, TerminalAccepted
<1>5. CASE /\ worker.pc = "wait" /\ runData.errors = 0
           /\ runData.terminal = Len(samples) /\ EndsInTeardown(samples)
  <2>1. samples # <<>> /\ Errors(samples) = {Len(samples)}
    BY <1>5 DEF SmokeInv, SamplesAreKept
  <2>2. Len(samples) # 0 /\ Len(samples) \in Nat
    BY <1>1, <2>1
  <2>3. TerminalAccepted(runData)
    BY <1>5, <2>1, <2>2 DEF TerminalAccepted, EndsInTeardown
  <2>4. QED
    BY <1>5, <2>1, <2>2, <2>3 DEF FdEvidencePasses
<1>6. QED
  BY <1>3, <1>4, <1>5 DEF SmokeInv, SamplesAreKept

\* The detections of a run in raw.
LEMMA DetectionsOf ==
  ASSUME SmokeInv, NEW i \in DOMAIN raw
  PROVE  \E n \in Nat : raw[i].kitti \in [1 .. n -> Spot]
<1>1. raw[i] \in RawRun
  BY DEF SmokeInv, SmokeShapes
<1>2. raw[i].kitti \in Detections
  BY <1>1 DEF RawRun
<1>3. PICK n \in 0 .. 2 : raw[i].kitti \in [1 .. n -> Spot]
  BY <1>2 DEF Detections
<1>4. QED
  BY <1>3

LEMMA PassMeans == SmokeInv => PassIsEarned
<1> SUFFICES ASSUME SmokeInv, verdict = "pass"
             PROVE  /\ raw[1].marker = "own" /\ raw[2].marker = "none"
                    /\ \E match \in [DOMAIN raw[2].kitti -> DOMAIN raw[1].kitti] :
                         /\ \A i \in DOMAIN match :
                              Far(raw[2].kitti[i], raw[1].kitti[match[i]]) <= Tolerance
                         /\ \A i, j \in DOMAIN match : match[i] = match[j] => i = j
                         /\ \A k \in DOMAIN raw[1].kitti : \E i \in DOMAIN match : match[i] = k
  BY DEF PassIsEarned
<1>1. worker.run = 3 /\ raw[1].marker = "own" /\ Parity(raw[2].kitti, raw[1].kitti)
  BY DEF SmokeInv, VerdictIsKept, RunsAreKept
<1>2. Len(raw) = 2 /\ 1 \in DOMAIN raw /\ 2 \in DOMAIN raw
  BY <1>1 DEF SmokeInv, SmokeShapes, RunsAreKept
<1>3. raw[2].marker = "none"
  BY <1>2 DEF SmokeInv, RunsAreKept
<1>4. PICK n \in Nat : raw[2].kitti \in [1 .. n -> Spot]
  BY <1>2, DetectionsOf
<1>5. PICK m \in Nat : raw[1].kitti \in [1 .. m -> Spot]
  BY <1>2, DetectionsOf
<1>6. Len(raw[2].kitti) = Len(raw[1].kitti)
  BY <1>1, Zenon DEF Parity
<1>7. m = n
  <2>1. Len(raw[2].kitti) = n /\ Len(raw[1].kitti) = m
    BY <1>4, <1>5
  <2>2. QED
    BY <1>6, <2>1
<1>8. Outputs(n, raw[2].kitti, raw[1].kitti)
  BY <1>4, <1>5, <1>7, SmokeAssumption DEF Outputs
<1>9. PICK match : Pairing(match, n, raw[2].kitti, raw[1].kitti)
  BY <1>1, <1>8, ParityMatches, Zenon
<1>10. DOMAIN raw[2].kitti = 1 .. n /\ DOMAIN raw[1].kitti = 1 .. n /\ DOMAIN match = 1 .. n
  BY <1>4, <1>5, <1>7, <1>9 DEF Pairing
<1>11. /\ match \in [DOMAIN raw[2].kitti -> DOMAIN raw[1].kitti]
       /\ \A k \in DOMAIN raw[1].kitti : \E i \in DOMAIN match : match[i] = k
  BY <1>9, <1>10 DEF Pairing
<1>12. /\ \A i \in DOMAIN match :
            Far(raw[2].kitti[i], raw[1].kitti[match[i]]) <= Tolerance
       /\ \A i, j \in DOMAIN match : match[i] = match[j] => i = j
  BY <1>9, <1>10 DEF Pairing
<1>13. QED
  BY <1>1, <1>3, <1>11, <1>12

LEMMA SameOutputMeans == SmokeInv => SameOutputPasses
<1> SUFFICES ASSUME SmokeInv, NEW i \in DOMAIN raw, NEW j \in DOMAIN raw,
                    raw[i].kitti # <<>>, Len(raw[i].kitti) = Len(raw[j].kitti),
                    \A x \in Spot :
                      Cardinality({k \in DOMAIN raw[i].kitti : raw[i].kitti[k] = x})
                        = Cardinality({k \in DOMAIN raw[j].kitti : raw[j].kitti[k] = x})
             PROVE  Parity(raw[i].kitti, raw[j].kitti)
  BY DEF SameOutputPasses
<1>1. PICK n \in Nat : raw[i].kitti \in [1 .. n -> Spot]
  BY DetectionsOf
<1>2. PICK m \in Nat : raw[j].kitti \in [1 .. m -> Spot]
  BY DetectionsOf
<1>3. m = n
  <2>1. Len(raw[i].kitti) = n /\ Len(raw[j].kitti) = m
    BY <1>1, <1>2
  <2>2. QED
    BY <2>1
<1>4. Outputs(n, raw[i].kitti, raw[j].kitti)
  BY <1>1, <1>2, <1>3, SmokeAssumption DEF Outputs
<1>5. n # 0
  BY <1>1
<1>6. DOMAIN raw[i].kitti = 1 .. n /\ DOMAIN raw[j].kitti = 1 .. n
  BY <1>1, <1>2, <1>3
<1>7. ASSUME NEW x \in Nat
      PROVE  Cardinality({k \in 1 .. n : raw[i].kitti[k] = x})
               = Cardinality({k \in 1 .. n : raw[j].kitti[k] = x})
  <2>1. CASE x \in Spot
    BY <2>1, <1>6
  <2>2. CASE x \notin Spot
    <3>1. /\ {k \in 1 .. n : raw[i].kitti[k] = x} = {}
          /\ {k \in 1 .. n : raw[j].kitti[k] = x} = {}
      BY <2>2, <1>1, <1>2, <1>3
    <3>2. QED
      BY <3>1, Zenon
  <2>3. QED
    BY <2>1, <2>2
<1>8. Same(n, raw[i].kitti, raw[j].kitti)
  BY <1>7, Zenon DEF Same
<1>9. QED
  BY <1>4, <1>5, <1>8, SameDetectionsMatch, Zenon

LEMMA SmokeMeans == SmokeInv => SmokeIsSound
  BY HostReadsAlike, PassMeans, SameOutputMeans DEF SmokeIsSound

-----------------------------------------------------------------------------
(* The parts together                                                      *)

\* Whatever the client, the container, the monitor and the daemon do, and wherever the guard is
\* killed: a report says complete only for a container of the resolved image that ended by itself
\* on the GPU of the preflight, was sampled, and has the complete receipt of the same run; a
\* guard that comes to its verdict without an exception has no client left, and where docker
\* carried out its last removal nothing of the run is running or starts later
\* (run_guarded_docker).
THEOREM GuardedRunsAreSafe == GpuGuardSpec => []GuardSafe
<1>1. GpuGuardSpec => []GuardInv
  BY GuardInitHolds, GuardNextHolds, PTL DEF GpuGuardSpec
<1>2. QED
  BY <1>1, Safe, PTL

\* The whole invariant, for any number of sessions, receipts, nonces and processes.
THEOREM QualificationCorrect == QualificationSpec => []QualificationInv
  BY QualificationInitHolds, QualificationNextHolds, PTL DEF QualificationSpec

\* A nonce starts a container at most once, whoever executes it and whoever dies: the raw
\* directory of the smoke is made once (execute of ds9_gpu_smoke.py).
THEOREM NonceRunsOnce == QualificationSpec => []RunOnce
<1>1. QualificationInv => RunOnce
  BY DEF QualificationInv, Runs, RunOf, RunOnce
<1>2. QED
  BY <1>1, QualificationCorrect, PTL

\* Passing evidence is of a run that passed on the image that it names, although it takes its
\* image from the contract and not from the container (execute of ds9_gpu_smoke.py).
THEOREM EvidenceTellsItsRun == QualificationSpec => []EvidenceIsOfItsRun
<1>1. QualificationInv => EvidenceIsOfItsRun
  BY DEF QualificationInv, Runs, RunOf, EvidenceIsOfItsRun
<1>2. QED
  BY <1>1, QualificationCorrect, PTL

\* Whatever is edited, retagged, killed or left to expire: an image that a GPU entry point
\* launches was built from the live files, and its parser was measured, it was built and it
\* passed a smoke within the lifetime of one receipt (require_runtime_compatibility).
THEOREM LaunchesAreQualified == QualificationSpec => []LaunchedIsQualified
<1>1. QualificationInv => LaunchedIsQualified
  BY DEF QualificationInv
<1>2. QED
  BY <1>1, QualificationCorrect, PTL

\* The three together.
THEOREM QualificationSound == QualificationSpec => []QualificationIsSound
  BY NonceRunsOnce, EvidenceTellsItsRun, LaunchesAreQualified, PTL DEF QualificationIsSound

\* However long the processes run, whatever their descriptors show and wherever the detections
\* are: the host finds in the samples of a run what the worker found, a pass rests on a one-to-one
\* matching within the tolerance of runs with the markers of their parsers, and two parsers that
\* wrote the same detections in any order are not told apart (replay_raw_session, _parity).
THEOREM SmokesAreSound == SmokeSpec => []SmokeIsSound
<1>1. SmokeSpec => []SmokeInv
  BY SmokeInitHolds, SmokeNextHolds, PTL DEF SmokeSpec
<1>2. QED
  BY <1>1, SmokeMeans, PTL

\* Whatever the declarations, the drivers and the clock do between two readings of a re-entry
\* bundle: a bundle that a guard would admit was true of the machine at most one age ago, a strict
\* policy never admits less than it asks for, and a BIOS that could be read is not outvoted
\* (collect and evaluate of gpu_reentry_evidence).
THEOREM ReentryAdmitsTheTruth == ReentrySpec => []ReentryIsSound
<1>1. ReentrySpec => []ReentryInv
  BY ReentryInitHolds, ReentryNextHolds, PTL DEF ReentrySpec
<1>2. QED
  BY <1>1, AdmittedIsSound, PTL

\* However often a CAVIAR run is killed, forced over an older root and leaves its container
\* behind: a run that says complete holds the frames of its own container alone, and its job
\* receipt rests on the pinned video unless the inputs were edited twice (main of the runner).
THEOREM EvaluationsAreSound == CaviarSpec => []CaviarIsSound
<1>1. CaviarSpec => []CaviarInv
  BY CaviarInitHolds, CaviarNextHolds, PTL DEF CaviarSpec
<1>2. QED
  BY <1>1, CaviarMeans, PTL

\* A step of the group is a step of each part, or leaves it alone.
LEMMA StepsOfParts ==
  [AdmissionNext]_admissionVars =>
    /\ [GpuGuardNext]_guardVars /\ [ReentryNext]_reentryVars /\ [SmokeNext]_smokeVars
    /\ [QualificationNext]_qualificationVars /\ [CaviarNext]_caviarVars
<1> SUFFICES ASSUME [AdmissionNext]_admissionVars
             PROVE  /\ [GpuGuardNext]_guardVars /\ [ReentryNext]_reentryVars
                    /\ [SmokeNext]_smokeVars
                    /\ [QualificationNext]_qualificationVars /\ [CaviarNext]_caviarVars
  OBVIOUS
<1>1. CASE UNCHANGED admissionVars
  BY <1>1 DEF admissionVars
<1>2. CASE OnlyGuard /\ GpuGuardNext
  BY <1>2 DEF OnlyGuard
<1>3. CASE OnlyReentry /\ ReentryNext
  BY <1>3 DEF OnlyReentry
<1>4. CASE OnlySmoke /\ SmokeNext
  BY <1>4 DEF OnlySmoke
<1>5. CASE OnlyQualification /\ QualificationNext
  BY <1>5 DEF OnlyQualification
<1>6. CASE OnlyCaviar /\ CaviarNext
  BY <1>6 DEF OnlyCaviar
<1>7. QED
  BY <1>1, <1>2, <1>3, <1>4, <1>5, <1>6 DEF AdmissionNext

\* The property of the run: a guarded GPU stage tells the truth in its report, its receipt and
\* its container, and an evaluation around one holds its own frames alone.
THEOREM GuardingIsSafe == AdmissionSpec => []GuardIsSafe
<1>1. AdmissionInit => GuardInv /\ CaviarInv
  BY GuardInitHolds, CaviarInitHolds DEF AdmissionInit
<1>2. GuardInv /\ CaviarInv /\ [AdmissionNext]_admissionVars => (GuardInv /\ CaviarInv)'
  BY GuardNextHolds, CaviarNextHolds, StepsOfParts
<1>3. GuardInv /\ CaviarInv => GuardIsSafe
  BY Safe, CaviarMeans DEF GuardIsSafe
<1>4. QED
  BY <1>1, <1>2, <1>3, PTL DEF AdmissionSpec

\* The property of the run: what re-entry evidence admits was true of the machine recently.
THEOREM AdmissionIsEarned == AdmissionSpec => []ReentryIsSound
<1>1. AdmissionInit => ReentryInv
  BY ReentryInitHolds DEF AdmissionInit
<1>2. ReentryInv /\ [AdmissionNext]_admissionVars => ReentryInv'
  BY ReentryNextHolds, StepsOfParts
<1>3. QED
  BY <1>1, <1>2, AdmittedIsSound, PTL DEF AdmissionSpec

\* The property of the run: a smoke shows what it claims, and an image is launched only on such a
\* smoke, a build and a measurement within the lifetime of one receipt.
THEOREM ImagesAreQualified == AdmissionSpec => []ImageIsQualified
<1>1. AdmissionInit => SmokeInv /\ QualificationInv
  BY SmokeInitHolds, QualificationInitHolds DEF AdmissionInit
<1>2. SmokeInv /\ QualificationInv /\ [AdmissionNext]_admissionVars
        => (SmokeInv /\ QualificationInv)'
  BY SmokeNextHolds, QualificationNextHolds, StepsOfParts
<1>3. QualificationInv => QualificationIsSound
  BY DEF QualificationInv, Runs, RunOf, RunOnce, EvidenceIsOfItsRun, QualificationIsSound
<1>4. SmokeInv /\ QualificationInv => ImageIsQualified
  BY <1>3, SmokeMeans DEF ImageIsQualified
<1>5. QED
  BY <1>1, <1>2, <1>4, PTL DEF AdmissionSpec

=============================================================================
