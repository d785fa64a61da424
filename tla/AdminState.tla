----------------------------- MODULE AdminState -----------------------------
(***************************************************************************)
(* The settings file of the admin service (admin/store.py), the handlers   *)
(* of admin/app.py that change it and the DeepStream process that          *)
(* admin/pipeline.py starts from it.                                       *)
(*                                                                         *)
(* Handlers run in a thread pool.  The store locks a load and a save, not  *)
(* the time between them: a handler checks the copy that it loaded and     *)
(* writes that copy, changed, over whatever the file has become.           *)
(***************************************************************************)
EXTENDS Naturals, FiniteSets

CONSTANTS
  AdminThread,      \* threads that serve requests
  MaxBatch,         \* max_batch_size of the person profiles
  MaxIssued,        \* bound: source ids given out
  MaxStarts,        \* bound: processes started
  MaxAdminCrashes   \* bound: killed services

Nothing == 0        \* no process, or nobody holds the manager's lock

ASSUME AdminStateAssumption ==
  /\ Nothing \notin AdminThread
  /\ {MaxBatch, MaxIssued, MaxStarts} \subseteq Nat \ {0}
  /\ MaxAdminCrashes \in Nat

VARIABLES
  settings,         \* state.json
  handler,          \* per thread: the call it serves and the copy it loaded
  managerLock,      \* owner of PipelineManager.lock
  tracked,          \* PipelineManager.process
  processes,        \* per process: its condition and the sources of its config
  config,           \* sources in deepstream-app.ini
  sourceIds,        \* ids given out by uuid4
  dryRun, adminCrashes

adminVars == <<settings, handler, managerLock, tracked, processes, config,
               sourceIds, dryRun, adminCrashes>>

\* A file of an earlier version lacks fields that _normalise adds.
Settings == [sources : SUBSET (1..MaxIssued), closed : BOOLEAN, legacy : BOOLEAN]
Calls == {"none", "add", "delete", "analytics", "inference", "start", "stop"}
Served(call, copy) == [call |-> call, copy |-> copy]
Empty == [sources |-> {}, closed |-> FALSE, legacy |-> FALSE]
Waiting == Served("none", Empty)

Live(p) == processes[p].condition # "gone"
Running == tracked # Nothing /\ Live(tracked)

\* validate_module_selection: pose and PPE have no artifacts yet.
ModulesOpen(s) == ~s.closed
Normalised(s) == [s EXCEPT !.legacy = FALSE]

-----------------------------------------------------------------------------
(* store.py and the handlers that write it                                 *)

\* An installation begins with the defaults or with a file of an older
\* version, which may have a closed module switched on.
AdminStateInit ==
  /\ settings \in {Empty} \cup [sources : {{}}, closed : BOOLEAN, legacy : {TRUE}]
  /\ handler = [t \in AdminThread |-> Waiting]
  /\ managerLock = Nothing /\ tracked = Nothing
  /\ processes = <<>> /\ config = {} /\ sourceIds = 0
  /\ dryRun \in BOOLEAN /\ (dryRun => settings = Empty) /\ adminCrashes = 0

\* JsonStore.load saves what it had to normalise.
LoadSettings(t, call) ==
  /\ handler[t] = Waiting
  /\ settings' = Normalised(settings)
  /\ handler' = [handler EXCEPT ![t] = Served(call, Normalised(settings))]
  /\ UNCHANGED <<managerLock, tracked, processes, config, sourceIds, dryRun, adminCrashes>>

SaveSettings(t, value) ==
  /\ settings' = value
  /\ handler' = [handler EXCEPT ![t] = Waiting]
  /\ UNCHANGED <<managerLock, tracked, processes, config, dryRun, adminCrashes>>

RefuseCall(t) ==
  /\ handler' = [handler EXCEPT ![t] = Waiting]
  /\ UNCHANGED <<settings, managerLock, tracked, processes, config, sourceIds, dryRun,
                 adminCrashes>>

\* Defect: the source is put into the file as it is by now.
AddsToFile(t) ==
  /\ handler[t].call = "add"
  /\ IF Cardinality(handler[t].copy.sources) >= MaxBatch
     THEN RefuseCall(t)
     ELSE /\ sourceIds < MaxIssued
          /\ sourceIds' = sourceIds + 1
          /\ SaveSettings(t, [settings EXCEPT !.sources = @ \cup {sourceIds + 1}])

AddSource(t) ==
  LET copy == handler[t].copy IN
  /\ handler[t].call = "add"
  /\ IF Cardinality(copy.sources) >= MaxBatch
     THEN RefuseCall(t)
     ELSE /\ sourceIds < MaxIssued
          /\ sourceIds' = sourceIds + 1
          /\ SaveSettings(t, [copy EXCEPT !.sources = @ \cup {sourceIds + 1}])

\* 404 when the copy has no such source.
DeleteSource(t, id) ==
  LET copy == handler[t].copy IN
  /\ handler[t].call = "delete"
  /\ IF id \in copy.sources
     THEN SaveSettings(t, [copy EXCEPT !.sources = @ \ {id}]) /\ UNCHANGED sourceIds
     ELSE RefuseCall(t)

\* PUT /api/analytics; 409 when it opens a closed module.
UpdateAnalytics(t, closed) ==
  LET candidate == [handler[t].copy EXCEPT !.closed = closed] IN
  /\ handler[t].call = "analytics"
  /\ IF ModulesOpen(candidate)
     THEN SaveSettings(t, candidate) /\ UNCHANGED sourceIds
     ELSE RefuseCall(t)

\* PUT /api/inference.  Both profiles batch alike, so the choice between them
\* is left out; the copy is checked and written back like the others.
UpdateInference(t) ==
  /\ handler[t].call = "inference"
  /\ IF Cardinality(handler[t].copy.sources) > MaxBatch
     THEN RefuseCall(t)
     ELSE SaveSettings(t, handler[t].copy) /\ UNCHANGED sourceIds

-----------------------------------------------------------------------------
(* pipeline.py                                                             *)

Renders(copy) == ModulesOpen(copy) /\ Cardinality(copy.sources) <= MaxBatch

\* Refused without sources, and by render_config; answered when it runs.
StartRefused(copy) == copy.sources = {} \/ Running \/ ~Renders(copy)

\* Defect: the file is rendered before the running pipeline is noticed.
RendersFirst(t) ==
  LET copy == handler[t].copy IN
  /\ handler[t].call = "start" /\ managerLock = Nothing
  /\ config' = IF copy.sources = {} \/ ~Renders(copy) THEN config ELSE copy.sources
  /\ handler' = [handler EXCEPT ![t] = Waiting]
  /\ \/ UNCHANGED <<tracked, processes>>
     \/ /\ ~StartRefused(copy) /\ ~dryRun /\ Cardinality(DOMAIN processes) < MaxStarts
        /\ tracked' = Cardinality(DOMAIN processes) + 1
        /\ processes' = [q \in 1..tracked' |->
             IF q < tracked' THEN processes[q]
             ELSE [condition |-> "running", sources |-> copy.sources]]
  /\ UNCHANGED <<settings, managerLock, sourceIds, dryRun, adminCrashes>>

\* The command may be missing: the configuration is written, nothing starts.
StartPipeline(t) ==
  LET copy == handler[t].copy IN
  /\ handler[t].call = "start" /\ managerLock = Nothing
  /\ IF StartRefused(copy)
     THEN RefuseCall(t)
     ELSE /\ config' = copy.sources
          /\ handler' = [handler EXCEPT ![t] = Waiting]
          /\ \/ UNCHANGED <<tracked, processes>>
             \/ /\ ~dryRun /\ Cardinality(DOMAIN processes) < MaxStarts
                /\ LET p == Cardinality(DOMAIN processes) + 1 IN
                   /\ tracked' = p
                   /\ processes' = [q \in 1..p |->
                        IF q < p THEN processes[q]
                        ELSE [condition |-> "running", sources |-> copy.sources]]
          /\ UNCHANGED <<settings, managerLock, sourceIds, dryRun, adminCrashes>>

\* stop, and the end of the application's lifespan: terminate, then wait.
StopPipeline(t) ==
  /\ handler[t] = Waiting /\ managerLock = Nothing
  /\ IF Running
     THEN /\ processes' = [processes EXCEPT ![tracked].condition = "terminating"]
          /\ managerLock' = t
          /\ handler' = [handler EXCEPT ![t] = Served("stop", Empty)]
          /\ UNCHANGED tracked
     ELSE tracked' = Nothing /\ UNCHANGED <<processes, managerLock, handler>>
  /\ UNCHANGED <<settings, config, sourceIds, dryRun, adminCrashes>>

\* Defect: a process that ignores the signal is only forgotten.
ForgetsProcess(t) ==
  /\ handler[t].call = "stop"
  /\ tracked' = Nothing /\ managerLock' = Nothing
  /\ handler' = [handler EXCEPT ![t] = Waiting]
  /\ UNCHANGED <<settings, processes, config, sourceIds, dryRun, adminCrashes>>

\* Defect: the wait has no timeout.
WaitsForever(t) ==
  /\ handler[t].call = "stop" /\ ~Live(tracked)
  /\ tracked' = Nothing /\ managerLock' = Nothing
  /\ handler' = [handler EXCEPT ![t] = Waiting]
  /\ UNCHANGED <<settings, processes, config, sourceIds, dryRun, adminCrashes>>

\* Defect: the lock is kept when the wait times out.
KeepsManagerLock(t) ==
  /\ handler[t].call = "stop"
  /\ processes' = [processes EXCEPT ![tracked].condition =
                     IF Live(tracked) THEN "killed" ELSE "gone"]
  /\ tracked' = Nothing /\ UNCHANGED managerLock
  /\ handler' = [handler EXCEPT ![t] = Waiting]
  /\ UNCHANGED <<settings, config, sourceIds, dryRun, adminCrashes>>

\* The process has ended, or ten seconds are over and it is killed.
StopWaited(t) ==
  /\ handler[t].call = "stop"
  /\ processes' = [processes EXCEPT ![tracked].condition =
                     IF Live(tracked) THEN "killed" ELSE "gone"]
  /\ tracked' = Nothing /\ managerLock' = Nothing
  /\ handler' = [handler EXCEPT ![t] = Waiting]
  /\ UNCHANGED <<settings, config, sourceIds, dryRun, adminCrashes>>

\* A pipeline may end by itself; a killed one does end.
ProcessGone(p) ==
  /\ p \in DOMAIN processes /\ Live(p)
  /\ processes' = [processes EXCEPT ![p].condition = "gone"]
  /\ UNCHANGED <<settings, handler, managerLock, tracked, config, sourceIds, dryRun,
                 adminCrashes>>

\* The service is killed; a pipeline that it had started may survive it.
CrashAdmin ==
  /\ adminCrashes < MaxAdminCrashes
  /\ adminCrashes' = adminCrashes + 1
  /\ handler' = [t \in AdminThread |-> Waiting]
  /\ managerLock' = Nothing /\ tracked' = Nothing
  /\ \E survives \in BOOLEAN :
       processes' = [p \in DOMAIN processes |->
         IF processes[p].condition \in {"gone", "orphan"} THEN processes[p]
         ELSE [processes[p] EXCEPT !.condition = IF survives THEN "orphan" ELSE "gone"]]
  /\ UNCHANGED <<settings, config, sourceIds, dryRun>>

-----------------------------------------------------------------------------
HandlerStep(t) ==
  \/ AddSource(t) \/ UpdateInference(t) \/ StartPipeline(t) \/ StopWaited(t)
  \/ \E id \in 1..MaxIssued : DeleteSource(t, id)
  \/ \E closed \in BOOLEAN : UpdateAnalytics(t, closed)

AdminStateNext ==
  \/ \E t \in AdminThread :
       \/ \E call \in {"add", "delete", "analytics", "inference", "start"} : LoadSettings(t, call)
       \/ HandlerStep(t) \/ StopPipeline(t)
  \/ \E p \in 1..MaxStarts : ProcessGone(p)
  \/ CrashAdmin

\* A waiting thread gives up after ten seconds.
AdminStateFairness == \A t \in AdminThread : WF_adminVars(StopWaited(t))

AdminStateSpec == AdminStateInit /\ [][AdminStateNext]_adminVars /\ AdminStateFairness

-----------------------------------------------------------------------------
\* Types of the variables of store.py and pipeline.py.
AdminStateTypeOK ==
  /\ settings \in Settings /\ handler \in [AdminThread -> [call : Calls, copy : Settings]]
  /\ managerLock \in AdminThread \cup {Nothing}
  /\ DOMAIN processes = 1..Cardinality(DOMAIN processes)
  /\ \A p \in DOMAIN processes :
       processes[p].condition \in {"running", "terminating", "killed", "orphan", "gone"}
  /\ tracked \in DOMAIN processes \cup {Nothing}
  /\ (managerLock # Nothing) => handler[managerLock].call = "stop"

\* However the handlers interleave, the settings never hold more sources than
\* the engine of the profile batches: every copy is checked before it is
\* saved and saved as a whole (app.py add_source, store.py save).
SavedStateFits == Cardinality(settings.sources) <= MaxBatch

\* While a process is tracked and alive, deepstream-app.ini is the file it
\* was started with: only a start writes it, and never beside a live one
\* (pipeline.py start).
RunningHasItsConfig == Running => processes[tracked].sources = config

\* The service never forgets a live pipeline that it has not at least killed;
\* those of a service that was itself killed are nobody's (pipeline.py stop).
UntrackedAreEnding ==
  \A p \in DOMAIN processes :
    Live(p) /\ p # tracked => processes[p].condition \in {"killed", "orphan"}

\* A stop returns, and gives the lock back, even when the pipeline ignores
\* the signal (pipeline.py stop, wait(timeout=10)).
StopReturns == managerLock # Nothing ~> managerLock = Nothing


\* The three together: what handlers that lock nothing but the file and the
\* manager must not do to the settings and the pipeline.
AdminStateSafe == SavedStateFits /\ RunningHasItsConfig /\ UntrackedAreEnding
=============================================================================
