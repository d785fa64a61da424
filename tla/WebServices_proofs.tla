------------------------- MODULE WebServices_proofs -------------------------
(***************************************************************************)
(* Proofs about WebServices: an inductive invariant for each service, for  *)
(* any number of threads, jobs, reviewers, entities, sources, saves and    *)
(* faults, and what they mean for the two applications together.           *)
(***************************************************************************)
EXTENDS WebServices, RoiRenderJobs_proofs, FiniteSetTheorems

-----------------------------------------------------------------------------
(* Settings and pipeline                                                   *)

Conditions == {"running", "terminating", "killed", "orphan", "gone"}
Process == [condition : Conditions, sources : SUBSET (1 .. MaxIssued)]

\* Processes are numbered, and a stop has something to stop and the lock.
Tracking ==
  /\ \E n \in Nat : processes \in [1 .. n -> Process]
  /\ tracked \in DOMAIN processes \cup {Nothing}
  /\ \A t \in AdminThread : handler[t].call = "stop" <=> managerLock = t
  /\ managerLock # Nothing => tracked # Nothing

\* Whoever is about to save holds a copy that fits.
CopiesFit == \A t \in AdminThread : Cardinality(handler[t].copy.sources) <= MaxBatch

AdminInv ==
  /\ settings \in Settings /\ handler \in [AdminThread -> [call : Calls, copy : Settings]]
  /\ managerLock \in AdminThread \cup {Nothing} /\ config \subseteq 1 .. MaxIssued
  /\ sourceIds \in Nat
  /\ Tracking /\ CopiesFit /\ AdminStateSafe

\* The number of a set of sources.
LEMMA SourcesAreFinite ==
  ASSUME NEW S \in SUBSET (1 .. MaxIssued)
  PROVE  IsFiniteSet(S) /\ Cardinality(S) \in Nat
<1>1. IsFiniteSet(1 .. MaxIssued)
  BY AdminStateAssumption, FS_Interval
<1>2. QED
  BY <1>1, FS_Subset, FS_CardinalityType

LEMMA NoSources == Empty \in Settings /\ Waiting \in [call : Calls, copy : Settings]
                   /\ Cardinality(Empty.sources) <= MaxBatch
<1>1. Cardinality({}) = 0
  BY FS_EmptySet
<1>2. QED
  BY <1>1, AdminStateAssumption DEF Empty, Settings, Waiting, Served, Calls

LEMMA AdminInitHolds == AdminStateInit => AdminInv
<1> SUFFICES ASSUME AdminStateInit PROVE AdminInv
  OBVIOUS
<1>1. settings \in Settings /\ settings.sources = {}
  <2>1. CASE settings = Empty
    BY <2>1, NoSources DEF Empty
  <2>2. CASE settings \in [sources : {{}}, closed : BOOLEAN, legacy : {TRUE}]
    <3>1. {} \in SUBSET (1 .. MaxIssued)
      OBVIOUS
    <3>2. QED
      BY <2>2, <3>1 DEF Settings
  <2>3. QED
    BY <2>1, <2>2 DEF AdminStateInit
<1>2. handler \in [AdminThread -> [call : Calls, copy : Settings]]
  BY NoSources DEF AdminStateInit
<1>3. SavedStateFits /\ CopiesFit
  BY <1>1, NoSources DEF AdminStateInit, SavedStateFits, CopiesFit, Empty, Waiting, Served
<1>4. processes \in [1 .. 0 -> Process]
  BY DEF AdminStateInit
<1>5. Tracking
  <2>1. \E n \in Nat : processes \in [1 .. n -> Process]
    BY <1>4
  <2>2. QED
    BY <2>1, AdminStateAssumption DEF AdminStateInit, Tracking, Waiting, Served
<1>6. RunningHasItsConfig /\ UntrackedAreEnding
  BY DEF AdminStateInit, RunningHasItsConfig, Running, UntrackedAreEnding
<1>7. QED
  BY <1>1, <1>2, <1>3, <1>5, <1>6 DEF AdminInv, AdminStateInit, AdminStateSafe

\* A handler answers, and writes settings that fit or none: the pipeline is not its business.
LEMMA HandlerAnswers ==
  ASSUME AdminInv, NEW t \in AdminThread, NEW now \in [call : Calls, copy : Settings],
         handler[t].call # "stop", now.call # "stop",
         Cardinality(now.copy.sources) <= MaxBatch,
         handler' = [handler EXCEPT ![t] = now],
         settings' \in Settings, Cardinality(settings'.sources) <= MaxBatch,
         sourceIds' \in Nat, UNCHANGED <<managerLock, tracked, processes, config>>
  PROVE  AdminInv'
<1>1. handler' \in [AdminThread -> [call : Calls, copy : Settings]]
  BY DEF AdminInv
<1>2. Tracking' /\ CopiesFit'
  BY DEF AdminInv, Tracking, CopiesFit
<1>3. AdminStateSafe'
  BY DEF AdminInv, AdminStateSafe, SavedStateFits, RunningHasItsConfig, Running, Live,
         UntrackedAreEnding
<1>4. QED
  BY <1>1, <1>2, <1>3 DEF AdminInv

\* A refused call changes nothing.
LEMMA RefuseHolds ==
  ASSUME AdminInv, NEW t \in AdminThread, handler[t].call # "stop", RefuseCall(t) PROVE AdminInv'
<1>1. Waiting.call = "none" /\ Waiting.copy = Empty
  BY DEF Waiting, Served
<1>2. QED
  BY <1>1, NoSources, HandlerAnswers DEF RefuseCall, AdminInv, AdminStateSafe, SavedStateFits

\* A save of a value that fits.
LEMMA SaveHolds ==
  ASSUME AdminInv, NEW t \in AdminThread, handler[t].call # "stop",
         NEW value \in Settings, Cardinality(value.sources) <= MaxBatch,
         SaveSettings(t, value), sourceIds' \in Nat
  PROVE  AdminInv'
<1>1. Waiting.call = "none" /\ Waiting.copy = Empty
  BY DEF Waiting, Served
<1>2. QED
  BY <1>1, NoSources, HandlerAnswers DEF SaveSettings

LEMMA LoadHolds ==
  ASSUME AdminInv, NEW t \in AdminThread,
         NEW call \in {"add", "delete", "analytics", "inference", "start"}, LoadSettings(t, call)
  PROVE  AdminInv'
<1>1. Normalised(settings) \in Settings /\ Normalised(settings).sources = settings.sources
  BY DEF AdminInv, Normalised, Settings
<1>2. Served(call, Normalised(settings)) \in [call : Calls, copy : Settings]
  BY <1>1 DEF Served, Calls
<1>3. handler[t].call # "stop" /\ Served(call, Normalised(settings)).call # "stop"
  BY DEF LoadSettings, Waiting, Served
<1>4. Served(call, Normalised(settings)).copy.sources = settings.sources
  BY <1>1 DEF Served
<1>5. QED
  BY <1>1, <1>2, <1>3, <1>4, HandlerAnswers
     DEF LoadSettings, AdminInv, AdminStateSafe, SavedStateFits

LEMMA AddHolds == ASSUME AdminInv, NEW t \in AdminThread, AddSource(t) PROVE AdminInv'
<1> DEFINE copy == handler[t].copy
           value == [copy EXCEPT !.sources = @ \cup {sourceIds + 1}]
<1>1. copy \in Settings /\ handler[t].call = "add"
  BY DEF AdminInv, AddSource
<1>2. IsFiniteSet(copy.sources) /\ Cardinality(copy.sources) \in Nat
  BY <1>1, SourcesAreFinite DEF Settings
<1>3. CASE Cardinality(copy.sources) >= MaxBatch
  BY <1>1, <1>3, RefuseHolds DEF AddSource
<1>4. CASE ~(Cardinality(copy.sources) >= MaxBatch)
  <2>1. sourceIds' = sourceIds + 1 /\ sourceIds < MaxIssued /\ SaveSettings(t, value)
    BY <1>4 DEF AddSource
  <2>2. sourceIds' \in Nat /\ sourceIds + 1 \in 1 .. MaxIssued
    BY <2>1, AdminStateAssumption DEF AdminInv
  <2>3. value \in Settings /\ value.sources = copy.sources \cup {sourceIds + 1}
    BY <1>1, <2>2 DEF Settings
  <2>4. Cardinality(value.sources) <= Cardinality(copy.sources) + 1
    <3>1. Cardinality(copy.sources \cup {sourceIds + 1})
             = IF sourceIds + 1 \in copy.sources THEN Cardinality(copy.sources)
               ELSE Cardinality(copy.sources) + 1
      BY <1>2, FS_AddElement
    <3>2. QED
      BY <1>2, <2>3, <3>1
  <2>5. Cardinality(value.sources) \in Nat
    BY <2>3, SourcesAreFinite DEF Settings
  <2>6. Cardinality(value.sources) <= MaxBatch
    BY <1>2, <1>4, <2>4, <2>5, AdminStateAssumption
  <2>7. QED
    BY <1>1, <2>1, <2>2, <2>3, <2>6, SaveHolds
<1>5. QED
  BY <1>3, <1>4

LEMMA DeleteHolds ==
  ASSUME AdminInv, NEW t \in AdminThread, NEW id \in 1 .. MaxIssued, DeleteSource(t, id)
  PROVE  AdminInv'
<1> DEFINE copy == handler[t].copy
           value == [copy EXCEPT !.sources = @ \ {id}]
<1>1. copy \in Settings /\ handler[t].call = "delete" /\ Cardinality(copy.sources) <= MaxBatch
  BY DEF AdminInv, DeleteSource, CopiesFit
<1>2. IsFiniteSet(copy.sources) /\ Cardinality(copy.sources) \in Nat
  BY <1>1, SourcesAreFinite DEF Settings
<1>3. CASE id \notin copy.sources
  BY <1>1, <1>3, RefuseHolds DEF DeleteSource
<1>4. CASE id \in copy.sources
  <2>1. SaveSettings(t, value) /\ sourceIds' = sourceIds
    BY <1>4 DEF DeleteSource
  <2>2. value \in Settings /\ value.sources = copy.sources \ {id}
    BY <1>1 DEF Settings
  <2>3. Cardinality(value.sources) <= MaxBatch
    <3>1. Cardinality(value.sources) <= Cardinality(copy.sources)
      BY <1>2, <2>2, FS_Subset
    <3>2. Cardinality(value.sources) \in Nat
      BY <2>2, SourcesAreFinite DEF Settings
    <3>3. QED
      BY <1>1, <1>2, <3>1, <3>2, AdminStateAssumption
  <2>4. QED
    BY <1>1, <2>1, <2>2, <2>3, SaveHolds DEF AdminInv
<1>5. QED
  BY <1>3, <1>4

LEMMA AnalyticsHolds ==
  ASSUME AdminInv, NEW t \in AdminThread, NEW closed \in BOOLEAN, UpdateAnalytics(t, closed)
  PROVE  AdminInv'
<1> DEFINE value == [handler[t].copy EXCEPT !.closed = closed]
<1>1. /\ handler[t].copy \in Settings /\ handler[t].call = "analytics"
      /\ Cardinality(handler[t].copy.sources) <= MaxBatch
  BY DEF AdminInv, UpdateAnalytics, CopiesFit
<1>2. value \in Settings /\ value.sources = handler[t].copy.sources
  BY <1>1 DEF Settings
<1>3. CASE ModulesOpen(value)
  BY <1>1, <1>2, <1>3, SaveHolds DEF UpdateAnalytics, AdminInv
<1>4. CASE ~ModulesOpen(value)
  BY <1>1, <1>4, RefuseHolds DEF UpdateAnalytics
<1>5. QED
  BY <1>3, <1>4

LEMMA InferenceHolds == ASSUME AdminInv, NEW t \in AdminThread, UpdateInference(t) PROVE AdminInv'
<1>1. /\ handler[t].copy \in Settings /\ handler[t].call = "inference"
      /\ Cardinality(handler[t].copy.sources) <= MaxBatch
  BY DEF AdminInv, UpdateInference, CopiesFit
<1>2. CASE Cardinality(handler[t].copy.sources) > MaxBatch
  BY <1>1, <1>2, RefuseHolds DEF UpdateInference
<1>3. CASE ~(Cardinality(handler[t].copy.sources) > MaxBatch)
  BY <1>1, <1>3, SaveHolds DEF UpdateInference, AdminInv
<1>4. QED
  BY <1>2, <1>3

\* What concerns the pipeline alone: handlers become other handlers, the settings stay.
LEMMA PipelineMoves ==
  ASSUME AdminInv, UNCHANGED settings, sourceIds' \in Nat,
         handler' \in [AdminThread -> [call : Calls, copy : Settings]],
         \A t \in AdminThread : handler'[t].copy \in {handler[t].copy, Empty},
         managerLock' \in AdminThread \cup {Nothing}, config' \subseteq 1 .. MaxIssued,
         Tracking', RunningHasItsConfig', UntrackedAreEnding'
  PROVE  AdminInv'
<1>1. CopiesFit'
  BY NoSources DEF AdminInv, CopiesFit
<1>2. SavedStateFits'
  BY DEF AdminInv, AdminStateSafe, SavedStateFits
<1>3. QED
  BY <1>1, <1>2 DEF AdminInv, AdminStateSafe

LEMMA StartHolds == ASSUME AdminInv, NEW t \in AdminThread, StartPipeline(t) PROVE AdminInv'
<1> DEFINE copy == handler[t].copy
<1>1. /\ copy \in Settings /\ handler[t].call = "start" /\ managerLock = Nothing
      /\ handler \in [AdminThread -> [call : Calls, copy : Settings]]
  BY DEF AdminInv, StartPipeline
<1>2. CASE StartRefused(copy)
  BY <1>1, <1>2, RefuseHolds DEF StartPipeline
<1>3. CASE ~StartRefused(copy)
  <2>1. /\ config' = copy.sources /\ handler' = [handler EXCEPT ![t] = Waiting]
        /\ UNCHANGED <<settings, managerLock, sourceIds>> /\ ~Running
    BY <1>3 DEF StartPipeline, StartRefused
  <2>2. config' \subseteq 1 .. MaxIssued
    BY <1>1, <2>1 DEF Settings
  <2>3. /\ handler' \in [AdminThread -> [call : Calls, copy : Settings]]
        /\ \A q \in AdminThread : handler'[q].copy \in {handler[q].copy, Empty}
        /\ \A q \in AdminThread : handler'[q].call = "stop" <=> handler[q].call = "stop"
    BY <1>1, <2>1, NoSources DEF Waiting, Served
  <2>4. PICK n \in Nat : processes \in [1 .. n -> Process]
    BY DEF AdminInv, Tracking
  <2>5. CASE UNCHANGED <<tracked, processes>>
    <3>1. Tracking'
      BY <2>1, <2>3, <2>5 DEF AdminInv, Tracking
    <3>2. RunningHasItsConfig' /\ UntrackedAreEnding'
      BY <2>1, <2>5
         DEF AdminInv, AdminStateSafe, RunningHasItsConfig, Running, Live, UntrackedAreEnding
    <3>3. QED
      BY <2>1, <2>2, <2>3, <3>1, <3>2, PipelineMoves DEF AdminInv
  <2>6. CASE ~UNCHANGED <<tracked, processes>>
    <3> DEFINE p == Cardinality(DOMAIN processes) + 1
               begun == [condition |-> "running", sources |-> copy.sources]
    <3>1. p = n + 1
      BY <2>4, FS_Interval
    <3>2. /\ tracked' = p
          /\ processes' = [q \in 1 .. p |-> IF q < p THEN processes[q] ELSE begun]
      BY <1>3, <2>6 DEF StartPipeline
    <3>3. begun \in Process
      BY <1>1 DEF Process, Conditions, Settings
    <3>4. /\ processes' \in [1 .. n + 1 -> Process] /\ tracked' = n + 1
          /\ processes'[n + 1] = begun /\ \A q \in 1 .. n : processes'[q] = processes[q]
      BY <2>4, <3>1, <3>2, <3>3
    <3>5. Tracking'
      <4>1. n + 1 \in Nat /\ tracked' \in DOMAIN processes' /\ tracked' # Nothing
        BY <3>4 DEF Nothing
      <4>2. QED
        BY <2>1, <2>3, <3>4, <4>1 DEF AdminInv, Tracking
    <3>6. RunningHasItsConfig'
      BY <2>1, <3>4 DEF RunningHasItsConfig
    <3>7. UntrackedAreEnding'
      <4>1. ASSUME NEW q \in DOMAIN processes', Live(q)', q # tracked'
            PROVE  processes'[q].condition \in {"killed", "orphan"}
        <5>1. q \in 1 .. n
          BY <3>4, <4>1
        <5>2. processes'[q] = processes[q] /\ Live(q) /\ q \in DOMAIN processes
          BY <2>4, <3>4, <4>1, <5>1 DEF Live
        <5>3. q # tracked
          BY <2>1, <5>1, <5>2 DEF Running, Nothing
        <5>4. QED
          BY <5>2, <5>3 DEF AdminInv, AdminStateSafe, UntrackedAreEnding
      <4>2. QED
        BY <4>1 DEF UntrackedAreEnding
    <3>8. QED
      BY <2>1, <2>2, <2>3, <3>5, <3>6, <3>7, PipelineMoves DEF AdminInv
  <2>7. QED
    BY <2>5, <2>6
<1>4. QED
  BY <1>2, <1>3

\* A condition of one process changes, and it was not to be seen running.
LEMMA OneProcessEnds ==
  ASSUME AdminInv, NEW p \in DOMAIN processes, NEW condition \in Conditions,
         processes' = [processes EXCEPT ![p].condition = condition]
  PROVE  /\ \E n \in Nat : processes' \in [1 .. n -> Process]
         /\ DOMAIN processes' = DOMAIN processes
         /\ processes'[p].condition = condition /\ processes'[p].sources = processes[p].sources
         /\ \A q \in DOMAIN processes \ {p} : processes'[q] = processes[q]
<1>1. PICK n \in Nat : processes \in [1 .. n -> Process]
  BY DEF AdminInv, Tracking
<1>2. processes[p] \in Process
  BY <1>1
<1>3. [processes[p] EXCEPT !.condition = condition] \in Process
  BY <1>2 DEF Process
<1>4. processes' = [processes EXCEPT ![p] = [processes[p] EXCEPT !.condition = condition]]
  OBVIOUS
<1>5. processes' \in [1 .. n -> Process]
  BY <1>1, <1>3, <1>4
<1>6. QED
  BY <1>1, <1>2, <1>4, <1>5 DEF Process

LEMMA StopHolds == ASSUME AdminInv, NEW t \in AdminThread, StopPipeline(t) PROVE AdminInv'
<1>1. handler[t].call = "none" /\ handler[t] = Waiting /\ managerLock = Nothing
  BY DEF StopPipeline, Waiting, Served
<1>2. \A q \in AdminThread : handler[q].call # "stop"
  BY <1>1, AdminStateAssumption DEF AdminInv, Tracking
<1>3. CASE Running
  <2>1. /\ processes' = [processes EXCEPT ![tracked].condition = "terminating"]
        /\ managerLock' = t /\ handler' = [handler EXCEPT ![t] = Served("stop", Empty)]
        /\ UNCHANGED <<tracked, settings, config, sourceIds>>
    BY <1>3 DEF StopPipeline
  <2>2. tracked \in DOMAIN processes /\ tracked # Nothing
    BY <1>3 DEF Running, AdminInv, Tracking
  <2>3. /\ \E n \in Nat : processes' \in [1 .. n -> Process]
        /\ DOMAIN processes' = DOMAIN processes
        /\ processes'[tracked].sources = processes[tracked].sources
        /\ \A q \in DOMAIN processes \ {tracked} : processes'[q] = processes[q]
    BY <2>1, <2>2, OneProcessEnds DEF Conditions
  <2>4. /\ handler' \in [AdminThread -> [call : Calls, copy : Settings]]
        /\ \A q \in AdminThread : handler'[q].copy \in {handler[q].copy, Empty}
        /\ \A q \in AdminThread : handler'[q].call = "stop" <=> q = t
    BY <1>2, <2>1, NoSources DEF AdminInv, Served, Calls
  <2>5. Tracking'
    BY <2>1, <2>2, <2>3, <2>4 DEF Tracking
  <2>6. RunningHasItsConfig'
    BY <1>3, <2>1, <2>3 DEF AdminInv, AdminStateSafe, RunningHasItsConfig
  <2>7. UntrackedAreEnding'
    BY <2>1, <2>3 DEF AdminInv, AdminStateSafe, UntrackedAreEnding, Live
  <2>8. QED
    BY <2>1, <2>4, <2>5, <2>6, <2>7, PipelineMoves DEF AdminInv
<1>4. CASE ~Running
  <2>1. /\ tracked' = Nothing
        /\ UNCHANGED <<processes, managerLock, handler, settings, config, sourceIds>>
    BY <1>4 DEF StopPipeline
  <2>2. Tracking'
    BY <1>1, <2>1 DEF AdminInv, Tracking
  <2>3. RunningHasItsConfig'
    BY <2>1 DEF RunningHasItsConfig, Running
  <2>4. UntrackedAreEnding'
    BY <1>4, <2>1 DEF AdminInv, AdminStateSafe, UntrackedAreEnding, Live, Running, Tracking
  <2>5. QED
    BY <2>1, <2>2, <2>3, <2>4, PipelineMoves DEF AdminInv
<1>5. QED
  BY <1>3, <1>4

LEMMA StopWaitedHolds == ASSUME AdminInv, NEW t \in AdminThread, StopWaited(t) PROVE AdminInv'
<1>1. handler[t].call = "stop" /\ managerLock = t /\ tracked \in DOMAIN processes
  BY AdminStateAssumption DEF StopWaited, AdminInv, Tracking
<1>2. PICK ended \in {"killed", "gone"} :
        processes' = [processes EXCEPT ![tracked].condition = ended]
  BY DEF StopWaited
<1>3. /\ \E n \in Nat : processes' \in [1 .. n -> Process]
      /\ DOMAIN processes' = DOMAIN processes
      /\ processes'[tracked].condition = ended
      /\ \A q \in DOMAIN processes \ {tracked} : processes'[q] = processes[q]
  BY <1>1, <1>2, OneProcessEnds DEF Conditions
<1>4. /\ tracked' = Nothing /\ managerLock' = Nothing
      /\ handler' = [handler EXCEPT ![t] = Waiting]
      /\ UNCHANGED <<settings, config, sourceIds>>
  BY DEF StopWaited
<1>5. /\ handler' \in [AdminThread -> [call : Calls, copy : Settings]]
      /\ \A q \in AdminThread : handler'[q].copy \in {handler[q].copy, Empty}
  BY <1>4, NoSources DEF AdminInv, Waiting, Served
<1>6. \A q \in AdminThread : handler'[q].call # "stop"
  BY <1>1, <1>4 DEF AdminInv, Tracking, Waiting, Served
<1>7. Tracking'
  BY <1>3, <1>4, <1>6, AdminStateAssumption DEF Tracking
<1>8. RunningHasItsConfig'
  BY <1>4 DEF RunningHasItsConfig, Running
<1>9. UntrackedAreEnding'
  BY <1>3 DEF AdminInv, AdminStateSafe, UntrackedAreEnding, Live
<1>10. QED
  BY <1>4, <1>5, <1>7, <1>8, <1>9, PipelineMoves DEF AdminInv

LEMMA GoneHolds == ASSUME AdminInv, NEW p \in 1 .. MaxStarts, ProcessGone(p) PROVE AdminInv'
<1>1. /\ p \in DOMAIN processes
      /\ processes' = [processes EXCEPT ![p].condition = "gone"]
      /\ UNCHANGED <<settings, handler, managerLock, tracked, config, sourceIds>>
  BY DEF ProcessGone
<1>2. /\ \E n \in Nat : processes' \in [1 .. n -> Process]
      /\ DOMAIN processes' = DOMAIN processes
      /\ processes'[p].condition = "gone" /\ processes'[p].sources = processes[p].sources
      /\ \A q \in DOMAIN processes \ {p} : processes'[q] = processes[q]
  BY <1>1, OneProcessEnds DEF Conditions
<1>3. Tracking'
  BY <1>1, <1>2 DEF AdminInv, Tracking
<1>4. RunningHasItsConfig'
  BY <1>1, <1>2 DEF AdminInv, AdminStateSafe, RunningHasItsConfig, Running, Live, Tracking
<1>5. UntrackedAreEnding'
  BY <1>1, <1>2 DEF AdminInv, AdminStateSafe, UntrackedAreEnding, Live
<1>6. QED
  BY <1>1, <1>3, <1>4, <1>5, PipelineMoves DEF AdminInv

LEMMA CrashAdminHolds == ASSUME AdminInv, CrashAdmin PROVE AdminInv'
<1>1. /\ handler' = [t \in AdminThread |-> Waiting] /\ managerLock' = Nothing /\ tracked' = Nothing
      /\ UNCHANGED <<settings, config, sourceIds>>
  BY DEF CrashAdmin
<1>2. PICK n \in Nat : processes \in [1 .. n -> Process]
  BY DEF AdminInv, Tracking
<1>3. PICK rest \in {"orphan", "gone"} :
        processes' = [p \in DOMAIN processes |->
          IF processes[p].condition \in {"gone", "orphan"} THEN processes[p]
          ELSE [processes[p] EXCEPT !.condition = rest]]
  BY DEF CrashAdmin
<1>4. \A p \in 1 .. n : processes'[p] \in Process /\ processes'[p].condition \in {"gone", "orphan"}
  BY <1>2, <1>3 DEF Process, Conditions
<1>5. processes' \in [1 .. n -> Process]
  BY <1>2, <1>3, <1>4
<1>6. /\ handler' \in [AdminThread -> [call : Calls, copy : Settings]]
      /\ \A q \in AdminThread : handler'[q].copy = Empty /\ handler'[q].call = "none"
  BY <1>1, NoSources DEF Waiting, Served
<1>7. Tracking'
  BY <1>1, <1>5, <1>6, AdminStateAssumption DEF Tracking
<1>8. RunningHasItsConfig'
  BY <1>1 DEF RunningHasItsConfig, Running
<1>9. UntrackedAreEnding'
  BY <1>4, <1>5 DEF UntrackedAreEnding, Live
<1>10. QED
  BY <1>1, <1>6, <1>7, <1>8, <1>9, PipelineMoves DEF AdminInv

LEMMA AdminNextHolds == AdminInv /\ [AdminStateNext]_adminVars => AdminInv'
<1> SUFFICES ASSUME AdminInv, [AdminStateNext]_adminVars PROVE AdminInv'
  OBVIOUS
<1>1. CASE UNCHANGED adminVars
  BY <1>1 DEF adminVars, AdminInv, Tracking, CopiesFit, AdminStateSafe, SavedStateFits,
     RunningHasItsConfig, Running, Live, UntrackedAreEnding
<1>2. ASSUME NEW t \in AdminThread, HandlerStep(t) PROVE AdminInv'
  BY <1>2, AddHolds, InferenceHolds, StartHolds, StopWaitedHolds, DeleteHolds, AnalyticsHolds
     DEF HandlerStep
<1>3. QED
  BY <1>1, <1>2, LoadHolds, StopHolds, GoneHolds, CrashAdminHolds DEF AdminStateNext

LEMMA AdminMeans == AdminInv => AdminStateTypeOK /\ AdminStateSafe
<1> SUFFICES ASSUME AdminInv PROVE AdminStateTypeOK
  BY DEF AdminInv
<1>1. PICK n \in Nat : processes \in [1 .. n -> Process]
  BY DEF AdminInv, Tracking
<1>2. DOMAIN processes = 1 .. Cardinality(DOMAIN processes)
  BY <1>1, FS_Interval
<1>3. \A p \in DOMAIN processes : processes[p].condition \in Conditions
  BY <1>1 DEF Process
<1>4. QED
  BY <1>2, <1>3 DEF AdminStateTypeOK, AdminInv, Tracking, Conditions

-----------------------------------------------------------------------------
(* Manual review                                                           *)

\* An event of the audit.
ReviewEvents == [decision : Decision, context : 1 .. MaxIndexes, revision : Nat, seen : Nat]

\* What a thread knows at each step of its request.
PutRequests ==
  [step : {"idle"}]
    \cup [step : {"read"}, decision : Decision, expected : Nat]
    \cup [step : {"loaded"}, decision : Decision, expected : Nat, context : 1 .. MaxIndexes]
    \cup [step : {"committed", "locked"}, context : 1 .. MaxIndexes, own : Nat]
    \cup [step : {"exporting", "half"}, rows : Nat]

\* What the database, the threads and the files may hold.
ReviewShapes ==
  /\ audit \in Seq(ReviewEvents) /\ put \in [Reviewer -> PutRequests]
  /\ exported \in [decisions : Nat, events : Nat]
  /\ missed \in BOOLEAN /\ reviewFaults \in Nat /\ reads \in Nat

PutExporting(r) == put[r].step \in {"exporting", "half"}

\* Whoever holds rows holds no fewer than the files, and all that are committed unless
\* another put waits for the lock; the first file is written before the second.
RowsHeld ==
  \A r \in Reviewer : PutExporting(r) =>
    /\ exported.decisions <= put[r].rows /\ exported.events <= put[r].rows
    /\ put[r].rows <= Len(audit)
    /\ put[r].step = "half" => exported.decisions = put[r].rows
    /\ put[r].rows = Len(audit) \/ \E q \in Reviewer : put[q].step = "committed"

\* An event that the files lack is missed, or its export is on the way.
ExportPending ==
  \/ missed
  \/ exported = [decisions |-> Len(audit), events |-> Len(audit)]
  \/ \E r \in Reviewer : put[r].step \in {"committed", "locked", "exporting", "half"}

ReviewInv ==
  /\ ManualReviewTypeOK /\ ReviewShapes
  /\ NoDecisionLost /\ StoreReadsBack /\ RowsHeld /\ ExportPending

\* A revision is a number.
LEMMA EventsAreCounted ==
  ASSUME NEW d, NEW events \in Seq(ReviewEvents)
  PROVE  EventsOf(d, events) \in Nat
<1>1. IsFiniteSet(DOMAIN events)
  BY FS_Interval
<1>2. {i \in DOMAIN events : events[i].decision = d} \subseteq DOMAIN events
  OBVIOUS
<1>3. QED
  BY <1>1, <1>2, FS_Subset, FS_CardinalityType DEF EventsOf

\* The steps of the export run under the lock, so that only its owner takes them.
LEMMA OwnerAlone ==
  ASSUME ManualReviewTypeOK, NEW r \in Reviewer, NEW q \in Reviewer,
         put[r].step \in {"locked", "exporting", "half"},
         put[q].step \in {"locked", "exporting", "half"}
  PROVE  r = q
BY DEF ManualReviewTypeOK

LEMMA ReviewInitHolds == ManualReviewInit => ReviewInv
<1> SUFFICES ASSUME ManualReviewInit PROVE ReviewInv
  OBVIOUS
<1> USE DEF ManualReviewInit
<1>1. ReviewShapes
  <2>1. NoPut \in PutRequests /\ audit \in Seq(ReviewEvents)
    BY DEF NoPut, PutRequests
  <2>2. QED
    BY <2>1 DEF ReviewShapes
<1>2. ManualReviewTypeOK
  BY ManualReviewAssumption DEF ManualReviewTypeOK, NoPut
<1>3. NoDecisionLost /\ ExportPending
  BY DEF NoDecisionLost, ExportPending
<1>4. Verifies(audit, 1)
  BY ManualReviewAssumption DEF Verifies
<1>5. StoreReadsBack
  BY <1>4, ManualReviewAssumption DEF StoreReadsBack
<1>6. RowsHeld
  BY DEF RowsHeld, PutExporting, NoPut
<1>7. QED
  BY <1>1, <1>2, <1>3, <1>5, <1>6 DEF ReviewInv

\* What only moves a thread between the steps before its commit.
LEMMA BeforeCommit ==
  ASSUME ReviewInv, NEW r \in Reviewer, NEW now \in PutRequests,
         put[r].step \in {"idle", "read", "loaded"}, now.step \in {"idle", "read", "loaded"},
         put' = [put EXCEPT ![r] = now], reads' \in Nat,
         UNCHANGED <<assetIndex, audit, exportLock, exported, missed, reviewFaults>>
  PROVE  ReviewInv'
<1> USE DEF ReviewInv
<1>1. ReviewShapes'
  BY DEF ReviewShapes
<1>2. put'[r] = now /\ \A q \in Reviewer \ {r} : put'[q] = put[q]
  BY DEF ReviewShapes
<1>3. ManualReviewTypeOK'
  BY <1>2 DEF ManualReviewTypeOK
<1>4. NoDecisionLost' /\ StoreReadsBack'
  BY DEF NoDecisionLost, StoreReadsBack, Verifies
<1>5. RowsHeld'
  BY <1>2 DEF RowsHeld, PutExporting
<1>6. ExportPending'
  BY <1>2 DEF ExportPending
<1>7. QED
  BY <1>1, <1>3, <1>4, <1>5, <1>6

LEMMA ReadDetailHolds ==
  ASSUME ReviewInv, NEW r \in Reviewer, NEW d \in Decision, ReadDetail(r, d) PROVE ReviewInv'
<1> DEFINE now == [step |-> "read", decision |-> d, expected |-> EventsOf(d, audit)]
<1>1. now \in PutRequests /\ reads' \in Nat
  BY EventsAreCounted DEF ReviewInv, ReviewShapes, PutRequests, ReadDetail
<1>2. now.step = "read" /\ put[r].step = "idle"
  BY DEF ReadDetail, Stands
<1>3. QED
  BY <1>1, <1>2, BeforeCommit DEF ReadDetail

LEMMA LoadContextHolds ==
  ASSUME ReviewInv, NEW r \in Reviewer, LoadContext(r) PROVE ReviewInv'
<1> DEFINE now == [step |-> "loaded", decision |-> put[r].decision,
                   expected |-> put[r].expected, context |-> assetIndex]
<1>1. put[r].step = "read" /\ put[r] \in PutRequests
  BY DEF LoadContext, Stands, ReviewInv, ReviewShapes
<1>2. put[r] \in [step : {"read"}, decision : Decision, expected : Nat]
  BY <1>1 DEF PutRequests
<1>3. now \in PutRequests
  BY <1>2 DEF PutRequests, ReviewInv, ManualReviewTypeOK
<1>4. QED
  BY <1>1, <1>3, BeforeCommit DEF LoadContext, ReviewInv, ReviewShapes

LEMMA CommitHolds ==
  ASSUME ReviewInv, NEW r \in Reviewer, Commit(r) PROVE ReviewInv'
<1> USE DEF ReviewInv
<1>1. put[r].step = "loaded" /\ put[r] \in PutRequests
  BY DEF Commit, Stands, ReviewShapes
<1>2. put[r] \in [step : {"loaded"}, decision : Decision, expected : Nat, context : 1 .. MaxIndexes]
  BY <1>1 DEF PutRequests
<1>3. CASE ~Commits(r)
  <2>1. NoPut \in PutRequests /\ NoPut.step = "idle"
    BY DEF NoPut, PutRequests
  <2>2. QED
    BY <1>1, <1>3, <2>1, BeforeCommit DEF Commit, ReviewShapes
<1>4. CASE Commits(r)
  <2> DEFINE now == [step |-> "committed", context |-> put[r].context, own |-> Len(audit) + 1]
             event == [decision |-> put[r].decision, context |-> put[r].context,
                       revision |-> EventsOf(put[r].decision, audit) + 1,
                       seen |-> put[r].expected]
  <2>1. event \in ReviewEvents
    <3>1. EventsOf(put[r].decision, audit) \in Nat
      BY EventsAreCounted DEF ReviewShapes
    <3>2. QED
      BY <1>2, <3>1 DEF ReviewEvents
  <2>2. audit' = Append(audit, event) /\ put' = [put EXCEPT ![r] = now]
    BY <1>4 DEF Commit, WithEvent
  <2>3. now \in PutRequests
    BY <1>2 DEF PutRequests, ReviewShapes
  <2>4. ReviewShapes'
    BY <2>1, <2>2, <2>3 DEF ReviewShapes, Commit
  <2>5. put'[r].step = "committed" /\ \A q \in Reviewer \ {r} : put'[q] = put[q]
    BY <2>2 DEF ReviewShapes
  <2>6. /\ Len(audit') = Len(audit) + 1 /\ Len(audit) \in Nat
        /\ \A i \in DOMAIN audit' : IF i \in DOMAIN audit THEN audit'[i] = audit[i]
                                    ELSE audit'[i] = event
    BY <2>1, <2>2 DEF ReviewShapes
  <2>7. ManualReviewTypeOK'
    <3>1. \A q \in Reviewer : (exportLock' = q) <=> put'[q].step \in {"locked", "exporting", "half"}
      BY <1>1, <2>5 DEF ManualReviewTypeOK, Commit
    <3>2. \A i \in DOMAIN audit' :
            audit'[i].decision \in Decision /\ audit'[i].context \in 1 .. MaxIndexes
      BY <2>1, <2>6 DEF ManualReviewTypeOK, ReviewEvents
    <3>3. exported'.decisions \in 0 .. Len(audit') /\ exported'.events \in 0 .. Len(audit')
      BY <2>6 DEF ManualReviewTypeOK, Commit
    <3>4. QED
      BY <3>1, <3>2, <3>3 DEF ManualReviewTypeOK, Commit
  <2>8. NoDecisionLost'
    <3>1. event.seen = event.revision - 1
      BY <1>4, EventsAreCounted DEF Commits, CurrentRevision, ReviewShapes
    <3>2. QED
      BY <2>6, <3>1 DEF NoDecisionLost
  <2>9. StoreReadsBack'
    <3>1. Verifies(audit', put[r].context)
      BY <1>4 DEF Commits, Commit
    <3>2. QED
      BY <1>2, <3>1 DEF StoreReadsBack
  <2>10. RowsHeld'
    <3>1. ASSUME NEW q \in Reviewer, PutExporting(q)'
          PROVE  PutExporting(q) /\ put'[q] = put[q] /\ put[q].rows \in Nat
      <4>1. q # r /\ put'[q] = put[q] /\ put[q] \in PutRequests
        BY <2>5, <3>1 DEF PutExporting, ReviewShapes
      <4>2. QED
        BY <3>1, <4>1 DEF PutExporting, PutRequests
    <3>2. QED
      BY <2>5, <2>6, <3>1 DEF RowsHeld, PutExporting, Commit
  <2>11. ExportPending'
    BY <2>5 DEF ExportPending
  <2>12. QED
    BY <2>4, <2>7, <2>8, <2>9, <2>10, <2>11
<1>5. QED
  BY <1>3, <1>4

LEMMA LockExportHolds ==
  ASSUME ReviewInv, NEW r \in Reviewer, LockExport(r) PROVE ReviewInv'
<1> USE DEF ReviewInv
<1>1. put[r].step = "committed" /\ put[r] \in PutRequests
  BY DEF LockExport, Stands, ReviewShapes
<1>2. put[r] \in [step : {"committed", "locked"}, context : 1 .. MaxIndexes, own : Nat]
  BY <1>1 DEF PutRequests
<1>3. [put[r] EXCEPT !.step = "locked"] \in PutRequests
  BY <1>2 DEF PutRequests
<1>4. put' = [put EXCEPT ![r] = [put[r] EXCEPT !.step = "locked"]]
  BY DEF LockExport
<1>5. ReviewShapes'
  BY <1>3, <1>4 DEF ReviewShapes, LockExport
<1>6. put'[r].step = "locked" /\ \A q \in Reviewer \ {r} : put'[q] = put[q]
  BY <1>2, <1>4 DEF ReviewShapes
<1>7. \A q \in Reviewer : put[q].step \notin {"locked", "exporting", "half"}
  BY ManualReviewAssumption DEF ManualReviewTypeOK, LockExport
<1>8. ManualReviewTypeOK'
  BY <1>6, <1>7 DEF ManualReviewTypeOK, LockExport
<1>9. NoDecisionLost' /\ StoreReadsBack'
  BY DEF NoDecisionLost, StoreReadsBack, Verifies, LockExport
<1>10. RowsHeld' /\ ExportPending'
  BY <1>6, <1>7 DEF RowsHeld, ExportPending, PutExporting
<1>11. QED
  BY <1>5, <1>8, <1>9, <1>10

\* An export ends, missed or not, by its own step.
LEMMA EndOfExport ==
  ASSUME ReviewInv, NEW r \in Reviewer, NEW failed \in BOOLEAN, EndExport(r, failed),
         put[r].step \in {"locked", "exporting", "half"},
         exported' \in [decisions : Nat, events : Nat],
         exported'.decisions <= Len(audit), exported'.events <= Len(audit),
         reviewFaults' \in Nat, UNCHANGED <<assetIndex, audit, reads>>,
         failed \/ exported' = [decisions |-> Len(audit), events |-> Len(audit)]
           \/ \E q \in Reviewer : put[q].step = "committed"
  PROVE  ReviewInv'
<1> USE DEF ReviewInv
<1>1. put' = [put EXCEPT ![r] = NoPut] /\ exportLock' = Unlocked /\ missed' = failed
  BY DEF EndExport
<1>2. NoPut \in PutRequests
  BY DEF NoPut, PutRequests
<1>3. ReviewShapes'
  BY <1>1, <1>2 DEF ReviewShapes
<1>4. put'[r] = NoPut /\ \A q \in Reviewer \ {r} : put'[q] = put[q]
  BY <1>1 DEF ReviewShapes
<1>5. \A q \in Reviewer : put'[q].step \notin {"locked", "exporting", "half"}
  BY <1>4, OwnerAlone DEF NoPut
<1>6. ManualReviewTypeOK'
  BY <1>1, <1>5, ManualReviewAssumption DEF ManualReviewTypeOK, ReviewShapes
<1>7. NoDecisionLost' /\ StoreReadsBack'
  BY DEF NoDecisionLost, StoreReadsBack, Verifies
<1>8. RowsHeld'
  BY <1>5 DEF RowsHeld, PutExporting
<1>9. ExportPending'
  BY <1>1, <1>4 DEF ExportPending
<1>10. QED
  BY <1>3, <1>6, <1>7, <1>8, <1>9

\* An export that fails is noted as missed.
LEMMA EndsMissed ==
  ASSUME ReviewInv, NEW r \in Reviewer, EndExport(r, TRUE),
         put[r].step \in {"locked", "exporting", "half"}, reviewFaults' \in Nat,
         UNCHANGED <<assetIndex, audit, exported, reads>>
  PROVE  ReviewInv'
<1>1. exported' \in [decisions : Nat, events : Nat]
  BY DEF ReviewInv, ReviewShapes
<1>2. exported'.decisions <= Len(audit) /\ exported'.events <= Len(audit)
  BY DEF ReviewInv, ManualReviewTypeOK
<1>3. QED
  BY <1>1, <1>2, EndOfExport

LEMMA SnapshotHolds ==
  ASSUME ReviewInv, NEW r \in Reviewer, Snapshot(r) PROVE ReviewInv'
<1> USE DEF ReviewInv
<1>1. put[r].step = "locked"
  BY DEF Snapshot, Stands
<1>2. CASE ~Verifies(audit, put[r].context)
  <2>1. EndExport(r, TRUE) /\ UNCHANGED <<assetIndex, audit, exported, reviewFaults, reads>>
    BY <1>2 DEF Snapshot
  <2>2. QED
    BY <1>1, <2>1, EndsMissed DEF ReviewShapes
<1>3. CASE Verifies(audit, put[r].context)
  <2> DEFINE now == [step |-> "exporting", rows |-> Len(audit)]
  <2>1. put' = [put EXCEPT ![r] = now] /\ UNCHANGED <<exportLock, missed>>
    BY <1>3 DEF Snapshot, SnapshotOf
  <2>2. now \in PutRequests
    BY DEF PutRequests, ReviewShapes
  <2>3. ReviewShapes'
    BY <2>1, <2>2 DEF ReviewShapes, Snapshot
  <2>4. put'[r] = now /\ \A q \in Reviewer \ {r} : put'[q] = put[q]
    BY <2>1 DEF ReviewShapes
  <2>5. ManualReviewTypeOK'
    BY <1>1, <2>1, <2>4 DEF ManualReviewTypeOK, Snapshot
  <2>6. NoDecisionLost' /\ StoreReadsBack'
    BY DEF NoDecisionLost, StoreReadsBack, Verifies, Snapshot
  <2>7. \A q \in Reviewer : PutExporting(q)' => q = r
    BY <1>1, <2>4, OwnerAlone DEF PutExporting
  <2>8. RowsHeld'
    BY <2>4, <2>7 DEF RowsHeld, PutExporting, Snapshot, ManualReviewTypeOK, ReviewShapes
  <2>9. ExportPending'
    BY <2>4 DEF ExportPending
  <2>10. QED
    BY <2>3, <2>5, <2>6, <2>8, <2>9
<1>4. QED
  BY <1>2, <1>3

LEMMA WriteDecisionsHolds ==
  ASSUME ReviewInv, NEW r \in Reviewer, WriteDecisions(r) PROVE ReviewInv'
<1> USE DEF ReviewInv
<1>1. put[r].step = "exporting" /\ put[r] \in PutRequests
  BY DEF WriteDecisions, Stands, ReviewShapes
<1>2. put[r] \in [step : {"exporting", "half"}, rows : Nat]
  BY <1>1 DEF PutRequests
<1>3. /\ put' = [put EXCEPT ![r] = [put[r] EXCEPT !.step = "half"]]
      /\ [put[r] EXCEPT !.step = "half"] \in PutRequests
  BY <1>2 DEF WriteDecisions, PutRequests
<1>4. /\ exported' \in [decisions : Nat, events : Nat]
      /\ exported'.decisions = put[r].rows /\ exported'.events = exported.events
  BY <1>2 DEF ReviewShapes, WriteDecisions
<1>5. ReviewShapes'
  BY <1>3, <1>4 DEF ReviewShapes, WriteDecisions
<1>6. /\ put'[r].step = "half" /\ put'[r].rows = put[r].rows
      /\ \A q \in Reviewer \ {r} : put'[q] = put[q]
  BY <1>2, <1>3 DEF ReviewShapes
<1>7. ManualReviewTypeOK'
  BY <1>1, <1>2, <1>4, <1>6 DEF ManualReviewTypeOK, WriteDecisions, RowsHeld, PutExporting,
     ReviewShapes
<1>8. NoDecisionLost' /\ StoreReadsBack'
  BY DEF NoDecisionLost, StoreReadsBack, Verifies, WriteDecisions
<1>9. \A q \in Reviewer : PutExporting(q)' => q = r
  BY <1>1, <1>6, OwnerAlone DEF PutExporting
<1>10. RowsHeld'
  BY <1>1, <1>2, <1>4, <1>6, <1>9 DEF RowsHeld, PutExporting, WriteDecisions
<1>11. ExportPending'
  BY <1>6 DEF ExportPending
<1>12. QED
  BY <1>5, <1>7, <1>8, <1>10, <1>11

LEMMA WriteEventsHolds ==
  ASSUME ReviewInv, NEW r \in Reviewer, WriteEvents(r) PROVE ReviewInv'
<1>1. put[r].step = "half" /\ put[r] \in PutRequests
  BY DEF WriteEvents, Stands, ReviewInv, ReviewShapes
<1>2. put[r] \in [step : {"exporting", "half"}, rows : Nat]
  BY <1>1 DEF PutRequests
<1>3. exported' = [decisions |-> put[r].rows, events |-> put[r].rows]
  BY <1>1, <1>2 DEF ReviewInv, ReviewShapes, WriteEvents, RowsHeld, PutExporting
<1>4. put[r].rows <= Len(audit)
      /\ (put[r].rows = Len(audit) \/ \E q \in Reviewer : put[q].step = "committed")
  BY <1>1 DEF ReviewInv, RowsHeld, PutExporting
<1>5. /\ EndExport(r, FALSE) /\ UNCHANGED <<assetIndex, audit, reviewFaults, reads>>
      /\ reviewFaults' \in Nat
  BY DEF WriteEvents, ReviewInv, ReviewShapes
<1>6. /\ exported' \in [decisions : Nat, events : Nat]
      /\ exported'.decisions <= Len(audit) /\ exported'.events <= Len(audit)
  BY <1>2, <1>3, <1>4
<1>7. \/ exported' = [decisions |-> Len(audit), events |-> Len(audit)]
      \/ \E q \in Reviewer : put[q].step = "committed"
  BY <1>3, <1>4
<1>8. QED
  BY <1>1, <1>5, <1>6, <1>7, EndOfExport

LEMMA ExportFailsHolds ==
  ASSUME ReviewInv, NEW r \in Reviewer, ExportFails(r) PROVE ReviewInv'
<1>1. reviewFaults' \in Nat
  BY DEF ExportFails, ReviewInv, ReviewShapes
<1>2. QED
  BY <1>1, EndsMissed DEF ExportFails

LEMMA ReplaceIndexHolds == ASSUME ReviewInv, ReplaceIndex PROVE ReviewInv'
<1> USE DEF ReviewInv, ReplaceIndex
<1>1. ManualReviewTypeOK'
  BY ManualReviewAssumption DEF ManualReviewTypeOK
<1>2. ReviewShapes' /\ RowsHeld' /\ ExportPending'
  BY DEF ReviewShapes, RowsHeld, PutExporting, ExportPending
<1>3. NoDecisionLost' /\ StoreReadsBack'
  BY DEF NoDecisionLost, StoreReadsBack, Verifies
<1>4. QED
  BY <1>1, <1>2, <1>3

LEMMA CrashReviewHolds == ASSUME ReviewInv, CrashReview PROVE ReviewInv'
<1> USE DEF ReviewInv, CrashReview
<1>1. \A r \in Reviewer : put'[r].step = "idle"
  BY DEF NoPut
<1>2. ReviewShapes'
  BY DEF ReviewShapes, PutRequests, NoPut
<1>3. ManualReviewTypeOK'
  BY <1>1, ManualReviewAssumption DEF ManualReviewTypeOK
<1>4. RowsHeld' /\ ExportPending'
  BY <1>1 DEF RowsHeld, PutExporting, ExportPending
<1>5. NoDecisionLost' /\ StoreReadsBack'
  BY DEF NoDecisionLost, StoreReadsBack, Verifies
<1>6. QED
  BY <1>2, <1>3, <1>4, <1>5

LEMMA ReviewNextHolds == ReviewInv /\ [ManualReviewNext]_reviewVars => ReviewInv'
<1> SUFFICES ASSUME ReviewInv, [ManualReviewNext]_reviewVars PROVE ReviewInv'
  OBVIOUS
<1>1. ASSUME NEW r \in Reviewer, PutStep(r) PROVE ReviewInv'
  BY <1>1, LoadContextHolds, CommitHolds, LockExportHolds, SnapshotHolds, WriteDecisionsHolds,
     WriteEventsHolds DEF PutStep
<1>2. CASE UNCHANGED reviewVars
  BY <1>2 DEF reviewVars, ReviewInv, ManualReviewTypeOK, ReviewShapes, NoDecisionLost,
     StoreReadsBack, Verifies, RowsHeld, PutExporting, ExportPending
<1>3. QED
  BY <1>1, <1>2, ReadDetailHolds, ExportFailsHolds, ReplaceIndexHolds, CrashReviewHolds
     DEF ManualReviewNext

LEMMA ReviewCorrect == ManualReviewSpec => []ReviewInv
  BY ReviewInitHolds, ReviewNextHolds, PTL DEF ManualReviewSpec


-----------------------------------------------------------------------------
(* PPE human QA                                                            *)

\* An event of the audit, and what a thread knows of its decision.
QaEvents == [entity : Entity, reviewer : Identity, at : 1 .. MaxClock, revision : Nat, seen : Nat]

Decisions ==
  [stage : {"idle"}]
    \cup [stage : {"read"}, entity : Entity, expected : Nat, reviewer : Identity]
    \cup [stage : {"timed"}, entity : Entity, expected : Nat, reviewer : Identity,
          at : 1 .. MaxClock]

\* The audit verifies but for the tiles, which others may damage.
AuditInOrder ==
  /\ Len(qaAudit) <= MaxQaEvents
  /\ \A i \in DOMAIN qaAudit :
       /\ ~CompleteIn(SubSeq(qaAudit, 1, i - 1))
       /\ qaAudit[i].revision = QaRevision(qaAudit[i].entity, SubSeq(qaAudit, 1, i))
       /\ qaAudit[i].reviewer = qaAudit[1].reviewer
       /\ i > 1 => qaAudit[i].at >= qaAudit[i - 1].at

QaInv ==
  /\ qaAudit \in Seq(QaEvents) /\ deciding \in [QaThread -> Decisions]
  /\ clock \in 1 .. MaxClock /\ spoilt \subseteq Sample /\ qaReads \in Nat
  /\ AuditInOrder /\ QaDecisionSeen

\* A revision is a number.
LEMMA QaRevisionIsNat ==
  ASSUME NEW e, NEW events \in Seq(QaEvents)
  PROVE  QaRevision(e, events) \in Nat
<1>1. IsFiniteSet(DOMAIN events)
  BY FS_Interval
<1>2. {i \in DOMAIN events : events[i].entity = e} \subseteq DOMAIN events
  OBVIOUS
<1>3. QED
  BY <1>1, <1>2, FS_Subset, FS_CardinalityType DEF QaRevision

LEMMA QaInitHolds == PpeHumanQaInit => QaInv
<1> SUFFICES ASSUME PpeHumanQaInit PROVE QaInv
  OBVIOUS
<1>1. deciding \in [QaThread -> Decisions]
  BY DEF PpeHumanQaInit, NoDecision, Decisions
<1>2. AuditInOrder /\ QaDecisionSeen
  BY PpeHumanQaAssumption DEF PpeHumanQaInit, AuditInOrder, QaDecisionSeen
<1>3. clock \in 1 .. MaxClock
  BY PpeHumanQaAssumption DEF PpeHumanQaInit
<1>4. QED
  BY <1>1, <1>2, <1>3 DEF QaInv, PpeHumanQaInit

\* A step that leaves the audit as it is.
LEMMA QaAuditKept ==
  ASSUME QaInv, UNCHANGED qaAudit, deciding' \in [QaThread -> Decisions],
         clock' \in 1 .. MaxClock, spoilt' \subseteq Sample, qaReads' \in Nat
  PROVE  QaInv'
<1>1. AuditInOrder' /\ QaDecisionSeen'
  BY DEF QaInv, AuditInOrder, QaDecisionSeen
<1>2. QED
  BY <1>1 DEF QaInv

LEMMA ReadEntityHolds ==
  ASSUME QaInv, NEW t \in QaThread, NEW e \in Entity, NEW who \in Identity, ReadEntity(t, e, who)
  PROVE  QaInv'
<1>1. QaRevision(e, qaAudit) \in Nat
  BY QaRevisionIsNat DEF QaInv
<1>2. [stage |-> "read", entity |-> e, expected |-> QaRevision(e, qaAudit), reviewer |-> who]
        \in Decisions
  BY <1>1 DEF Decisions
<1>3. deciding' \in [QaThread -> Decisions]
  BY <1>2 DEF ReadEntity, QaInv
<1>4. QED
  BY <1>3, QaAuditKept DEF ReadEntity, QaInv

LEMMA TakeTimeHolds ==
  ASSUME QaInv, NEW t \in QaThread, TakeTime(t) PROVE QaInv'
<1>1. deciding[t] \in [stage : {"read"}, entity : Entity, expected : Nat, reviewer : Identity]
  BY DEF QaInv, TakeTime, Decisions
<1>2. /\ [stage |-> "timed", entity |-> deciding[t].entity, expected |-> deciding[t].expected,
          reviewer |-> deciding[t].reviewer, at |-> clock] \in Decisions
      /\ NoDecision \in Decisions
  BY <1>1 DEF QaInv, Decisions, NoDecision
<1>3. deciding' \in [QaThread -> Decisions]
  BY <1>2 DEF TakeTime, QaInv
<1>4. QED
  BY <1>3, QaAuditKept DEF TakeTime, QaInv

LEMMA PutDecisionHolds ==
  ASSUME QaInv, NEW t \in QaThread, PutDecision(t) PROVE QaInv'
<1>1. deciding[t] \in [stage : {"timed"}, entity : Entity, expected : Nat, reviewer : Identity,
                       at : 1 .. MaxClock]
  BY DEF QaInv, PutDecision, Decisions
<1>2. deciding' \in [QaThread -> Decisions]
  BY DEF PutDecision, QaInv, Decisions, NoDecision
<1>3. CASE ~QaCommits(t)
  BY <1>2, <1>3, QaAuditKept DEF PutDecision, QaInv
<1>4. CASE QaCommits(t)
  <2>1. QaRevision(deciding[t].entity, qaAudit) \in Nat
    BY QaRevisionIsNat DEF QaInv
  <2>2. QaEvent(t) \in QaEvents
    BY <1>1, <2>1 DEF QaEvent, QaEvents
  <2>3. qaAudit' = Append(qaAudit, QaEvent(t)) /\ qaAudit' \in Seq(QaEvents)
    BY <1>4, <2>2 DEF PutDecision, QaInv
  <2>4. AuditVerifies(qaAudit')
    BY <1>4, <2>3 DEF QaCommits, PutDecision
  <2>5. AuditInOrder'
    BY <2>4 DEF AuditVerifies, AuditInOrder
  <2>6. QaEvent(t).seen = QaEvent(t).revision - 1
    BY <1>4, <2>1 DEF QaCommits, QaEvent
  <2>7. \A i \in DOMAIN qaAudit' : IF i \in DOMAIN qaAudit THEN qaAudit'[i] = qaAudit[i]
                                   ELSE qaAudit'[i] = QaEvent(t)
    BY <2>2, <2>3 DEF QaInv
  <2>8. QaDecisionSeen'
    BY <2>6, <2>7 DEF QaInv, QaDecisionSeen
  <2>9. QED
    BY <1>2, <2>3, <2>5, <2>8 DEF PutDecision, QaInv
<1>5. QED
  BY <1>3, <1>4

LEMMA QaNextHolds == QaInv /\ [PpeHumanQaNext]_qaVars => QaInv'
<1> SUFFICES ASSUME QaInv, [PpeHumanQaNext]_qaVars PROVE QaInv'
  OBVIOUS
<1>1. ASSUME NEW now \in 1 .. MaxClock, SetClock(now) PROVE QaInv'
  BY <1>1, QaAuditKept DEF SetClock, QaInv
<1>2. ASSUME NEW e \in Sample, SpoilTile(e) PROVE QaInv'
  BY <1>2, QaAuditKept DEF SpoilTile, QaInv
<1>3. CASE RestartQa
  <2>1. deciding' \in [QaThread -> Decisions]
    BY <1>3 DEF RestartQa, Decisions, NoDecision
  <2>2. QED
    BY <1>3, <2>1, QaAuditKept DEF RestartQa, QaInv
<1>4. CASE UNCHANGED qaVars
  BY <1>4, QaAuditKept DEF qaVars, QaInv
<1>5. QED
  BY <1>1, <1>2, <1>3, <1>4, ReadEntityHolds, TakeTimeHolds, PutDecisionHolds
     DEF PpeHumanQaNext, DecisionStep

\* What the invariant says of the run's properties.
LEMMA QaMeans == QaInv => PpeHumanQaTypeOK /\ QaSafe
<1> SUFFICES ASSUME QaInv PROVE PpeHumanQaTypeOK /\ QaSafe
  OBVIOUS
<1>1. \A i \in DOMAIN qaAudit : qaAudit[i] \in QaEvents
  BY DEF QaInv
<1>2. \A t \in QaThread : deciding[t].stage \in {"idle", "read", "timed"}
  BY DEF QaInv, Decisions
<1>3. PpeHumanQaTypeOK
  BY <1>1, <1>2 DEF PpeHumanQaTypeOK, QaInv, QaEvents
<1>4. QaReadsBack
  BY DEF QaReadsBack, QaInv, AuditInOrder, AuditVerifies
<1>5. QED
  BY <1>3, <1>4 DEF QaSafe, QaInv

\* After completion every put is refused.
LEMMA CompletionStays ==
  [PpeHumanQaNext]_qaVars => [CompleteIn(qaAudit) => qaAudit' = qaAudit]_qaVars
  BY DEF PpeHumanQaNext, DecisionStep, ReadEntity, TakeTime, PutDecision, QaCommits, SetClock,
     SpoilTile, RestartQa, qaVars

-----------------------------------------------------------------------------
(* Selection store                                                         *)

\* What a save makes of an accepted request and a catalog.
Items == {Item(r, catalog) : r \in Request, catalog \in Catalog}

Made(item) == \E r \in Request, catalog \in Catalog : Wellformed(r) /\ item = Item(r, catalog)

SaveSteps == {"lock", "queue", "selection", "latest", "latest queue"}

SaveRecords == [pc : {"ready"} \cup SaveSteps, id : Nat, item : Items \cup {NoItem}]

\* Whoever saves has an id and an item, and behind each write is what it wrote.
Saves ==
  /\ client \in [Client -> SaveRecords]
  /\ \A c \in Client :
       /\ client[c].pc = "ready" => client[c].id = 0
       /\ client[c].pc # "ready" => client[c].id \in 1 .. issued /\ Made(client[c].item)
       /\ client[c].pc \in {"selection", "latest", "latest queue"} => client[c].id \in DOMAIN queues
       /\ client[c].pc \in {"latest", "latest queue"} => client[c].id \in selections
       /\ client[c].pc = "latest queue" => latest = client[c].id

\* The latest files differ in the middle of a save, and after one that was torn.
LatestPending ==
  torn \/ latest = latestQueue \/ \E c \in Client : client[c].pc = "latest queue"

StoreInv ==
  /\ SelectionStoreTypeOK /\ {issued, storeFaults, catalogChanges} \subseteq Nat
  /\ storeLock \in Client \cup {Nobody}
  /\ Saves /\ LatestPending /\ VisibleHasQueue
  /\ \A id \in DOMAIN queues : Made(queues[id])

\* What a save accepts its planner accepts too.
LEMMA MadePolicy ==
  ASSUME NEW item, Made(item)
  PROVE  IF item.category = "fence" THEN FencePolicyValid(item) ELSE PpePolicyValid(item)
<1>1. PICK r \in Request, catalog \in Catalog : Wellformed(r) /\ item = Item(r, catalog)
  BY DEF Made
<1>2. r \in Requests
  BY SelectionStoreAssumption
<1>3. /\ item.category = r.category /\ item.rois = r.rois
      /\ item.modules = RequestedModules(r) /\ item.policy = AlertPolicy(r)
  BY <1>1 DEF Item
<1>4. CASE r.category = "fence"
  <2>1. "pose" \in RequestedModules(r) <=> r.pose = "on" \/ r.crossing = "on"
    BY <1>4 DEF RequestedModules
  <2>2. CASE r.crossing = "on"
    <3>1. AlertPolicy(r) = [rule |-> "staged", anchor |-> "mid_hip", poseRule |-> TRUE,
                            crossingRule |-> TRUE, suppression |-> FALSE]
      BY <1>4, <2>2 DEF AlertPolicy
    <3>2. QED
      BY <1>3, <1>4, <2>1, <2>2, <3>1 DEF FencePolicyValid
  <2>3. CASE r.crossing # "on" /\ r.pose = "on"
    <3>1. AlertPolicy(r) = [rule |-> "ratio", anchor |-> "keypoints", poseRule |-> TRUE,
                            crossingRule |-> FALSE, suppression |-> FALSE]
      BY <1>4, <2>3 DEF AlertPolicy
    <3>2. QED
      BY <1>3, <1>4, <2>1, <2>3, <3>1 DEF FencePolicyValid
  <2>4. CASE r.crossing # "on" /\ r.pose # "on"
    <3>1. AlertPolicy(r) = [rule |-> "inside", anchor |-> "bottom", poseRule |-> FALSE,
                            crossingRule |-> FALSE, suppression |-> FALSE]
      BY <1>4, <2>4 DEF AlertPolicy
    <3>2. QED
      BY <1>3, <1>4, <2>1, <2>4, <3>1 DEF FencePolicyValid
  <2>5. QED
    BY <2>2, <2>3, <2>4
<1>5. CASE r.category = "ppe"
  <2>1. AlertPolicy(r) =
          [rule |-> IF r.rois > 0 THEN "outside" ELSE "disabled", anchor |-> "bottom",
           poseRule |-> FALSE, crossingRule |-> FALSE, suppression |-> r.forklift = "on"]
    BY <1>5 DEF AlertPolicy
  <2>2. QED
    BY <1>3, <1>5, <2>1 DEF PpePolicyValid
<1>6. QED
  BY <1>2, <1>4, <1>5 DEF Requests

\* A time has a frame.
LEMMA FramesAreNumbers == ASSUME NEW t \in Nat PROVE RoundUp(t) \in Nat
BY SelectionStoreAssumption DEF RoundUp

\* The frames of any saved item are in the source and not empty.
LEMMA MadeFrames ==
  ASSUME NEW item, Made(item)
  PROVE  PpeFrames(item).first < PpeFrames(item).last /\ PpeFrames(item).last <= item.frames
<1>1. PICK r \in Request, catalog \in Catalog : item = Item(r, catalog)
  BY DEF Made
<1>2. r \in Requests /\ catalog \in Catalogs
  BY SelectionStoreAssumption
<1>3. r.start \in Nat /\ r.end \in Nat /\ catalog.frames \in Nat \ {0} /\ catalog.duration \in Nat
  BY <1>2 DEF Requests, Catalogs
<1>4. /\ item.start = r.start /\ item.end = Earlier(r.end, catalog.duration)
      /\ item.frames = catalog.frames /\ item.duration = catalog.duration
  BY <1>1 DEF Item
<1>5. item.start \in Nat /\ Earlier(item.end, item.duration) \in Nat
  BY <1>3, <1>4 DEF Earlier
<1>6. RoundUp(item.start) \in Nat /\ RoundUp(Earlier(item.end, item.duration)) \in Nat
  BY <1>5, FramesAreNumbers
<1> DEFINE a == RoundUp(item.start)
           b == RoundUp(Earlier(item.end, item.duration))
           first == Earlier(item.frames - 1, a)
           last == Earlier(item.frames, b)
<1>7. /\ PpeFrames(item).first = first
      /\ PpeFrames(item).last = IF last <= first THEN first + 1 ELSE last
  BY DEF PpeFrames
<1> HIDE DEF a, b
<1>8. first \in Nat /\ last \in Nat /\ first <= item.frames - 1 /\ last <= item.frames
  BY <1>3, <1>4, <1>6 DEF Earlier, a, b
<1> HIDE DEF first, last
<1>9. QED
  BY <1>3, <1>4, <1>7, <1>8

LEMMA StoreInitHolds == SelectionStoreInit => StoreInv
<1> SUFFICES ASSUME SelectionStoreInit PROVE StoreInv
  OBVIOUS
<1>1. \A c \in Client : client[c] = Ready
  BY DEF SelectionStoreInit
<1>2. SelectionStoreTypeOK
  <2>1. \A c \in Client : client[c].id = 0 /\ ~Locked(c) /\ storeLock # c
    BY <1>1, SelectionStoreAssumption DEF SelectionStoreInit, Ready, Locked
  <2>2. 0 \in 0 .. MaxStoreFaults /\ 0 \in 0 .. MaxCatalogs
    BY SelectionStoreAssumption
  <2>3. QED
    BY <2>1, <2>2 DEF SelectionStoreInit, SelectionStoreTypeOK
<1>3. Saves
  BY DEF SelectionStoreInit, Saves, Ready, SaveSteps, SaveRecords
<1>4. LatestPending /\ VisibleHasQueue
  BY DEF SelectionStoreInit, LatestPending, VisibleHasQueue
<1>5. QED
  BY <1>2, <1>3, <1>4 DEF StoreInv, SelectionStoreInit

LEMMA PostHolds ==
  ASSUME StoreInv, NEW c \in Client, NEW r \in Request, PostSelection(c, r) PROVE StoreInv'
<1> DEFINE now == [pc |-> "lock", id |-> issued + 1, item |-> Item(r, loaded)]
<1>1. issued \in Nat /\ loaded \in Catalog /\ Wellformed(r) /\ issued' = issued + 1
  BY DEF StoreInv, SelectionStoreTypeOK, PostSelection
<1>2. Item(r, loaded) \in Items /\ Made(Item(r, loaded))
  BY <1>1 DEF Items, Made
<1>3. client' = [client EXCEPT ![c] = now] /\ client[c].pc = "ready"
  BY DEF PostSelection
<1>4. client'[c] = now /\ \A q \in Client \ {c} : client'[q] = client[q]
  BY <1>3 DEF StoreInv, Saves
<1>5. Saves'
  <2>1. now \in SaveRecords
    BY <1>1, <1>2 DEF SaveSteps, SaveRecords
  <2>2. client' \in [Client -> SaveRecords]
    BY <1>3, <2>1 DEF StoreInv, Saves
  <2>3. /\ now.pc = "lock" /\ now.id \in 1 .. issued' /\ Made(now.item)
        /\ UNCHANGED <<queues, selections, latest>>
    BY <1>1, <1>2 DEF PostSelection, stored
  <2> HIDE DEF now
  <2>4. \A q \in Client \ {c} : client[q].id \in 1 .. issued => client'[q].id \in 1 .. issued'
    BY <1>1, <1>4
  <2>5. QED
    BY <1>4, <2>2, <2>3, <2>4 DEF StoreInv, Saves
<1>6. SelectionStoreTypeOK'
  <2>1. \A q \in Client : client'[q].id \in 0 .. issued'
    BY <1>1, <1>4 DEF StoreInv, SelectionStoreTypeOK
  <2>2. \A q \in Client : (storeLock' = q) <=> Locked(q)'
    <3>1. ASSUME NEW q \in Client PROVE Locked(q)' <=> Locked(q)
      <4>1. CASE q = c
        <5>1. client'[q].pc = "lock" /\ client[q].pc = "ready"
          BY <1>3, <1>4, <4>1
        <5>2. QED
          BY <5>1 DEF Locked
      <4>2. CASE q # c
        BY <1>4, <4>2 DEF Locked
      <4>3. QED
        BY <4>1, <4>2
    <3>2. storeLock' = storeLock
      BY DEF PostSelection
    <3>3. QED
      BY <3>1, <3>2 DEF StoreInv, SelectionStoreTypeOK
  <2>3. QED
    BY <1>1, <2>1, <2>2 DEF StoreInv, SelectionStoreTypeOK, PostSelection, stored
<1>7. LatestPending' /\ VisibleHasQueue'
  BY <1>3, <1>4 DEF StoreInv, LatestPending, VisibleHasQueue, PostSelection, stored
<1>8. QED
  BY <1>1, <1>5, <1>6, <1>7 DEF StoreInv, PostSelection, stored

\* A thread goes to the next step of its save.
LEMMA SavingMoves ==
  ASSUME StoreInv, NEW c \in Client, NEW from \in SaveSteps, NEW to \in SaveSteps,
         Saving(c, from, to)
  PROVE  /\ client' \in [Client -> SaveRecords]
         /\ client[c].pc = from /\ client'[c].pc = to
         /\ client'[c].id = client[c].id /\ client'[c].item = client[c].item
         /\ \A q \in Client \ {c} : client'[q] = client[q]
<1>1. client[c] \in SaveRecords
  BY DEF StoreInv, Saves
<1>2. client' = [client EXCEPT ![c] = [client[c] EXCEPT !.pc = to]] /\ client[c].pc = from
  BY DEF Saving
<1>3. [client[c] EXCEPT !.pc = to] \in SaveRecords
  BY <1>1 DEF SaveRecords
<1>4. QED
  BY <1>1, <1>2, <1>3 DEF StoreInv, Saves, SaveRecords

\* Only the owner of the lock writes.
LEMMA WriterAlone ==
  ASSUME StoreInv, NEW c \in Client, NEW q \in Client, Locked(c), Locked(q) PROVE c = q
BY DEF StoreInv, SelectionStoreTypeOK

LEMMA LockHolds == ASSUME StoreInv, NEW c \in Client, Lock(c) PROVE StoreInv'
<1>1. /\ client' \in [Client -> SaveRecords]
      /\ client[c].pc = "lock" /\ client'[c].pc = "queue"
      /\ client'[c].id = client[c].id /\ client'[c].item = client[c].item
      /\ \A q \in Client \ {c} : client'[q] = client[q]
  BY SavingMoves DEF Lock, SaveSteps
<1>2. Saves'
  BY <1>1 DEF StoreInv, Saves, Lock, stored
<1>3. \A q \in Client : ~Locked(q)
  BY SelectionStoreAssumption DEF Lock, StoreInv, SelectionStoreTypeOK
<1>4. SelectionStoreTypeOK'
  <2>1. \A q \in Client : (storeLock' = q) <=> Locked(q)'
    BY <1>1, <1>3 DEF Locked, Lock
  <2>2. QED
    BY <1>1, <2>1 DEF StoreInv, SelectionStoreTypeOK, Lock, stored
<1>5. LatestPending' /\ VisibleHasQueue'
  BY <1>1 DEF StoreInv, LatestPending, VisibleHasQueue, Lock, stored
<1>6. QED
  BY <1>2, <1>4, <1>5 DEF StoreInv, Lock, stored

LEMMA QueueHolds == ASSUME StoreInv, NEW c \in Client, WriteQueue(c) PROVE StoreInv'
<1> DEFINE id == client[c].id
<1>1. /\ client' \in [Client -> SaveRecords]
      /\ client[c].pc = "queue" /\ client'[c].pc = "selection"
      /\ client'[c].id = client[c].id /\ client'[c].item = client[c].item
      /\ \A q \in Client \ {c} : client'[q] = client[q]
  BY SavingMoves DEF WriteQueue, SaveSteps
<1>2. id \in 1 .. issued /\ Made(client[c].item)
  BY <1>1 DEF StoreInv, Saves
<1>3. /\ DOMAIN queues' = DOMAIN queues \cup {id}
      /\ \A i \in DOMAIN queues' : queues'[i] = IF i = id THEN client[c].item ELSE queues[i]
  BY DEF WriteQueue
<1>4. /\ \A i \in DOMAIN queues' : Made(queues'[i])
  BY <1>2, <1>3 DEF StoreInv
<1>5. Saves'
  BY <1>1, <1>3 DEF StoreInv, Saves, WriteQueue
<1>6. SelectionStoreTypeOK'
  <2>1. \A q \in Client : (storeLock' = q) <=> Locked(q)'
    BY <1>1 DEF Locked, WriteQueue, StoreInv, SelectionStoreTypeOK
  <2>2. DOMAIN queues' \subseteq 1 .. issued
    BY <1>2, <1>3 DEF StoreInv, SelectionStoreTypeOK
  <2>3. QED
    BY <1>1, <2>1, <2>2 DEF StoreInv, SelectionStoreTypeOK, WriteQueue
<1>7. LatestPending' /\ VisibleHasQueue'
  BY <1>1, <1>3 DEF StoreInv, LatestPending, VisibleHasQueue, WriteQueue
<1>8. QED
  BY <1>4, <1>5, <1>6, <1>7 DEF StoreInv, WriteQueue

LEMMA SelectionHolds == ASSUME StoreInv, NEW c \in Client, WriteSelection(c) PROVE StoreInv'
<1>1. /\ client' \in [Client -> SaveRecords]
      /\ client[c].pc = "selection" /\ client'[c].pc = "latest"
      /\ client'[c].id = client[c].id /\ client'[c].item = client[c].item
      /\ \A q \in Client \ {c} : client'[q] = client[q]
  BY SavingMoves DEF WriteSelection, SaveSteps
<1>2. client[c].id \in 1 .. issued /\ client[c].id \in DOMAIN queues
  BY <1>1 DEF StoreInv, Saves
<1>3. Saves'
  BY <1>1 DEF StoreInv, Saves, WriteSelection
<1>4. SelectionStoreTypeOK'
  <2>1. \A q \in Client : (storeLock' = q) <=> Locked(q)'
    BY <1>1 DEF Locked, WriteSelection, StoreInv, SelectionStoreTypeOK
  <2>2. QED
    BY <1>1, <1>2, <2>1 DEF StoreInv, SelectionStoreTypeOK, WriteSelection
<1>5. LatestPending' /\ VisibleHasQueue'
  BY <1>1, <1>2 DEF StoreInv, LatestPending, VisibleHasQueue, WriteSelection
<1>6. QED
  BY <1>3, <1>4, <1>5 DEF StoreInv, WriteSelection

LEMMA LatestHolds == ASSUME StoreInv, NEW c \in Client, WriteLatest(c) PROVE StoreInv'
<1>1. /\ client' \in [Client -> SaveRecords]
      /\ client[c].pc = "latest" /\ client'[c].pc = "latest queue"
      /\ client'[c].id = client[c].id /\ client'[c].item = client[c].item
      /\ \A q \in Client \ {c} : client'[q] = client[q]
  BY SavingMoves DEF WriteLatest, SaveSteps
<1>2. client[c].id \in 1 .. issued /\ client[c].id \in DOMAIN queues /\ client[c].id \in selections
  BY <1>1 DEF StoreInv, Saves
<1>3. \A q \in Client \ {c} : client[q].pc # "latest queue"
  BY <1>1, WriterAlone DEF Locked
<1>4. Saves'
  BY <1>1, <1>3 DEF StoreInv, Saves, WriteLatest
<1>5. SelectionStoreTypeOK'
  <2>1. \A q \in Client : (storeLock' = q) <=> Locked(q)'
    BY <1>1 DEF Locked, WriteLatest, StoreInv, SelectionStoreTypeOK
  <2>2. QED
    BY <1>1, <1>2, <2>1 DEF StoreInv, SelectionStoreTypeOK, WriteLatest
<1>6. LatestPending' /\ VisibleHasQueue'
  BY <1>1, <1>2 DEF StoreInv, LatestPending, VisibleHasQueue, WriteLatest
<1>7. QED
  BY <1>4, <1>5, <1>6 DEF StoreInv, WriteLatest

\* A save ends, done or not, by its own step.
LEMMA EndOfSave ==
  ASSUME StoreInv, NEW c \in Client, Locked(c), client' = [client EXCEPT ![c] = Ready],
         storeLock' = Nobody, UNCHANGED <<issued, queues, selections, latest, loaded, onDisk, catalogChanges>>,
         latestQueue' \in {latestQueue, latest}, storeFaults' \in 0 .. MaxStoreFaults,
         torn' \/ latest = latestQueue'
  PROVE  StoreInv'
<1>1. client'[c] = Ready /\ \A q \in Client \ {c} : client'[q] = client[q]
  BY DEF StoreInv, Saves
<1>2. client' \in [Client -> SaveRecords]
  BY DEF StoreInv, Saves, Ready, SaveRecords
<1>3. Saves'
  BY <1>1, <1>2 DEF StoreInv, Saves, Ready
<1>4. \A q \in Client : ~Locked(q)'
  <2>1. \A q \in Client \ {c} : ~Locked(q)
    BY WriterAlone
  <2>2. ASSUME NEW q \in Client, Locked(q)' PROVE FALSE
    <3>1. client'[q].pc # "ready"
      BY <2>2 DEF Locked
    <3>2. q # c
      BY <1>1, <3>1 DEF Ready
    <3>3. QED
      BY <1>1, <2>1, <2>2, <3>2 DEF Locked
  <2>3. QED
    BY <2>2
<1>5. SelectionStoreTypeOK'
  BY <1>1, <1>4, SelectionStoreAssumption DEF StoreInv, SelectionStoreTypeOK, Ready
<1>6. LatestPending' /\ VisibleHasQueue'
  BY DEF StoreInv, LatestPending, VisibleHasQueue
<1>7. storeFaults' \in Nat
  BY SelectionStoreAssumption
<1>8. QED
  BY <1>3, <1>5, <1>6, <1>7 DEF StoreInv

LEMMA LatestQueueHolds == ASSUME StoreInv, NEW c \in Client, WriteLatestQueue(c) PROVE StoreInv'
<1>1. client[c].pc = "latest queue" /\ Locked(c)
  BY DEF WriteLatestQueue, Locked
<1>2. latestQueue' = latest
  BY <1>1 DEF WriteLatestQueue, StoreInv, Saves
<1>3. QED
  BY <1>1, <1>2, EndOfSave DEF WriteLatestQueue, StoreInv, SelectionStoreTypeOK

LEMMA WriteFailsHolds == ASSUME StoreInv, NEW c \in Client, WriteFails(c) PROVE StoreInv'
<1>1. storeFaults' \in 0 .. MaxStoreFaults
  BY SelectionStoreAssumption DEF WriteFails, StoreInv, SelectionStoreTypeOK
<1>2. QED
  BY <1>1, EndOfSave DEF WriteFails, stored

LEMMA RestartHolds == ASSUME StoreInv, RestartStore PROVE StoreInv'
<1>1. \A q \in Client : client'[q] = Ready
  BY DEF RestartStore
<1>2. storeFaults' \in 0 .. MaxStoreFaults /\ storeFaults' \in Nat
  BY SelectionStoreAssumption DEF RestartStore, StoreInv, SelectionStoreTypeOK
<1>3. SelectionStoreTypeOK'
  <2>1. \A q \in Client : client'[q].pc = "ready" /\ client'[q].id = 0 /\ storeLock' # q
    BY <1>1, SelectionStoreAssumption DEF Ready, RestartStore
  <2>2. QED
    <3>1. \A q \in Client : ((storeLock' = q) <=> Locked(q)') /\ client'[q].id \in 0 .. issued
      <4>1. issued \in Nat
        BY DEF StoreInv
      <4>2. ASSUME NEW q \in Client PROVE ~Locked(q)'
        <5>1. client'[q].pc = "ready"
          BY <2>1
        <5>2. QED
          BY <5>1 DEF Locked
      <4>3. QED
        BY <2>1, <4>1, <4>2
    <3>2. {loaded', onDisk'} \subseteq Catalog
      BY DEF StoreInv, SelectionStoreTypeOK, RestartStore
    <3>3. QED
      BY <1>2, <3>1, <3>2 DEF StoreInv, SelectionStoreTypeOK, RestartStore, stored
<1>4. Saves'
  BY <1>1 DEF Saves, Ready, RestartStore, SaveRecords
<1>5. LatestPending' /\ VisibleHasQueue'
  BY DEF StoreInv, LatestPending, VisibleHasQueue, RestartStore, stored, Locked
<1>6. QED
  BY <1>2, <1>3, <1>4, <1>5 DEF StoreInv, RestartStore, stored

\* The catalog and the plans are not part of a save.
LEMMA CatalogAndPlansHold ==
  ASSUME StoreInv, UNCHANGED <<client, storeLock, issued, stored, torn, loaded, storeFaults>>,
         onDisk' \in Catalog, catalogChanges' \in 0 .. MaxCatalogs
  PROVE  StoreInv'
<1>1. catalogChanges' \in Nat
  BY SelectionStoreAssumption
<1>2. SelectionStoreTypeOK' /\ Saves'
  BY DEF StoreInv, SelectionStoreTypeOK, Saves, Locked, stored
<1>3. LatestPending' /\ VisibleHasQueue'
  BY DEF StoreInv, LatestPending, VisibleHasQueue, stored
<1>4. QED
  BY <1>1, <1>2, <1>3 DEF StoreInv, stored

LEMMA StoreNextHolds == StoreInv /\ [SelectionStoreNext]_storeVars => StoreInv'
<1> SUFFICES ASSUME StoreInv, [SelectionStoreNext]_storeVars PROVE StoreInv'
  OBVIOUS
<1>1. onDisk \in Catalog /\ catalogChanges \in 0 .. MaxCatalogs
  BY DEF StoreInv, SelectionStoreTypeOK
<1>2. ASSUME NEW catalog \in Catalog, ReplaceCatalog(catalog) PROVE StoreInv'
  <2>1. catalogChanges' \in 0 .. MaxCatalogs
    BY <1>1, <1>2, SelectionStoreAssumption DEF ReplaceCatalog
  <2>2. QED
    BY <1>2, <2>1, CatalogAndPlansHold DEF ReplaceCatalog
<1>3. ASSUME NEW id \in DOMAIN queues, PlanQueue(id) PROVE StoreInv'
  BY <1>1, <1>3, CatalogAndPlansHold DEF PlanQueue
<1>4. CASE UNCHANGED storeVars
  BY <1>1, <1>4, CatalogAndPlansHold DEF storeVars
<1>5. QED
  BY <1>2, <1>3, <1>4, PostHolds, LockHolds, QueueHolds, SelectionHolds, LatestHolds,
     LatestQueueHolds, WriteFailsHolds, RestartHolds DEF SelectionStoreNext, SaveStep

\* What the invariant says of the run's properties.
LEMMA StoreMeans == StoreInv => SelectionStoreTypeOK /\ SelectionsSafe
<1> SUFFICES ASSUME StoreInv PROVE SelectionStoreTypeOK /\ SelectionsSafe
  OBVIOUS
<1>1. LatestFilesAgree
  BY SelectionStoreAssumption
     DEF StoreInv, LatestPending, LatestFilesAgree, SelectionStoreTypeOK, Locked
<1>2. SavedPolicyIsPlannable
  BY MadePolicy DEF StoreInv, SavedPolicyIsPlannable
<1>3. PpeClipInSource
  BY MadeFrames DEF StoreInv, PpeClipInSource
<1>4. QED
  BY <1>1, <1>2, <1>3 DEF StoreInv, SelectionsSafe

\* A plan is made of the catalog file of that moment.
LEMMA PlansMatch ==
  ASSUME [SelectionStoreNext]_storeVars
  PROVE  [\A plan \in plans' \ plans : plan.frames = onDisk.frames]_storeVars
<1>1. CASE \E id \in DOMAIN queues : PlanQueue(id)
  BY <1>1 DEF PlanQueue, FencePlannable, BoundToCatalog
<1>2. CASE ~\E id \in DOMAIN queues : PlanQueue(id)
  <2>1. UNCHANGED plans
    BY <1>2 DEF SelectionStoreNext, SaveStep, PostSelection, Lock, WriteQueue, WriteSelection,
       WriteLatest, WriteLatestQueue, WriteFails, RestartStore, ReplaceCatalog, storeVars
  <2>2. QED
    BY <2>1
<1>3. QED
  BY <1>1, <1>2

-----------------------------------------------------------------------------
(* ROI editor: vectors                                                     *)

\* x lies between 0 and y.
Within(x, y) == (0 <= x /\ x <= y) \/ (y <= x /\ x <= 0)

\* A part of a vector that is within it on one axis is so on the other.
LEMMA PartOfVector ==
  ASSUME NEW p \in Int, NEW q \in Int, NEW s \in Int, NEW t \in Int,
         p # 0, p * t = q * s, Within(s, p)
  PROVE  Within(t, q)
<1>1. CASE p > 0 /\ q >= 0
  <2>1. 0 <= s /\ s <= p
    BY <1>1 DEF Within
  <2>2. q * s >= 0 /\ q * s <= q * p
    BY <2>1, <1>1
  <2>3. p * t >= 0 /\ p * t <= p * q
    BY <2>2
  <2>4. t >= 0 /\ t <= q
    BY <2>3, <1>1
  <2>5. QED
    BY <2>4 DEF Within
<1>2. CASE p > 0 /\ q < 0
  <2>1. 0 <= s /\ s <= p
    BY <1>2 DEF Within
  <2>2. q * s <= 0 /\ q * s >= q * p
    BY <2>1, <1>2
  <2>3. p * t <= 0 /\ p * t >= p * q
    BY <2>2
  <2>4. t <= 0 /\ t >= q
    BY <2>3, <1>2
  <2>5. QED
    BY <2>4 DEF Within
<1>3. CASE p < 0 /\ q >= 0
  <2>1. p <= s /\ s <= 0
    BY <1>3 DEF Within
  <2>2. q * s <= 0 /\ q * s >= q * p
    BY <2>1, <1>3
  <2>3. p * t <= 0 /\ p * t >= p * q
    BY <2>2
  <2>4. t >= 0 /\ t <= q
    BY <2>3, <1>3
  <2>5. QED
    BY <2>4 DEF Within
<1>4. CASE p < 0 /\ q < 0
  <2>1. p <= s /\ s <= 0
    BY <1>4 DEF Within
  <2>2. q * s >= 0 /\ q * s <= q * p
    BY <2>1, <1>4
  <2>3. p * t >= 0 /\ p * t <= p * q
    BY <2>2
  <2>4. t <= 0 /\ t >= q
    BY <2>3, <1>4
  <2>5. QED
    BY <2>4 DEF Within
<1>5. QED
  BY <1>1, <1>2, <1>3, <1>4

\* A fraction of a vector lies within it.
LEMMA FractionWithin ==
  ASSUME NEW d \in Nat \ {0}, NEW k \in 0 .. d, NEW x \in Int, NEW y \in Int,
         d * x = k * y
  PROVE  Within(x, y)
<1>1. CASE y >= 0
  <2>1. k * y >= 0 /\ k * y <= d * y
    BY <1>1
  <2>2. d * x >= 0 /\ d * x <= d * y
    BY <2>1
  <2>3. x >= 0 /\ x <= y
    BY <2>2
  <2>4. QED
    BY <2>3 DEF Within
<1>2. CASE y < 0
  <2>1. k * y <= 0 /\ k * y >= d * y
    BY <1>2
  <2>2. d * x <= 0 /\ d * x >= d * y
    BY <2>1
  <2>3. x <= 0 /\ x >= y
    BY <2>2
  <2>4. QED
    BY <2>3 DEF Within
<1>3. QED
  BY <1>1, <1>2

\* Weights that cancel weigh numbers of opposite signs.
LEMMA OppositeSigns ==
  ASSUME NEW d \in Nat \ {0}, NEW m \in 0 .. d, NEW p \in Int, NEW q \in Int,
         d * p + m * q = 0, p # 0, p + q # 0
  PROVE  Opposite(p, p + q)
<1>1. (d - m) * p + m * (p + q) = 0
  OBVIOUS
<1>2. CASE p > 0 /\ p + q > 0
  <2>1. (d - m) * p >= 0 /\ m * (p + q) >= 0
    BY <1>2
  <2>2. (d - m) * p = 0 /\ m * (p + q) = 0
    BY <2>1, <1>1
  <2>3. d - m = 0 /\ m = 0
    BY <2>2, <1>2
  <2>4. QED
    BY <2>3
<1>3. CASE p < 0 /\ p + q < 0
  <2>1. (d - m) * p <= 0 /\ m * (p + q) <= 0
    BY <1>3
  <2>2. (d - m) * p = 0 /\ m * (p + q) = 0
    BY <2>1, <1>1
  <2>3. d - m = 0 /\ m = 0
    BY <2>2, <1>3
  <2>4. QED
    BY <2>3
<1>4. QED
  BY <1>2, <1>3 DEF Opposite

\* The vectors u along one segment, v along the other and w between their starts: what the
\* point in which they meet says of the four orientations.
LEMMA MeetingCross ==
  ASSUME NEW ux \in Int, NEW uy \in Int, NEW vx \in Int, NEW vy \in Int,
         NEW wx \in Int, NEW wy \in Int,
         NEW d \in Nat \ {0}, NEW k \in 0 .. d, NEW m \in 0 .. d,
         k * ux = d * wx + m * vx, k * uy = d * wy + m * vy
  PROVE  /\ d * (ux * wy - uy * wx) + m * (ux * vy - uy * vx) = 0
         /\ d * (vy * wx - vx * wy) - k * (ux * vy - uy * vx) = 0
<1>1. d * (ux * wy - uy * wx) + m * (ux * vy - uy * vx)
        = ux * (d * wy + m * vy) - uy * (d * wx + m * vx)
  OBVIOUS
<1>2. ux * (d * wy + m * vy) - uy * (d * wx + m * vx) = ux * (k * uy) - uy * (k * ux)
  OBVIOUS
<1>3. ux * (k * uy) - uy * (k * ux) = 0
  OBVIOUS
<1>4. d * wx = k * ux - m * vx /\ d * wy = k * uy - m * vy
  OBVIOUS
<1>5. d * (vy * wx - vx * wy) = vy * (d * wx) - vx * (d * wy)
  OBVIOUS
<1>6. vy * (d * wx) - vx * (d * wy) = vy * (k * ux - m * vx) - vx * (k * uy - m * vy)
  BY <1>4
<1>7. vy * (k * ux - m * vx) - vx * (k * uy - m * vy) = k * (ux * vy - uy * vx)
  OBVIOUS
<1>8. QED
  BY <1>1, <1>2, <1>3, <1>5, <1>6, <1>7

\* Two parallel vectors from one line that meet: one end of the one is within the other.
LEMMA MeetingOnLine ==
  ASSUME NEW ux \in Int, NEW vx \in Int, NEW wx \in Int,
         NEW d \in Nat \ {0}, NEW k \in 0 .. d, NEW m \in 0 .. d,
         k * ux = d * wx + m * vx
  PROVE  \/ Within(wx, ux) \/ Within(wx + vx, ux)
         \/ Within(-wx, vx)
<1> SUFFICES ASSUME ~Within(wx, ux), ~Within(wx + vx, ux), ~Within(-wx, vx) PROVE FALSE
  OBVIOUS
<1>1. d * wx + m * vx = (d - m) * wx + m * (wx + vx)
  OBVIOUS
<1>2. CASE ux >= 0
  <2>1. 0 <= k * ux /\ k * ux <= d * ux
    BY <1>2
  <2>2. CASE wx < 0 /\ wx + vx < 0
    <3>1. (d - m) * wx <= 0 /\ m * (wx + vx) <= 0
      BY <2>2
    <3>2. (d - m) * wx = 0 /\ m * (wx + vx) = 0
      BY <3>1, <2>1, <1>1
    <3>3. QED
      BY <3>2, <2>2
  <2>3. CASE wx > ux /\ wx + vx > ux
    <3>1. (d - m) * wx >= (d - m) * ux /\ m * (wx + vx) >= m * ux
      BY <2>3
    <3>2. (d - m) * ux + m * ux = d * ux
      OBVIOUS
    <3>3. (d - m) * wx = (d - m) * ux /\ m * (wx + vx) = m * ux
      BY <3>1, <3>2, <2>1, <1>1
    <3>4. (d - m) * (wx - ux) = 0 /\ m * (wx + vx - ux) = 0
      BY <3>3
    <3>5. QED
      BY <3>4, <2>3
  <2>4. QED
    BY <2>2, <2>3, <1>2 DEF Within
<1>3. CASE ux < 0
  <2>1. 0 >= k * ux /\ k * ux >= d * ux
    BY <1>3
  <2>2. CASE wx > 0 /\ wx + vx > 0
    <3>1. (d - m) * wx >= 0 /\ m * (wx + vx) >= 0
      BY <2>2
    <3>2. (d - m) * wx = 0 /\ m * (wx + vx) = 0
      BY <3>1, <2>1, <1>1
    <3>3. QED
      BY <3>2, <2>2
  <2>3. CASE wx < ux /\ wx + vx < ux
    <3>1. (d - m) * wx <= (d - m) * ux /\ m * (wx + vx) <= m * ux
      BY <2>3
    <3>2. (d - m) * ux + m * ux = d * ux
      OBVIOUS
    <3>3. (d - m) * wx = (d - m) * ux /\ m * (wx + vx) = m * ux
      BY <3>1, <3>2, <2>1, <1>1
    <3>4. (d - m) * (wx - ux) = 0 /\ m * (wx + vx - ux) = 0
      BY <3>3
    <3>5. QED
      BY <3>4, <2>3
  <2>4. QED
    BY <2>2, <2>3, <1>3 DEF Within
<1>4. QED
  BY <1>2, <1>3

\* Vectors of one line, and an end of the one within the other.
OneLine(ux, uy, vx, vy, wx, wy) ==
  ux * wy = uy * wx /\ ux * vy = uy * vx /\ vx * wy = vy * wx

EndWithin(ux, uy, vx, vy, wx, wy) ==
  \/ Within(wx, ux) /\ Within(wy, uy)
  \/ Within(wx + vx, ux) /\ Within(wy + vy, uy)
  \/ Within(-wx, vx) /\ Within(-wy, vy)

\* Segments of one line, on both axes.
LEMMA MeetingParallels ==
  ASSUME NEW ux \in Int, NEW uy \in Int, NEW vx \in Int, NEW vy \in Int,
         NEW wx \in Int, NEW wy \in Int,
         Within(wx, ux) \/ Within(wx + vx, ux) \/ Within(-wx, vx), ux # 0,
         OneLine(ux, uy, vx, vy, wx, wy)
  PROVE  EndWithin(ux, uy, vx, vy, wx, wy)
<1> USE DEF OneLine, EndWithin
<1>1. CASE Within(wx, ux)
  BY <1>1, PartOfVector
<1>2. CASE Within(wx + vx, ux)
  <2>1. ux * (wy + vy) = uy * (wx + vx)
    OBVIOUS
  <2>2. QED
    BY <2>1, <1>2, PartOfVector
<1>3. CASE Within(-wx, vx) /\ vx # 0
  <2>1. vx * (-wy) = vy * (-wx)
    OBVIOUS
  <2>2. QED
    BY <2>1, <1>3, PartOfVector
<1>4. CASE Within(-wx, vx) /\ vx = 0
  <2>1. wx = 0
    BY <1>4 DEF Within
  <2>2. Within(wx, ux)
    BY <2>1 DEF Within
  <2>3. QED
    BY <2>2, <1>1
<1>5. QED
  BY <1>1, <1>2, <1>3, <1>4

\* One axis of a point k/d along u and m/d along v.
Along(d, k, m, u, v, w) == k * u = d * w + m * v

CrossOrTouch(ux, uy, vx, vy, wx, wy) ==
  LET P == ux * wy - uy * wx
      Q == ux * vy - uy * vx
      R == vy * wx - vx * wy
  IN \/ Opposite(P, P + Q) /\ Opposite(R, R - Q)
     \/ P = 0 /\ Within(wx, ux) /\ Within(wy, uy)
     \/ P + Q = 0 /\ Within(wx + vx, ux) /\ Within(wy + vy, uy)
     \/ R = 0 /\ Within(-wx, vx) /\ Within(-wy, vy)
     \/ R - Q = 0 /\ Within(ux - wx, vx) /\ Within(uy - wy, vy)

\* Segments that meet cross each other, or an end of one lies on the other.
LEMMA MeetingVectors ==
  ASSUME NEW ux \in Int, NEW uy \in Int, NEW vx \in Int, NEW vy \in Int,
         NEW wx \in Int, NEW wy \in Int,
         NEW d \in Nat \ {0}, NEW k \in 0 .. d, NEW m \in 0 .. d,
         Along(d, k, m, ux, vx, wx), Along(d, k, m, uy, vy, wy),
         ux # 0 \/ uy # 0
  PROVE  CrossOrTouch(ux, uy, vx, vy, wx, wy)
<1> USE DEF Along
<1> DEFINE P == ux * wy - uy * wx
           Q == ux * vy - uy * vx
           R == vy * wx - vx * wy
           Goal == \/ Opposite(P, P + Q) /\ Opposite(R, R - Q)
                   \/ P = 0 /\ Within(wx, ux) /\ Within(wy, uy)
                   \/ P + Q = 0 /\ Within(wx + vx, ux) /\ Within(wy + vy, uy)
                   \/ R = 0 /\ Within(-wx, vx) /\ Within(-wy, vy)
                   \/ R - Q = 0 /\ Within(ux - wx, vx) /\ Within(uy - wy, vy)
<1> SUFFICES Goal
  BY DEF CrossOrTouch
<1>1. /\ P \in Int /\ Q \in Int /\ R \in Int
      /\ wx + vx \in Int /\ wy + vy \in Int /\ -wx \in Int /\ -wy \in Int
      /\ ux - wx \in Int /\ uy - wy \in Int
  OBVIOUS
<1>2. d * P + m * Q = 0 /\ d * R - k * Q = 0
  BY MeetingCross
<1>3. CASE Q = 0
  <2> HIDE DEF P, Q, R
  <2>1. m * Q = 0 /\ k * Q = 0
    BY <1>3
  <2>2. d * P = 0 /\ d * R = 0
    BY <1>1, <1>2, <2>1
  <2>3. P = 0 /\ R = 0
    BY <1>1, <2>2
  <2>4. P + Q = 0
    BY <2>3, <1>3
  <2> USE DEF P, Q, R
  <2>5. OneLine(ux, uy, vx, vy, wx, wy) /\ OneLine(uy, ux, vy, vx, wy, wx)
    BY <2>3, <1>3 DEF OneLine
  <2>6. CASE ux # 0
    <3>0. Within(wx, ux) \/ Within(wx + vx, ux) \/ Within(-wx, vx)
      BY MeetingOnLine, Zenon
    <3>1. EndWithin(ux, uy, vx, vy, wx, wy)
      BY <3>0, <2>5, <2>6, MeetingParallels, Zenon
    <3>2. QED
      BY <3>1, <2>3, <2>4 DEF EndWithin
  <2>7. CASE uy # 0
    <3>0. Within(wy, uy) \/ Within(wy + vy, uy) \/ Within(-wy, vy)
      BY MeetingOnLine, Zenon
    <3>2. EndWithin(uy, ux, vy, vx, wy, wx)
      BY <3>0, <2>5, <2>7, MeetingParallels, Zenon
    <3>3. QED
      BY <3>2, <2>3, <2>4 DEF EndWithin
  <2>8. QED
    BY <2>6, <2>7
<1>4. CASE Q # 0 /\ P = 0
  <2>1. m = 0
    <3> HIDE DEF P, Q, R
    <3>1. m * Q = 0
      BY <1>1, <1>2, <1>4
    <3>2. QED
      BY <3>1, <1>1, <1>4
  <2>2. d * wx = k * ux /\ d * wy = k * uy
    BY <2>1
  <2>3. Within(wx, ux) /\ Within(wy, uy)
    BY <1>1, <2>2, FractionWithin, Zenon
  <2>4. QED
    BY <2>3, <1>4
<1>5. CASE Q # 0 /\ P + Q = 0
  <2>1. m = d
    <3> HIDE DEF P, Q, R
    <3>1. P = -Q
      BY <1>1, <1>5
    <3>2. (m - d) * Q = 0
      BY <1>1, <1>2, <3>1
    <3>3. m - d = 0
      BY <3>2, <1>1, <1>5
    <3>4. QED
      BY <3>3
  <2>2. d * (wx + vx) = k * ux /\ d * (wy + vy) = k * uy
    BY <2>1
  <2>3. Within(wx + vx, ux) /\ Within(wy + vy, uy)
    BY <1>1, <2>2, FractionWithin, Zenon
  <2>4. QED
    BY <2>3, <1>5
<1>6. CASE Q # 0 /\ R = 0
  <2>1. k = 0
    <3> HIDE DEF P, Q, R
    <3>1. k * Q = 0
      BY <1>1, <1>2, <1>6
    <3>2. QED
      BY <3>1, <1>1, <1>6
  <2>2. d * (-wx) = m * vx /\ d * (-wy) = m * vy
    BY <2>1
  <2>3. Within(-wx, vx) /\ Within(-wy, vy)
    BY <1>1, <2>2, FractionWithin, Zenon
  <2>4. QED
    BY <2>3, <1>6
<1>7. CASE Q # 0 /\ R - Q = 0
  <2>1. k = d
    <3> HIDE DEF P, Q, R
    <3>1. R = Q
      BY <1>1, <1>7
    <3>2. (d - k) * Q = 0
      BY <1>1, <1>2, <3>1
    <3>3. d - k = 0
      BY <3>2, <1>1, <1>7
    <3>4. QED
      BY <3>3
  <2>2. d * (ux - wx) = m * vx /\ d * (uy - wy) = m * vy
    BY <2>1
  <2>3. Within(ux - wx, vx) /\ Within(uy - wy, vy)
    BY <1>1, <2>2, FractionWithin, Zenon
  <2>4. QED
    BY <2>3, <1>7
<1>8. CASE P # 0 /\ P + Q # 0 /\ R # 0 /\ R - Q # 0
  <2> HIDE DEF P, Q, R
  <2>1. Opposite(P, P + Q)
    BY <1>1, <1>2, <1>8, OppositeSigns
  <2>2. -Q \in Int /\ R + (-Q) = R - Q /\ d * R + k * (-Q) = 0
    BY <1>1, <1>2
  <2>3. Opposite(R, R + (-Q))
    BY <1>1, <1>8, <2>2, OppositeSigns
  <2>4. QED
    BY <2>1, <2>2, <2>3
<1>9. QED
  BY <1>3, <1>4, <1>5, <1>6, <1>7, <1>8

\* Vectors of an edge and the next one that turns back on it.
Spike(ux, uy, vx, vy) ==
  /\ ux * vy - uy * vx = 0
  /\ \/ Within(ux + vx, ux) /\ Within(uy + vy, uy)
     \/ Within(-ux, vx) /\ Within(-uy, vy)

\* An edge and the next one, which starts where it ends: they meet there only, or they are a
\* spike, where one lies on the other.
LEMMA SpikeVectors ==
  ASSUME NEW ux \in Int, NEW uy \in Int, NEW vx \in Int, NEW vy \in Int,
         NEW d \in Nat \ {0}, NEW k \in 0 .. d, NEW m \in 0 .. d,
         Along(d, k, m, ux, vx, ux), Along(d, k, m, uy, vy, uy),
         ux # 0 \/ uy # 0
  PROVE  \/ k = d /\ m = 0
         \/ Spike(ux, uy, vx, vy)
<1> USE DEF Along, Spike
<1> DEFINE Q == ux * vy - uy * vx
<1>0. /\ Q \in Int /\ d - k \in Nat /\ m \in Nat
      /\ -vx \in Int /\ -vy \in Int /\ -ux \in Int /\ -uy \in Int
  OBVIOUS
<1>1. CASE m = 0
  <2>1. (d - k) * ux = 0 /\ (d - k) * uy = 0
    BY <1>1
  <2>2. d - k = 0
    BY <2>1
  <2>3. QED
    BY <2>2, <1>1
<1>2. CASE m # 0
  <2>3. Q = 0
    <3>1. m * Q = 0
      <4>1. m * Q = ux * (m * vy) - uy * (m * vx)
        OBVIOUS
      <4>2. m * vx = (k - d) * ux /\ m * vy = (k - d) * uy
        OBVIOUS
      <4>3. ux * (m * vy) - uy * (m * vx) = ux * ((k - d) * uy) - uy * ((k - d) * ux)
        BY <4>2
      <4>4. ux * ((k - d) * uy) - uy * ((k - d) * ux) = 0
        OBVIOUS
      <4>5. QED
        BY <4>1, <4>3, <4>4
    <3> HIDE DEF Q
    <3>2. QED
      BY <3>1, <1>0, <1>2
  <2>4. m * (-vx) = (d - k) * ux /\ m * (-vy) = (d - k) * uy
    <3>1. (d - k) * ux = d * ux - k * ux /\ (d - k) * uy = d * uy - k * uy
      OBVIOUS
    <3>2. m * (-vx) = -(m * vx) /\ m * (-vy) = -(m * vy)
      OBVIOUS
    <3>3. QED
      BY <3>1, <3>2
  <2>5. CASE d - k <= m
    <3>1. d - k \in 0 .. m /\ m \in Nat \ {0}
      BY <1>0, <1>2, <2>5
    <3>2. Within(-vx, ux) /\ Within(-vy, uy)
      BY <1>0, <2>4, <3>1, FractionWithin, Zenon
    <3>3. Within(ux + vx, ux) /\ Within(uy + vy, uy)
      BY <3>2 DEF Within
    <3>4. QED
      BY <3>3, <2>3
  <2>6. CASE d - k > m
    <3>1. m \in 0 .. (d - k) /\ d - k \in Nat \ {0}
      BY <1>0, <2>6
    <3>2. (d - k) * (-ux) = m * vx /\ (d - k) * (-uy) = m * vy
      BY <2>4
    <3>3. Within(-ux, vx) /\ Within(-uy, vy)
      BY <1>0, <3>1, <3>2, FractionWithin, Zenon
    <3>4. QED
      BY <3>3, <2>3
  <2>7. QED
    BY <1>0, <2>5, <2>6
<1>3. QED
  BY <1>1, <1>2

-----------------------------------------------------------------------------
(* ROI editor: points and edges                                            *)

LEMMA Coordinates ==
  ASSUME NEW a \in Point
  PROVE  a[1] \in Int /\ a[2] \in Int /\ a = <<a[1], a[2]>>
BY RoiEditorAssumption DEF Point

\* A point whose vector is within that of a segment is on it.
LEMMA OnSegmentWithin ==
  ASSUME NEW a \in Point, NEW b \in Point, NEW c \in Point,
         Orientation(a, b, c) = 0,
         \A axis \in {1, 2} : Within(c[axis] - a[axis], b[axis] - a[axis])
  PROVE  OnSegment(c, a, b)
<1> SUFFICES ASSUME NEW axis \in {1, 2}
             PROVE  c[axis] \in Lower(a[axis], b[axis]) .. Upper(a[axis], b[axis])
  BY DEF OnSegment
<1>1. a[axis] \in Int /\ b[axis] \in Int /\ c[axis] \in Int
  BY Coordinates
<1>2. QED
  BY <1>1 DEF Within, Lower, Upper

\* What a meeting point is, as numbers.
LEMMA MeetingPoint ==
  ASSUME NEW a \in Point, NEW b \in Point, NEW c \in Point, NEW e \in Point,
         NEW p \in MeetAt(a, b, c, e)
  PROVE  /\ p[1] \in Nat \ {0} /\ p[2] \in 0 .. p[1] /\ p[3] \in 0 .. p[1]
         /\ \A axis \in {1, 2} :
              Along(p[1], p[2], p[3],
                    b[axis] - a[axis], e[axis] - c[axis], c[axis] - a[axis])
<1>1. 2 * Grid * Grid \in Nat
  BY RoiEditorAssumption
<1>2. p[1] \in Nat \ {0} /\ p[2] \in 0 .. p[1] /\ p[3] \in 0 .. p[1]
  BY <1>1 DEF MeetAt, Denominators
<1>3. ASSUME NEW axis \in {1, 2}
      PROVE  Along(p[1], p[2], p[3],
                   b[axis] - a[axis], e[axis] - c[axis], c[axis] - a[axis])
  <2> DEFINE d == p[1]
             k == p[2]
             m == p[3]
             x == a[axis]
             y == b[axis]
             z == c[axis]
             w == e[axis]
  <2>1. x \in Int /\ y \in Int /\ z \in Int /\ w \in Int
    BY Coordinates
  <2>2. d * x + k * (y - x) = d * z + m * (w - z)
    BY DEF MeetAt
  <2>3. d \in Int /\ k \in Int /\ m \in Int
    BY <1>2
  <2>4. k * (y - x) = d * (z - x) + m * (w - z)
    <3> HIDE DEF d, k, m, x, y, z, w
    <3>1. d * (z - x) = d * z - d * x
      BY <2>1, <2>3
    <3>2. QED
      BY <2>1, <2>2, <2>3, <3>1
  <2>5. QED
    BY <2>4 DEF Along
<1>4. QED
  BY <1>2, <1>3

\* Segments that have a point in common intersect, as the code decides it.
LEMMA MeetingSegments ==
  ASSUME NEW a \in Point, NEW b \in Point, NEW c \in Point, NEW e \in Point, a # b,
         NEW p \in MeetAt(a, b, c, e)
  PROVE  SegmentsIntersect(a, b, c, e)
<1> DEFINE ux == b[1] - a[1]
           uy == b[2] - a[2]
           vx == e[1] - c[1]
           vy == e[2] - c[2]
           wx == c[1] - a[1]
           wy == c[2] - a[2]
<1>1. /\ a[1] \in Int /\ a[2] \in Int /\ b[1] \in Int /\ b[2] \in Int
      /\ c[1] \in Int /\ c[2] \in Int /\ e[1] \in Int /\ e[2] \in Int
  BY Coordinates
<1>2. ux \in Int /\ uy \in Int /\ vx \in Int /\ vy \in Int /\ wx \in Int /\ wy \in Int
  BY <1>1
<1>3. ux # 0 \/ uy # 0
  <2>1. a = <<a[1], a[2]>> /\ b = <<b[1], b[2]>>
    BY Coordinates
  <2>2. a[1] # b[1] \/ a[2] # b[2]
    BY <2>1, Zenon
  <2>3. QED
    BY <2>2, <1>1
<1>4. /\ p[1] \in Nat \ {0} /\ p[2] \in 0 .. p[1] /\ p[3] \in 0 .. p[1]
      /\ Along(p[1], p[2], p[3], ux, vx, wx)
      /\ Along(p[1], p[2], p[3], uy, vy, wy)
  BY MeetingPoint
<1>6. /\ e[1] - a[1] = wx + vx /\ e[2] - a[2] = wy + vy
      /\ a[1] - c[1] = -wx /\ a[2] - c[2] = -wy
      /\ b[1] - c[1] = ux - wx /\ b[2] - c[2] = uy - wy
  BY <1>1
<1>5. /\ Orientation(a, b, c) = ux * wy - uy * wx
      /\ Orientation(a, b, e) = (ux * wy - uy * wx) + (ux * vy - uy * vx)
      /\ Orientation(c, e, a) = vy * wx - vx * wy
      /\ Orientation(c, e, b) = (vy * wx - vx * wy) - (ux * vy - uy * vx)
  <2>1. /\ Orientation(a, b, c) = ux * wy - uy * wx
        /\ Orientation(a, b, e) = ux * (wy + vy) - uy * (wx + vx)
        /\ Orientation(c, e, a) = vx * (-wy) - vy * (-wx)
        /\ Orientation(c, e, b) = vx * (uy - wy) - vy * (ux - wx)
    BY <1>6, Zenon DEF Orientation
  <2>2. QED
    <3> HIDE DEF ux, uy, vx, vy, wx, wy
    <3>1. QED
      BY <2>1, <1>2
<1>7. \/ /\ Opposite(Orientation(a, b, c), Orientation(a, b, e))
         /\ Opposite(Orientation(c, e, a), Orientation(c, e, b))
      \/ Orientation(a, b, c) = 0 /\ Within(wx, ux) /\ Within(wy, uy)
      \/ Orientation(a, b, e) = 0 /\ Within(wx + vx, ux) /\ Within(wy + vy, uy)
      \/ Orientation(c, e, a) = 0 /\ Within(-wx, vx) /\ Within(-wy, vy)
      \/ Orientation(c, e, b) = 0 /\ Within(ux - wx, vx) /\ Within(uy - wy, vy)
  <2> HIDE DEF ux, uy, vx, vy, wx, wy
  <2>1. CrossOrTouch(ux, uy, vx, vy, wx, wy)
    BY <1>2, <1>3, <1>4, MeetingVectors, Zenon
  <2>2. QED
    BY <2>1, <1>5, Zenon DEF CrossOrTouch
<1>8. CASE Orientation(a, b, c) = 0 /\ Within(wx, ux) /\ Within(wy, uy)
  BY <1>8, OnSegmentWithin DEF SegmentsIntersect
<1>9. CASE Orientation(a, b, e) = 0 /\ Within(wx + vx, ux) /\ Within(wy + vy, uy)
  BY <1>9, <1>6, OnSegmentWithin DEF SegmentsIntersect
<1>10. CASE Orientation(c, e, a) = 0 /\ Within(-wx, vx) /\ Within(-wy, vy)
  BY <1>10, <1>6, OnSegmentWithin DEF SegmentsIntersect
<1>11. CASE Orientation(c, e, b) = 0 /\ Within(ux - wx, vx) /\ Within(uy - wy, vy)
  BY <1>11, <1>6, OnSegmentWithin DEF SegmentsIntersect
<1>12. QED
  BY <1>7, <1>8, <1>9, <1>10, <1>11 DEF SegmentsIntersect

\* An edge and the next one have only their common point in common, or one end is on the
\* other edge and the three points are on one line.
LEMMA MeetingNeighbours ==
  ASSUME NEW a \in Point, NEW b \in Point, NEW e \in Point, a # b,
         NEW p \in MeetAt(a, b, b, e)
  PROVE  \/ p[2] = p[1] /\ p[3] = 0
         \/ Orientation(a, b, e) = 0 /\ (OnSegment(e, a, b) \/ OnSegment(a, b, e))
<1> DEFINE ux == b[1] - a[1]
           uy == b[2] - a[2]
           vx == e[1] - b[1]
           vy == e[2] - b[2]
<1>1. /\ a[1] \in Int /\ a[2] \in Int /\ b[1] \in Int /\ b[2] \in Int
      /\ e[1] \in Int /\ e[2] \in Int
  BY Coordinates
<1>2. ux \in Int /\ uy \in Int /\ vx \in Int /\ vy \in Int
  BY <1>1
<1>3. ux # 0 \/ uy # 0
  <2>1. a = <<a[1], a[2]>> /\ b = <<b[1], b[2]>>
    BY Coordinates
  <2>2. a[1] # b[1] \/ a[2] # b[2]
    BY <2>1, Zenon
  <2>3. QED
    BY <2>2, <1>1
<1>4. /\ p[1] \in Nat \ {0} /\ p[2] \in 0 .. p[1] /\ p[3] \in 0 .. p[1]
      /\ Along(p[1], p[2], p[3], ux, vx, ux)
      /\ Along(p[1], p[2], p[3], uy, vy, uy)
  BY MeetingPoint
<1>5. /\ e[1] - a[1] = ux + vx /\ e[2] - a[2] = uy + vy
      /\ a[1] - b[1] = -ux /\ a[2] - b[2] = -uy
  BY <1>1
<1>6. /\ Orientation(a, b, e) = ux * vy - uy * vx
      /\ Orientation(b, e, a) = ux * vy - uy * vx
  <2>1. /\ Orientation(a, b, e) = ux * (uy + vy) - uy * (ux + vx)
        /\ Orientation(b, e, a) = vx * (-uy) - vy * (-ux)
    BY <1>5, Zenon DEF Orientation
  <2>2. QED
    <3> HIDE DEF ux, uy, vx, vy
    <3>1. QED
      BY <2>1, <1>2
<1>7. \/ p[2] = p[1] /\ p[3] = 0
      \/ Spike(ux, uy, vx, vy)
  BY <1>2, <1>3, <1>4, SpikeVectors, Zenon
<1>8. CASE /\ ux * vy - uy * vx = 0
           /\ Within(ux + vx, ux) /\ Within(uy + vy, uy)
  <2>1. OnSegment(e, a, b)
    BY <1>5, <1>6, <1>8, OnSegmentWithin
  <2>2. QED
    BY <2>1, <1>6, <1>8
<1>9. CASE /\ ux * vy - uy * vx = 0
           /\ Within(-ux, vx) /\ Within(-uy, vy)
  <2>1. OnSegment(a, b, e)
    BY <1>5, <1>6, <1>9, OnSegmentWithin
  <2>2. QED
    BY <2>1, <1>6, <1>9
<1>10. QED
  BY <1>7, <1>8, <1>9, Zenon DEF Spike

\* Which of two edges comes first is the same to both.
LEMMA SegmentsSwap ==
  ASSUME NEW a, NEW b, NEW c, NEW e, SegmentsIntersect(a, b, c, e)
  PROVE  SegmentsIntersect(c, e, a, b)
BY DEF SegmentsIntersect

LEMMA MeetSwap ==
  ASSUME NEW a \in Point, NEW b \in Point, NEW c \in Point, NEW e \in Point,
         NEW p \in MeetAt(a, b, c, e)
  PROVE  /\ <<p[1], p[3], p[2]>> \in MeetAt(c, e, a, b)
         /\ p = <<p[1], p[2], p[3]>>
<1> DEFINE q == <<p[1], p[3], p[2]>>
<1>1. /\ q \in Denominators \X (0..2 * Grid * Grid) \X (0..2 * Grid * Grid)
      /\ p = <<p[1], p[2], p[3]>>
  BY DEF MeetAt
<1>2. \A axis \in {1, 2} :
        q[1] * c[axis] + q[2] * (e[axis] - c[axis])
          = q[1] * a[axis] + q[3] * (b[axis] - a[axis])
  BY DEF MeetAt
<1>3. q[2] <= q[1] /\ q[3] <= q[1]
  BY DEF MeetAt
<1>4. QED
  BY <1>1, <1>2, <1>3, Zenon DEF MeetAt

LEMMA Rotation ==
  ASSUME NEW a \in Point, NEW b \in Point, NEW c \in Point
  PROVE  Orientation(a, b, c) = Orientation(b, c, a)
<1> DEFINE ax == a[1]
           ay == a[2]
           bx == b[1]
           by == b[2]
           cx == c[1]
           cy == c[2]
<1>1. /\ ax \in Int /\ ay \in Int /\ bx \in Int /\ by \in Int
      /\ cx \in Int /\ cy \in Int
  BY Coordinates
<1>2. /\ Orientation(a, b, c) = (bx - ax) * (cy - ay) - (by - ay) * (cx - ax)
      /\ Orientation(b, c, a) = (cx - bx) * (ay - by) - (cy - by) * (ax - bx)
  BY Zenon DEF Orientation
<1> HIDE DEF ax, ay, bx, by, cx, cy
<1>3. QED
  BY <1>1, <1>2

\* A triangle whose corners are on one line has no area.
LEMMA FlatTriangle ==
  ASSUME NEW points \in [1 .. 3 -> Point], Orientation(points[1], points[2], points[3]) = 0
  PROVE  TwiceArea(points) = 0
<1> DEFINE x(i) == points[i][1]
           y(i) == points[i][2]
           Edge(k) == x(k) * y(Follow(k, 3)) - x(Follow(k, 3)) * y(k)
           Body(f, k) == IF k = 0 THEN 0
                         ELSE f[k - 1] + points[k][1] * points[Follow(k, 3)][2]
                                       - points[Follow(k, 3)][1] * points[k][2]
           f == CHOOSE f : f = [k \in 0 .. 3 |-> Body(f, k)]
           g == [k \in 0 .. 3 |-> IF k = 0 THEN 0
                                  ELSE IF k = 1 THEN Edge(1)
                                  ELSE IF k = 2 THEN Edge(1) + Edge(2)
                                  ELSE Edge(1) + Edge(2) + Edge(3)]
<1>1. \A i \in 1 .. 3 : x(i) \in Int /\ y(i) \in Int
  BY Coordinates
<1>2. Follow(1, 3) = 2 /\ Follow(2, 3) = 3 /\ Follow(3, 3) = 1
  BY DEF Follow
<1>3. Edge(1) \in Int /\ Edge(2) \in Int /\ Edge(3) \in Int
  BY <1>1, <1>2
<1>4. g = [k \in 0 .. 3 |-> Body(g, k)]
  <2>1. g[0] = 0 /\ g[1] = Edge(1) /\ g[2] = Edge(1) + Edge(2)
        /\ g[3] = Edge(1) + Edge(2) + Edge(3)
    OBVIOUS
  <2> HIDE DEF g
  <2>2. Body(g, 1) = Edge(1)
    BY <2>1, <1>1, <1>2
  <2>3. Body(g, 2) = Edge(1) + Edge(2)
    BY <2>1, <1>1, <1>2
  <2>4. Body(g, 3) = Edge(1) + Edge(2) + Edge(3)
    BY <2>1, <1>1, <1>2
  <2> USE DEF g
  <2> HIDE DEF Body, Edge
  <2>5. Body(g, 0) = 0
    BY DEF Body
  <2>6. \A k \in 0 .. 3 : Body(g, k) = IF k = 0 THEN 0
                                  ELSE IF k = 1 THEN Edge(1)
                                  ELSE IF k = 2 THEN Edge(1) + Edge(2)
                                  ELSE Edge(1) + Edge(2) + Edge(3)
    <3> HIDE DEF g
    <3>1. QED
      BY <2>2, <2>3, <2>4, <2>5
  <2>7. QED
    BY <2>6, Zenon
<1>5. f = [k \in 0 .. 3 |-> Body(f, k)]
  BY <1>4, Zenon
<1>6. f[3] = Edge(1) + Edge(2) + Edge(3)
  <2> HIDE DEF f
  <2>1. /\ f[0] = Body(f, 0) /\ f[1] = Body(f, 1)
        /\ f[2] = Body(f, 2) /\ f[3] = Body(f, 3)
    <3> HIDE DEF Body
    <3>1. QED
      BY <1>5
  <2>2. f[0] = 0
    BY <2>1
  <2>3. f[1] = Edge(1)
    BY <2>1, <2>2, <1>1, <1>2
  <2>4. f[2] = Edge(1) + Edge(2)
    BY <2>1, <2>3, <1>1, <1>2
  <2>5. QED
    BY <2>1, <2>4, <1>1, <1>2
<1>7. Edge(1) + Edge(2) + Edge(3) = 0
  <2>1. Orientation(points[1], points[2], points[3])
          = (x(2) - x(1)) * (y(3) - y(1)) - (y(2) - y(1)) * (x(3) - x(1))
    BY DEF Orientation
  <2>2. /\ Edge(1) = x(1) * y(2) - x(2) * y(1) /\ Edge(2) = x(2) * y(3) - x(3) * y(2)
        /\ Edge(3) = x(3) * y(1) - x(1) * y(3)
    BY <1>2
  <2>3. /\ x(1) \in Int /\ x(2) \in Int /\ x(3) \in Int
        /\ y(1) \in Int /\ y(2) \in Int /\ y(3) \in Int
    BY <1>1
  <2> HIDE DEF x, y, Edge
  <2>4. (x(2) - x(1)) * (y(3) - y(1)) - (y(2) - y(1)) * (x(3) - x(1))
          = (x(1) * y(2) - x(2) * y(1)) + (x(2) * y(3) - x(3) * y(2))
              + (x(3) * y(1) - x(1) * y(3))
    BY <2>3
  <2>5. QED
    BY <2>1, <2>2, <2>4
<1>8. Len(points) = 3
  OBVIOUS
<1>9. TwiceArea(points) = IF f[3] < 0 THEN -f[3] ELSE f[3]
  <2> DEFINE Sum(n) ==
        CHOOSE sum : sum = [k \in 0 .. n |->
          IF k = 0 THEN 0
          ELSE sum[k - 1] + points[k][1] * points[Follow(k, n)][2]
                          - points[Follow(k, n)][1] * points[k][2]]
             Area(n) == IF Sum(n)[n] < 0 THEN -Sum(n)[n] ELSE Sum(n)[n]
  <2>1. TwiceArea(points) = Area(Len(points))
    BY Zenon DEF TwiceArea
  <2>2. Area(Len(points)) = Area(3)
    <3> HIDE DEF Area
    <3>1. QED
      BY <1>8, Zenon
  <2>3. f = Sum(3)
    BY Zenon
  <2>4. QED
    <3> HIDE DEF f, Sum
    <3>1. QED
      BY <2>1, <2>2, <2>3
<1>10. QED
  <2> HIDE DEF f, Edge
  <2>1. f[3] = 0
    BY <1>6, <1>7
  <2>2. QED
    BY <2>1, <1>9

-----------------------------------------------------------------------------
(* ROI editor: polygons                                                    *)

\* Edges around a polygon with n corners.
LEMMA Neighbours ==
  ASSUME NEW n \in Nat \ (0 .. 2), NEW i \in 1 .. n
  PROVE  /\ Follow(i, n) \in 1 .. n /\ Follow(i, n) # i
         /\ \E h \in 1 .. n : Follow(h, n) = i
         /\ \A j \in 1 .. n : Follow(i, n) = Follow(j, n) => i = j
         /\ Follow(Follow(i, n), n) # i
         /\ n > 3 => /\ Follow(Follow(Follow(i, n), n), n) # i
<1>1. CASE i = 1
  BY <1>1 DEF Follow
<1>2. CASE i # 1
  <2>1. i - 1 \in 1 .. n /\ Follow(i - 1, n) = i
    BY <1>2 DEF Follow
  <2>2. /\ Follow(i, n) \in 1 .. n /\ Follow(i, n) # i
        /\ \A j \in 1 .. n : Follow(i, n) = Follow(j, n) => i = j
        /\ Follow(Follow(i, n), n) # i
        /\ n > 3 => /\ Follow(Follow(Follow(i, n), n), n) # i
    BY <1>2 DEF Follow
  <2>3. QED
    BY <2>1, <2>2
<1>3. QED
  BY <1>1, <1>2

\* What the validator looked at: corners differ, and edges that are not neighbours are apart.
LEMMA ValidEdges ==
  ASSUME NEW n \in Nat \ (0 .. 2), NEW points \in [1 .. n -> Point], ValidPolygon(points)
  PROVE  /\ \A i, j \in 1 .. n : i # j => points[i] # points[j]
         /\ TwiceArea(points) >= MinArea
         /\ \A i, j \in 1 .. n :
              i # j /\ Follow(i, n) # j /\ Follow(j, n) # i =>
                ~SegmentsIntersect(points[i], points[Follow(i, n)],
                                   points[j], points[Follow(j, n)])
<1>1. Len(points) = n
  OBVIOUS
<1>2. /\ \A i, j \in 1 .. n : i < j => points[i] # points[j]
      /\ TwiceArea(points) >= MinArea
      /\ \A i, j \in 1 .. n :
           i < j /\ Follow(i, n) # j /\ Follow(j, n) # i =>
             ~SegmentsIntersect(points[i], points[Follow(i, n)],
                                points[j], points[Follow(j, n)])
  BY <1>1, Zenon DEF ValidPolygon
<1>3. ASSUME NEW i \in 1 .. n, NEW j \in 1 .. n, i # j
      PROVE  i < j \/ j < i
  BY <1>3
<1>4. ASSUME NEW i \in 1 .. n, NEW j \in 1 .. n, i # j, Follow(i, n) # j, Follow(j, n) # i,
             SegmentsIntersect(points[i], points[Follow(i, n)],
                               points[j], points[Follow(j, n)])
      PROVE  FALSE
  BY <1>2, <1>3, <1>4, SegmentsSwap, Zenon
<1>5. QED
  BY <1>2, <1>3, <1>4, Zenon

\* A valid polygon has no spike: in a triangle it would have no area, and elsewhere the edge
\* before or after it touches it.
LEMMA NeighboursMeetOnce ==
  ASSUME NEW n \in Nat \ (0 .. 2), NEW points \in [1 .. n -> Point], ValidPolygon(points),
         NEW i \in 1 .. n, NEW j \in 1 .. n, j = Follow(i, n),
         NEW p \in MeetAt(points[i], points[j], points[j], points[Follow(j, n)])
  PROVE  p[2] = p[1] /\ p[3] = 0
<1> DEFINE e == Follow(j, n)
<1>1. e \in 1 .. n /\ i # j /\ e # j /\ e # i
  BY Neighbours
<1>2. /\ points[i] \in Point /\ points[j] \in Point /\ points[e] \in Point
      /\ points[i] # points[j]
  BY <1>1, ValidEdges
<1> SUFFICES ASSUME Orientation(points[i], points[j], points[e]) = 0,
                    \/ OnSegment(points[e], points[i], points[j])
                    \/ OnSegment(points[i], points[j], points[e])
             PROVE  FALSE
  BY <1>2, MeetingNeighbours, Zenon
<1>3. CASE n = 3
  <2>1. /\ i \in 1 .. 3 /\ j = (IF i = 3 THEN 1 ELSE i + 1)
        /\ e = (IF j = 3 THEN 1 ELSE j + 1)
    BY <1>3 DEF Follow
  <2>2. /\ Orientation(points[1], points[2], points[3])
             = Orientation(points[2], points[3], points[1])
        /\ Orientation(points[2], points[3], points[1])
             = Orientation(points[3], points[1], points[2])
    BY <1>3, Rotation
  <2>3. Orientation(points[1], points[2], points[3]) = 0
    <3>1. CASE i = 1
      BY <2>1, <2>2, <3>1
    <3>2. CASE i = 2
      BY <2>1, <2>2, <3>2
    <3>3. CASE i = 3
      BY <2>1, <2>2, <3>3
    <3>4. QED
      BY <2>1, <3>1, <3>2, <3>3
  <2>4. TwiceArea(points) = 0
    BY <2>3, <1>3, FlatTriangle
  <2>5. TwiceArea(points) >= MinArea
    BY ValidEdges, Zenon
  <2>6. QED
    BY <2>4, <2>5, RoiEditorAssumption
<1>4. CASE n > 3 /\ OnSegment(points[e], points[i], points[j])
  <2>1. Follow(e, n) # i /\ Follow(i, n) # e
    BY <1>4, <1>1, Neighbours
  <2>2. ~SegmentsIntersect(points[i], points[j], points[e], points[Follow(e, n)])
    BY <2>1, <1>1, ValidEdges
  <2>3. QED
    BY <2>2, <1>4 DEF SegmentsIntersect
<1>5. CASE n > 3 /\ OnSegment(points[i], points[j], points[e])
  <2>1. PICK h \in 1 .. n : Follow(h, n) = i
    BY Neighbours
  <2>2. h # j /\ Follow(h, n) # j /\ Follow(j, n) # h
    <3>1. Follow(Follow(h, n), n) # h
      BY Neighbours
    <3>2. Follow(Follow(Follow(h, n), n), n) # h
      BY <1>5, Neighbours
    <3>3. QED
      BY <3>1, <3>2, <2>1, <1>1
  <2>3. ~SegmentsIntersect(points[h], points[i], points[j], points[e])
    BY <2>1, <2>2, ValidEdges
  <2>4. QED
    BY <2>3, <1>5 DEF SegmentsIntersect
<1>6. n = 3 \/ n > 3
  OBVIOUS
<1>7. QED
  BY <1>3, <1>4, <1>5, <1>6

\* _validate_polygon accepts simple polygons only, with any number of corners on any grid.
THEOREM ValidPolygonsAreSimple ==
  ASSUME NEW points \in Polygons, ValidPolygon(points)
  PROVE  SimplePolygon(points)
<1>1. PICK n \in Corners : points \in [1 .. n -> Point]
  BY DEF Polygons
<1>2. n \in Nat \ (0 .. 2)
  BY RoiEditorAssumption
<1>3. Len(points) = n
  BY <1>1, <1>2
<1> DEFINE Simple(m) ==
      \A i, j \in 1 .. m :
        i # j =>
          LET meet == MeetAt(points[i], points[Follow(i, m)], points[j], points[Follow(j, m)])
          IN IF Follow(i, m) = j THEN \A p \in meet : p[2] = p[1] /\ p[3] = 0
             ELSE IF Follow(j, m) = i THEN \A p \in meet : p[2] = 0 /\ p[3] = p[1]
             ELSE meet = {}
<1> SUFFICES Simple(n)
  <2>1. SimplePolygon(points) <=> Simple(Len(points))
    BY Zenon DEF SimplePolygon
  <2> HIDE DEF Simple
  <2>2. QED
    BY <2>1, <1>3
<1> SUFFICES ASSUME NEW i \in 1 .. n, NEW j \in 1 .. n, i # j
             PROVE  LET meet == MeetAt(points[i], points[Follow(i, n)],
                                       points[j], points[Follow(j, n)])
                    IN IF Follow(i, n) = j THEN \A p \in meet : p[2] = p[1] /\ p[3] = 0
                       ELSE IF Follow(j, n) = i
                         THEN \A p \in meet : p[2] = 0 /\ p[3] = p[1]
                         ELSE meet = {}
  BY Zenon
<1>4. /\ Follow(i, n) \in 1 .. n /\ Follow(j, n) \in 1 .. n
      /\ Follow(i, n) # i
  BY <1>2, Neighbours
<1>5. /\ points[i] \in Point /\ points[j] \in Point
      /\ points[Follow(i, n)] \in Point /\ points[Follow(j, n)] \in Point
      /\ points[i] # points[Follow(i, n)]
  BY <1>1, <1>2, <1>4, ValidEdges
<1>6. CASE Follow(i, n) = j
  BY <1>1, <1>2, <1>6, NeighboursMeetOnce
<1>7. CASE Follow(i, n) # j /\ Follow(j, n) = i
  <2>1. ASSUME NEW p \in MeetAt(points[i], points[Follow(i, n)], points[j], points[i])
        PROVE  p[2] = 0 /\ p[3] = p[1]
    <3>1. <<p[1], p[3], p[2]>> \in
            MeetAt(points[j], points[i], points[i], points[Follow(i, n)])
      BY <1>5, MeetSwap
    <3> DEFINE q == <<p[1], p[3], p[2]>>
    <3>2. q[2] = q[1] /\ q[3] = 0
      <4> HIDE DEF q
      <4>1. q \in MeetAt(points[j], points[i], points[i], points[Follow(i, n)])
        BY <3>1 DEF q
      <4>2. QED
        BY <4>1, <1>1, <1>2, <1>7, NeighboursMeetOnce
    <3>3. QED
      BY <3>2
  <2>2. QED
    BY <2>1, <1>7
<1>8. CASE Follow(i, n) # j /\ Follow(j, n) # i
  <2>1. ~SegmentsIntersect(points[i], points[Follow(i, n)], points[j], points[Follow(j, n)])
    BY <1>1, <1>2, <1>8, ValidEdges
  <2>2. MeetAt(points[i], points[Follow(i, n)], points[j], points[Follow(j, n)]) = {}
    BY <2>1, <1>5, MeetingSegments
  <2>3. QED
    BY <2>2, <1>8
<1>9. QED
  BY <1>6, <1>7, <1>8

-----------------------------------------------------------------------------
(* ROI editor: plans                                                       *)

\* A request without a polygon cannot pass.
LEMMA NothingIsNoPolygon == ~ValidPolygon(Absent)
<1> DEFINE Sum(n) ==
      CHOOSE sum : sum = [k \in 0 .. n |->
        IF k = 0 THEN 0
        ELSE sum[k - 1] + Absent[k][1] * Absent[Follow(k, n)][2]
                        - Absent[Follow(k, n)][1] * Absent[k][2]]
           Area(n) == IF Sum(n)[n] < 0 THEN -Sum(n)[n] ELSE Sum(n)[n]
<1>1. TwiceArea(Absent) = Area(Len(Absent))
  BY Zenon DEF TwiceArea
<1>2. Len(Absent) = 0
  BY DEF Absent
<1>3. Area(Len(Absent)) = Area(0)
  <2> HIDE DEF Area
  <2>1. QED
    BY <1>2, Zenon
<1>4. Sum(0)[0] = 0
  <2> DEFINE Body(f, k) == IF k = 0 THEN 0
        ELSE f[k - 1] + Absent[k][1] * Absent[Follow(k, 0)][2]
                      - Absent[Follow(k, 0)][1] * Absent[k][2]
             g == [k \in 0 .. 0 |-> 0]
             f == CHOOSE f : f = [k \in 0 .. 0 |-> Body(f, k)]
  <2>1. \A k \in 0 .. 0 : Body(g, k) = 0
    OBVIOUS
  <2>2. g = [k \in 0 .. 0 |-> Body(g, k)]
    <3> HIDE DEF Body
    <3>1. QED
      BY <2>1
  <2>3. f = [k \in 0 .. 0 |-> Body(f, k)]
    <3> HIDE DEF Body, g
    <3>1. QED
      BY <2>2, Zenon
  <2>4. f = Sum(0)
    BY Zenon
  <2>5. f[0] = Body(f, 0)
    <3> HIDE DEF Body, f
    <3>1. QED
      BY <2>3
  <2>6. f[0] = 0
    <3> HIDE DEF f
    <3>1. QED
      BY <2>5
  <2>7. QED
    BY <2>4, <2>6, Zenon
<1>5. TwiceArea(Absent) = 0
  <2> HIDE DEF Sum
  <2>1. QED
    BY <1>1, <1>3, <1>4
<1>6. ~(0 >= MinArea)
  BY RoiEditorAssumption
<1>7. QED
  BY <1>5, <1>6, Zenon DEF ValidPolygon

\* What is written was validated, and so was what is on its way.
EditorInv ==
  /\ RoiEditorTypeOK
  /\ drawn.points \in Polygons \cup {Absent}
  /\ editing = "temporary" => ValidPolygon(drawn.points) /\ ClipHasFrames(drawn.start, drawn.end)
  /\ PlansAreValidated
  /\ planFile # Absent => planFile.points \in Polygons

LEMMA EditorInitHolds ==
  \/ RoiEditorInit
  \/ editing = "request" /\ planFile = Absent /\ drawn = NoRequest
  => EditorInv
BY DEF RoiEditorInit, EditorInv, RoiEditorTypeOK, PlansAreValidated, NoRequest

LEMMA EditorNextHolds == EditorInv /\ [RoiEditorNext]_editorVars => EditorInv'
<1> SUFFICES ASSUME EditorInv, [RoiEditorNext]_editorVars PROVE EditorInv'
  OBVIOUS
<1>1. CASE RejectPlan
  BY <1>1 DEF RejectPlan, EditorInv, RoiEditorTypeOK, PlansAreValidated, NoRequest
<1>2. CASE WriteTemporary
  BY <1>2 DEF WriteTemporary, EditorInv, RoiEditorTypeOK, PlansAreValidated
<1>3. CASE ReplacePlan
  <2>1. ValidPolygon(drawn.points) /\ ClipHasFrames(drawn.start, drawn.end)
    BY <1>3 DEF ReplacePlan, EditorInv
  <2>2. /\ planFile'.points = drawn.points
        /\ planFile'.frames = <<FrameAt(drawn.start), FrameAt(drawn.end)>>
        /\ editing' = "written" /\ UNCHANGED drawn
    BY <1>3 DEF ReplacePlan
  <2>3. PlansAreValidated'
    BY <2>1, <2>2 DEF PlansAreValidated, ClipHasFrames
  <2>4. drawn.points \in Polygons
    BY <2>1, NothingIsNoPolygon DEF EditorInv
  <2>5. QED
    BY <2>2, <2>3, <2>4 DEF EditorInv, RoiEditorTypeOK
<1>4. CASE LosePlan
  BY <1>4 DEF LosePlan, EditorInv, RoiEditorTypeOK, PlansAreValidated, NoRequest
<1>5. CASE UNCHANGED editorVars
  BY <1>5 DEF editorVars, EditorInv, RoiEditorTypeOK, PlansAreValidated
<1>6. QED
  BY <1>1, <1>2, <1>3, <1>4, <1>5 DEF RoiEditorNext

\* A validated polygon is simple.
LEMMA EditorMeans == EditorInv => PlansAreSound
BY ValidPolygonsAreSimple DEF EditorInv, PlansAreValidated, PlansAreSound

-----------------------------------------------------------------------------
(* The services together                                                   *)

WebInv == Inv /\ AdminInv /\ ReviewInv /\ QaInv /\ EditorInv /\ StoreInv

\* Whichever service runs, the others keep what they have.
LEMMA WebNextHolds == WebInv /\ [WebNext]_webVars => WebInv'
<1> SUFFICES ASSUME WebInv, [WebNext]_webVars PROVE WebInv'
  OBVIOUS
<1>1. Inv /\ AdminInv /\ ReviewInv /\ QaInv /\ EditorInv /\ StoreInv
  BY DEF WebInv
<1>2. /\ [Next]_vars /\ [AdminStateNext]_adminVars /\ [ManualReviewNext]_reviewVars
      /\ [PpeHumanQaNext]_qaVars /\ [RoiEditorNext]_editorVars /\ [SelectionStoreNext]_storeVars
  <2>1. ASSUME UNCHANGED webVars
        PROVE  UNCHANGED <<vars, adminVars, reviewVars, qaVars, editorVars, storeVars>>
    BY <2>1 DEF webVars
  <2>2. QED
    BY <2>1 DEF WebNext, OnlyRenders, OnlySettings, OnlyReviews, OnlyQa, OnlyEditor, OnlySelector
<1>3. Inv' /\ AdminInv' /\ ReviewInv'
  BY <1>1, <1>2, StepHolds, AdminNextHolds, ReviewNextHolds
<1>4. QaInv' /\ EditorInv' /\ StoreInv'
  BY <1>1, <1>2, QaNextHolds, EditorNextHolds, StoreNextHolds
<1>5. QED
  BY <1>3, <1>4 DEF WebInv

LEMMA WebInvHolds == WebSpec => []WebInv
<1>1. WebInit => WebInv
  BY InitHolds, AdminInitHolds, ReviewInitHolds, QaInitHolds, EditorInitHolds, StoreInitHolds
     DEF WebInit, WebInv, Resting
<1>2. QED
  BY <1>1, WebNextHolds, PTL DEF WebSpec

\* The files, tables and threads of all services have their types, and each lock its owner.
THEOREM WebTypesAreCorrect == WebSpec => []WebTypeOK
<1>1. WebInv => WebTypeOK
  BY AdminMeans, QaMeans, StoreMeans DEF WebInv, WebTypeOK, Inv, ReviewInv, EditorInv
<1>2. QED
  BY <1>1, WebInvHolds, PTL

\* In whatever order settings calls, starts, stops and crashes come, what is saved fits the
\* pipeline, a pipeline that runs has the sources of its config, and one that nobody tracks is
\* on its way out or was orphaned by a crash (JsonStore, PipelineManager).
THEOREM SettingsAreSafe == WebSpec => []AdminStateSafe
<1>1. WebInv => AdminStateSafe
  BY AdminMeans DEF WebInv
<1>2. QED
  BY <1>1, WebInvHolds, PTL

\* No put overwrites a decision that its reviewer has not seen, what is committed can be read
\* back, and the files catch up with the database, for any number of reviewers (put,
\* _export_jsonl).
THEOREM ReviewsAreSafe == WebSpec => []ReviewsSafe
<1>1. WebInv => ReviewsSafe
  BY DEF WebInv, ReviewInv, ReviewsSafe, ExportCatchesUp, ExportPending
<1>2. QED
  BY <1>1, WebInvHolds, PTL

\* No QA decision rests on an event that its reviewer did not see, and the audit reads back,
\* for any number of threads, tiles and events and in spite of clocks that go back (record,
\* _verify_events).
THEOREM QaIsSafe == WebSpec => []QaSafe
<1>1. WebInv => QaSafe
  BY QaMeans DEF WebInv
<1>2. QED
  BY <1>1, WebInvHolds, PTL

\* A selection that anybody sees has its queue, the latest files agree unless a save is under
\* way or was torn, and the planner of each saved item accepts its policy and finds its frames
\* in the source, for every set of requests and catalogs (SelectionStore.save).
THEOREM SavedSelectionsAreSafe == WebSpec => []SelectionsSafe
<1>1. WebInv => SelectionsSafe
  BY StoreMeans DEF WebInv
<1>2. QED
  BY <1>1, WebInvHolds, PTL

\* Every plan that can be read back names frames of the video and holds a polygon whose edges
\* meet only where one ends and the next begins (create_plan, _validate_polygon).
THEOREM WrittenPlansAreSound == WebSpec => []PlansAreSound
<1>1. WebInv => PlansAreSound
  BY EditorMeans DEF WebInv
<1>2. QED
  BY <1>1, WebInvHolds, PTL

\* The render jobs are as safe beside the other services as alone.
THEOREM RenderJobsAreSafe == WebSpec => []JobsAreSafe
<1>1. WebInv => JobsAreSafe
  BY DEF WebInv, Inv, JobsAreSafe
<1>2. QED
  BY <1>1, WebInvHolds, PTL

\* The files of a review never go back, in whatever order the puts export (_export_jsonl).
LEMMA ExportsGoForward ==
  ASSUME ReviewInv, [ManualReviewNext]_reviewVars
  PROVE  [/\ exported'.decisions >= exported.decisions
          /\ exported'.events >= exported.events]_reviewVars
<1> DEFINE Forward ==
      exported'.decisions >= exported.decisions /\ exported'.events >= exported.events
<1>1. CASE UNCHANGED exported
  BY <1>1 DEF ReviewInv, ReviewShapes
<1>2. ASSUME NEW r \in Reviewer, WriteDecisions(r) \/ WriteEvents(r) PROVE Forward
  <2>1. put[r].step \in {"exporting", "half"} /\ put[r] \in PutRequests
    BY <1>2 DEF WriteDecisions, WriteEvents, Stands, ReviewInv, ReviewShapes
  <2>2. exported.decisions <= put[r].rows /\ exported.events <= put[r].rows
    BY <2>1 DEF ReviewInv, RowsHeld, PutExporting
  <2>3. put[r].rows \in Nat
    BY <2>1 DEF PutRequests
  <2>4. exported \in [decisions : Nat, events : Nat]
    BY DEF ReviewInv, ReviewShapes
  <2>5. CASE WriteDecisions(r)
    BY <2>2, <2>3, <2>4, <2>5 DEF WriteDecisions
  <2>6. CASE WriteEvents(r)
    BY <2>2, <2>3, <2>4, <2>6 DEF WriteEvents
  <2>7. QED
    BY <1>2, <2>5, <2>6
<1>3. QED
  BY <1>1, <1>2 DEF ManualReviewNext, PutStep, ReadDetail, LoadContext, Commit,
     LockExport, Snapshot, ExportFails, ReplaceIndex, CrashReview, reviewVars

\* No step of any service takes back what is final or derived: the exports of the review, a
\* complete QA, the catalog that a plan is bound to.
THEOREM WebStepsAreFinal == WebSpec => WebStepsHold
<1>1. ASSUME WebInv, [WebNext]_webVars
      PROVE  /\ [ManualReviewNext]_reviewVars /\ [PpeHumanQaNext]_qaVars
             /\ [SelectionStoreNext]_storeVars
  <2>1. ASSUME UNCHANGED webVars PROVE UNCHANGED <<reviewVars, qaVars, storeVars>>
    BY <2>1 DEF webVars
  <2>2. QED
    BY <1>1, <2>1
       DEF WebNext, OnlyRenders, OnlySettings, OnlyReviews, OnlyQa, OnlyEditor, OnlySelector
<1>2. ASSUME WebInv, [WebNext]_webVars
      PROVE  [/\ exported'.decisions >= exported.decisions
              /\ exported'.events >= exported.events]_reviewVars
  BY <1>1, <1>2, ExportsGoForward DEF WebInv
<1>3. ASSUME WebInv, [WebNext]_webVars
      PROVE  [CompleteIn(qaAudit) => qaAudit' = qaAudit]_qaVars
  BY <1>1, <1>3, CompletionStays
<1>4. ASSUME WebInv, [WebNext]_webVars
      PROVE  [\A plan \in plans' \ plans : plan.frames = onDisk.frames]_storeVars
  BY <1>1, <1>4, PlansMatch
<1>5. QED
  BY <1>2, <1>3, <1>4, WebInvHolds, PTL
     DEF WebSpec, WebStepsHold, ExportNotOlder, CompletionIsFinal, PlansMatchCatalog
=============================================================================
