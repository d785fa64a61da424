--------------------------- MODULE SelectionStore ---------------------------
(***************************************************************************)
(* SelectionStore of video_selector/app.py and the planners that read what *)
(* it saves: build_execution_plan of process_selection.py for fence items  *)
(* and build_plan of process_ppe_selection.py for PPE items.               *)
(*                                                                         *)
(* Requests run in a thread pool; a save validates against the catalog     *)
(* that was loaded when the service started and writes four files one      *)
(* after the other under a lock.  Times are ticks, TicksPerFrame of them   *)
(* to a frame; a container may be longer than its frames.  One video per   *)
(* request: the checks of a save are per video.                            *)
(***************************************************************************)
EXTENDS Naturals, FiniteSets

CONSTANTS
  Client,           \* threads that serve requests
  Nobody,           \* the lock is free
  Request,          \* what clients may ask for, see Requests
  Catalog,          \* contents that the catalog file takes, see Catalogs
  TicksPerFrame,
  ClipTolerance,    \* ticks of max(0.05 s, one frame)
  MaxSaves,         \* bound: accepted saves
  MaxStoreFaults,   \* bound: killed services and failing writes
  MaxCatalogs       \* bound: replacements of the catalog file

Requests ==
  [category : {"fence", "ppe"}, start : Nat, end : Nat, rois : {0, 1},
   pose : {"absent", "off", "on"}, crossing : {"absent", "off", "on"},
   forklift : {"absent", "off", "on"}]

\* duration may exceed the frames.
Catalogs == [revision : Nat, frames : Nat \ {0}, duration : Nat]

ASSUME SelectionStoreAssumption ==
  /\ Nobody \notin Client
  /\ Request \subseteq Requests /\ Catalog \subseteq Catalogs
  /\ {TicksPerFrame, ClipTolerance, MaxSaves} \subseteq Nat \ {0}
  /\ {MaxStoreFaults, MaxCatalogs} \subseteq Nat

VARIABLES
  client,           \* per thread: step, id and item of its save
  storeLock,        \* owner of SelectionStore.lock
  issued,           \* number of selection ids given out
  queues,           \* id of a file in queues/ |-> item
  selections,       \* ids of the files in selections/
  latest,           \* id in latest.json, 0 if absent
  latestQueue,      \* id in latest-queue.json, 0 if absent
  torn,             \* a save ended in the middle and none was completed since
  loaded,           \* the catalog in memory
  onDisk,           \* the catalog file
  plans,            \* plans that build_execution_plan returned
  storeFaults, catalogChanges

stored == <<queues, selections, latest, latestQueue>>
storeVars == <<client, storeLock, issued, stored, torn, loaded, onDisk, plans,
               storeFaults, catalogChanges>>

-----------------------------------------------------------------------------
(* What a save accepts and writes                                          *)

\* The validators of SelectionInput: the end is compared before it is clamped, and a
\* staged fence rule needs the pose.
Wellformed(r) ==
  /\ r.start < r.end
  /\ r.category = "fence" => r.forklift = "absent"
  /\ r.category = "ppe" => r.pose = "absent" /\ r.crossing = "absent"
  /\ ~(r.crossing = "on" /\ r.pose = "off")

\* The checks of save against the catalog.
Acceptable(r, catalog) ==
  /\ r.category = "fence" => r.rois > 0
  /\ r.end <= catalog.duration + ClipTolerance

\* Mutant: only the pose options ask for the pose module.
PoseOptionOnly(r) ==
  {IF r.category = "fence" THEN "person_roi" ELSE "ppe"}
  \cup (IF r.pose = "on" THEN {"pose"} ELSE {})
  \cup (IF r.forklift = "on" THEN {"forklift"} ELSE {})

RequestedModules(r) ==
  {IF r.category = "fence" THEN "person_roi" ELSE "ppe"}
  \cup (IF r.pose = "on" \/ r.crossing = "on" THEN {"pose"} ELSE {})
  \cup (IF r.forklift = "on" THEN {"forklift"} ELSE {})

AlertPolicy(r) ==
  CASE r.category = "fence" /\ r.crossing = "on" ->
         [rule |-> "staged", anchor |-> "mid_hip", poseRule |-> TRUE, crossingRule |-> TRUE,
          suppression |-> FALSE]
    [] r.category = "fence" /\ r.crossing # "on" /\ r.pose = "on" ->
         [rule |-> "ratio", anchor |-> "keypoints", poseRule |-> TRUE, crossingRule |-> FALSE,
          suppression |-> FALSE]
    [] r.category = "fence" /\ r.crossing # "on" /\ r.pose # "on" ->
         [rule |-> "inside", anchor |-> "bottom", poseRule |-> FALSE, crossingRule |-> FALSE,
          suppression |-> FALSE]
    [] r.category = "ppe" ->
         [rule |-> IF r.rois > 0 THEN "outside" ELSE "disabled", anchor |-> "bottom",
          poseRule |-> FALSE, crossingRule |-> FALSE, suppression |-> r.forklift = "on"]

Earlier(s, t) == IF s < t THEN s ELSE t

\* A queue item; the end is clamped to the duration of the container.
Item(r, catalog) ==
  [category |-> r.category, rois |-> r.rois,
   start |-> r.start, end |-> Earlier(r.end, catalog.duration),
   modules |-> RequestedModules(r), policy |-> AlertPolicy(r),
   revision |-> catalog.revision, frames |-> catalog.frames,
   duration |-> catalog.duration]

-----------------------------------------------------------------------------
(* What the planners accept                                                *)

\* _validate_fence_alert_policy and the comparison with the requested modules.
FencePolicyValid(item) ==
  LET p == item.policy
  IN  /\ p.crossingRule => p.poseRule
      /\ p.anchor = IF p.crossingRule THEN "mid_hip"
                    ELSE IF p.poseRule THEN "keypoints" ELSE "bottom"
      /\ p.rule = IF p.crossingRule THEN "staged"
                  ELSE IF p.poseRule THEN "ratio" ELSE "inside"
      /\ p.poseRule <=> "pose" \in item.modules

\* _validate_v2_alert_policy.
PpePolicyValid(item) ==
  /\ item.policy.rule = IF item.rois > 0 THEN "outside" ELSE "disabled"
  /\ item.policy.anchor = "bottom"

\* int(round(...)): ties go to the even frame.
RoundEven(t) ==
  LET f == t \div TicksPerFrame
      rest == 2 * (t % TicksPerFrame)
  IN  IF rest < TicksPerFrame \/ (rest = TicksPerFrame /\ f % 2 = 0) THEN f ELSE f + 1

\* _nearest_frame: ROUND_HALF_UP.
RoundUp(t) ==
  LET f == t \div TicksPerFrame
  IN  IF 2 * (t % TicksPerFrame) < TicksPerFrame THEN f ELSE f + 1

\* Mutant: the title and source comparisons are there, the metadata one is not.
RevisionOnly(item, catalog) == item.revision = catalog.revision

\* The revision and every field that the item copied from the catalog.
BoundToCatalog(item, catalog) ==
  /\ item.revision = catalog.revision
  /\ item.frames = catalog.frames
  /\ item.duration = catalog.duration

FencePlannable(item, catalog) ==
  /\ item.category = "fence"
  /\ BoundToCatalog(item, catalog)
  /\ FencePolicyValid(item)
  /\ item.start < item.end
  /\ RoundEven(item.end) <= item.frames
  /\ RoundEven(item.start) < RoundEven(item.end)

PpePlannable(item) ==
  /\ item.category = "ppe"
  /\ PpePolicyValid(item)
  /\ item.start < item.end
  /\ item.end <= item.duration + ClipTolerance

\* Mutant: the rounded frames are taken as they are.
Unclamped(item) == [first |-> RoundUp(item.start), last |-> RoundUp(item.end)]

\* The estimated frames of a PPE job, last is exclusive.
PpeFrames(item) ==
  LET end == Earlier(item.end, item.duration)
      first == Earlier(item.frames - 1, RoundUp(item.start))
      last == Earlier(item.frames, RoundUp(end))
  IN  [first |-> first, last |-> IF last <= first THEN first + 1 ELSE last]

-----------------------------------------------------------------------------
NoItem == [category |-> "none"]

Ready == [pc |-> "ready", id |-> 0, item |-> NoItem]

SelectionStoreInit ==
  /\ client = [c \in Client |-> Ready]
  /\ storeLock = Nobody
  /\ issued = 0
  /\ queues = [id \in {} |-> NoItem]
  /\ selections = {}
  /\ latest = 0
  /\ latestQueue = 0
  /\ torn = FALSE
  /\ onDisk \in Catalog
  /\ loaded = onDisk
  /\ plans = {}
  /\ storeFaults = 0
  /\ catalogChanges = 0

Saving(c, from, to) ==
  /\ client[c].pc = from
  /\ client' = [client EXCEPT ![c].pc = to]

\* Validated; the id and the creation time are taken before the lock.
PostSelection(c, r) ==
  /\ client[c].pc = "ready"
  /\ issued < MaxSaves
  /\ Wellformed(r)
  /\ Acceptable(r, loaded)
  /\ issued' = issued + 1
  /\ client' = [client EXCEPT ![c] =
       [pc |-> "lock", id |-> issued + 1, item |-> Item(r, loaded)]]
  /\ UNCHANGED <<storeLock, stored, torn, loaded, onDisk, plans, storeFaults,
                 catalogChanges>>

\* Mutant: the lock is not taken.
TakesNothing(c) ==
  /\ Saving(c, "lock", "queue")
  /\ UNCHANGED <<storeLock, issued, stored, torn, loaded, onDisk, plans, storeFaults,
                 catalogChanges>>

Lock(c) ==
  /\ storeLock = Nobody
  /\ Saving(c, "lock", "queue")
  /\ storeLock' = c
  /\ UNCHANGED <<issued, stored, torn, loaded, onDisk, plans, storeFaults,
                 catalogChanges>>

\* Mutant: latest.json is written before the queue of the selection.
LatestFirst(c) ==
  /\ Saving(c, "queue", "selection")
  /\ latest' = client[c].id
  /\ queues' = queues
  /\ UNCHANGED <<storeLock, issued, selections, latestQueue, torn, loaded, onDisk, plans,
                 storeFaults, catalogChanges>>

WriteQueue(c) ==
  /\ Saving(c, "queue", "selection")
  /\ queues' = [id \in DOMAIN queues \cup {client[c].id} |->
                  IF id = client[c].id THEN client[c].item ELSE queues[id]]
  /\ UNCHANGED <<storeLock, issued, selections, latest, latestQueue, torn, loaded, onDisk,
                 plans, storeFaults, catalogChanges>>

WriteSelection(c) ==
  /\ Saving(c, "selection", "latest")
  /\ selections' = selections \cup {client[c].id}
  /\ UNCHANGED <<storeLock, issued, queues, latest, latestQueue, torn, loaded, onDisk,
                 plans, storeFaults, catalogChanges>>

WriteLatest(c) ==
  /\ Saving(c, "latest", "latest queue")
  /\ latest' = client[c].id
  /\ UNCHANGED <<storeLock, issued, queues, selections, latestQueue, torn, loaded, onDisk,
                 plans, storeFaults, catalogChanges>>

WriteLatestQueue(c) ==
  /\ client[c].pc = "latest queue"
  /\ client' = [client EXCEPT ![c] = Ready]
  /\ latestQueue' = client[c].id
  /\ storeLock' = Nobody
  /\ torn' = FALSE
  /\ UNCHANGED <<issued, queues, selections, latest, loaded, onDisk, plans, storeFaults,
                 catalogChanges>>

Locked(c) == client[c].pc \in {"queue", "selection", "latest", "latest queue"}

\* Mutant: the lock is left by a failing write.
KeepsLock(c) ==
  /\ Locked(c)
  /\ storeFaults < MaxStoreFaults
  /\ storeFaults' = storeFaults + 1
  /\ client' = [client EXCEPT ![c] = Ready]
  /\ torn' = TRUE
  /\ UNCHANGED <<storeLock, issued, stored, loaded, onDisk, plans, catalogChanges>>

\* A write raises: the lock is released with the files written so far.
WriteFails(c) ==
  /\ Locked(c)
  /\ storeFaults < MaxStoreFaults
  /\ storeFaults' = storeFaults + 1
  /\ client' = [client EXCEPT ![c] = Ready]
  /\ storeLock' = Nobody
  /\ torn' = TRUE
  /\ UNCHANGED <<issued, stored, loaded, onDisk, plans, catalogChanges>>

\* External: the service is killed and started again, which loads the catalog file.
RestartStore ==
  /\ storeFaults < MaxStoreFaults
  /\ storeFaults' = storeFaults + 1
  /\ torn' = (torn \/ \E c \in Client : Locked(c))
  /\ client' = [c \in Client |-> Ready]
  /\ storeLock' = Nobody
  /\ loaded' = onDisk
  /\ UNCHANGED <<issued, stored, onDisk, plans, catalogChanges>>

\* External: somebody replaces the catalog file under the running service.
ReplaceCatalog(catalog) ==
  /\ catalogChanges < MaxCatalogs
  /\ catalog # onDisk
  /\ onDisk' = catalog
  /\ catalogChanges' = catalogChanges + 1
  /\ UNCHANGED <<client, storeLock, issued, stored, torn, loaded, plans, storeFaults>>

\* The operator plans a saved queue: build_execution_plan with the catalog file.
PlanQueue(id) ==
  /\ id \in DOMAIN queues
  /\ FencePlannable(queues[id], onDisk)
  /\ plans' = plans \cup {[id |-> id, frames |-> queues[id].frames]}
  /\ plans' # plans
  /\ UNCHANGED <<client, storeLock, issued, stored, torn, loaded, onDisk, storeFaults,
                 catalogChanges>>

SaveStep(c) ==
  \/ Lock(c) \/ WriteQueue(c) \/ WriteSelection(c) \/ WriteLatest(c) \/ WriteLatestQueue(c)

SelectionStoreNext ==
  \/ \E c \in Client : SaveStep(c) \/ WriteFails(c) \/ \E r \in Request : PostSelection(c, r)
  \/ RestartStore
  \/ \E catalog \in Catalog : ReplaceCatalog(catalog)
  \/ \E id \in DOMAIN queues : PlanQueue(id)

SelectionStoreFairness == \A c \in Client : WF_storeVars(SaveStep(c))

SelectionStoreSpec ==
  SelectionStoreInit /\ [][SelectionStoreNext]_storeVars /\ SelectionStoreFairness

-----------------------------------------------------------------------------
\* Type correctness, and the lock is held exactly by the thread that writes.
SelectionStoreTypeOK ==
  /\ \A c \in Client : client[c].id \in 0 .. issued
  /\ \A c \in Client : storeLock = c <=> Locked(c)
  /\ selections \subseteq 1 .. issued /\ DOMAIN queues \subseteq 1 .. issued
  /\ latest \in 0 .. issued /\ latestQueue \in 0 .. issued
  /\ {loaded, onDisk} \subseteq Catalog
  /\ storeFaults \in 0 .. MaxStoreFaults /\ catalogChanges \in 0 .. MaxCatalogs

\* A selection that anybody can see has the queue file that the operator's command
\* needs, at every moment and after every crash or failed write.
VisibleHasQueue ==
  /\ selections \subseteq DOMAIN queues
  /\ {latest, latestQueue} \ {0} \subseteq DOMAIN queues \cap selections

\* latest.json and latest-queue.json speak of the same selection unless a save is under
\* way or ended in the middle; the next completed save repairs them.
LatestFilesAgree == storeLock = Nobody /\ ~torn => latest = latestQueue

\* Whatever combination of options a save accepts, the planner of its pipeline finds the
\* policy and the requested modules consistent.
SavedPolicyIsPlannable ==
  \A id \in DOMAIN queues :
    IF queues[id].category = "fence" THEN FencePolicyValid(queues[id])
    ELSE PpePolicyValid(queues[id])

\* The frames of a PPE job lie inside the source and are not empty, also when the
\* container is longer than its frames or the clip ends between two frames.
PpeClipInSource ==
  \A id \in DOMAIN queues : PpePlannable(queues[id]) =>
    LET f == PpeFrames(queues[id])
    IN  f.first < f.last /\ f.last <= queues[id].frames

\* A plan describes the catalog file as it was when the plan was made, whatever catalog
\* the service had in memory when it saved.
PlansMatchCatalog ==
  [][\A plan \in plans' \ plans : plan.frames = onDisk.frames]_storeVars

\* Nobody keeps the lock of the store, also when a write fails.
SavesEnd == storeLock # Nobody ~> storeLock = Nobody

\* The validator: "Bitiş zamanı başlangıçtan büyük olmalı" (the end must be greater
\* than the start), of what is saved.
SavedClipIsNonempty == \A id \in DOMAIN queues : queues[id].start < queues[id].end

\* What a selection that was saved leads the operator's commands to: its queue
\* is there, the latest files agree, and its planner accepts its policy and
\* finds the frames in the source.
SelectionsSafe ==
  VisibleHasQueue /\ LatestFilesAgree /\ SavedPolicyIsPlannable /\ PpeClipInSource
=============================================================================
