---------------------------- MODULE FullStackPlan ----------------------------
(***************************************************************************)
(* deepstream/full_stack.py: a planner probes the artifacts of a contract, *)
(* writes the rendered configuration files and the plan, or a blocked plan *)
(* and no files; a replay of the persisted plan decides about a launch.    *)
(* Nothing is locked: planners and replays run side by side, are killed    *)
(* between two files, and artifacts, contract and generator change below   *)
(* them.  The files are replaced whole (_atomic_write).                    *)
(*                                                                         *)
(* Two slots stand for the fourteen artifacts: the runtime bundle, which   *)
(* has a receipt and a capability manifest, and a model; two files stand   *)
(* for the six generated ones.                                             *)
(***************************************************************************)
EXTENDS Naturals, FiniteSets

CONSTANTS
  Planner,           \* processes
  NoPlanner,         \* model value: no planner wrote this
  MaxPlans,          \* bound: plans that are built
  MaxPlanChanges,    \* bound: changes of artifacts, contract or generator
  MaxPlanKills       \* bound: planners killed

ASSUME FullStackAssumption ==
  {MaxPlans, MaxPlanChanges, MaxPlanKills} \subseteq Nat /\ NoPlanner \notin Planner

VARIABLES
  planner,       \* [Planner -> what the process is doing]
  slot,          \* [Slot -> what is at the path of the contract]
  contract,      \* the contract file: its version, and whether the model it pins is narrow
  generator,     \* version of full_stack.py
  plan,          \* full-stack-plan.json
  outputs,       \* [Output -> the bundle the file belongs to, or NoFile]
  planSpent      \* the bounds, and whether two planners ever wrote at once

planVars == <<planner, slot, contract, generator, plan, outputs, planSpent>>

Slot == {"runtime", "model"}
Output == {"sources.csv", "fusion-contract.json"}

\* What a path holds: the pinned file, another one, the pinned files of a runtime whose
\* capability manifest says blocked, or the pinned files in a directory that was copied.
Altered(s) == IF slot[s] = "ready" /\ s = "runtime" THEN {"drifted", "moved"} ELSE {"drifted"}

\* A short source list, and a long one: the configuration of a narrow engine batches fewer.
SourceList == {"short", "long"}
Mode == {"dry_run", "authorize_launch"}

NoFullPlan == [mode |-> "none"]
NoFile == [sources |-> "none"]
Idle == [pc |-> "idle"]

FullStackInit ==
  /\ planner = [p \in Planner |-> Idle]
  /\ \E state \in {"ready", "blocked"} : slot = [s \in Slot |-> IF s = "runtime" THEN state ELSE "ready"]
  /\ contract \in [version : {0}, narrow : BOOLEAN] /\ generator = 0
  /\ plan = NoFullPlan
  /\ outputs = [o \in Output |-> NoFile]
  /\ planSpent = [plans |-> 0, changes |-> 0, kills |-> 0, overlap |-> FALSE]

-----------------------------------------------------------------------------
(* Probes, blockers and rendering                                          *)

\* _probe_artifact: bytes, mode and, for JSON, the required status and claims.  A copied
\* directory holds the same bytes.
ProbeStatus(state) == IF state = "moved" THEN "ready" ELSE state

\* _publication_receipt_error: the directory is read again, and must be the one the receipt
\* names.
ReceiptError(state) == state \in {"moved", "drifted"}

\* _infer_config_errors: the batch of the engine against the number of sources.
BatchError(pins, sources) == pins.narrow /\ sources = "long"

\* _derive_readiness_blockers: the statuses, the receipt, and the snapshots of the models.
Blockers(checks, pins, sources) ==
  {s \in Slot : checks[s] # "ready"}
    \cup (IF checks["runtime"] = "ready" /\ ReceiptError(slot["runtime"]) THEN {"receipt"} ELSE {})
    \cup (IF checks["model"] = "ready" /\ BatchError(pins, sources) THEN {"batch"} ELSE {})

\* _render_bundle: every file is a function of the plan and the contract.
Bundle(p) == [sources |-> p.sources, contract |-> p.contract]

PAt(p, pcs) == planner[p].pc \in pcs
PGoto(p, pc) == planner' = [planner EXCEPT ![p].pc = pc]
PEnd(p) == planner' = [planner EXCEPT ![p] = Idle]

Writing == {"rendering", "revoking", "cleaning"}

\* A change below a running replay: it may no longer speak of what is on disk.
Disturbed(f, who) ==
  [q \in Planner |-> IF q # who /\ "calm" \in DOMAIN f[q] THEN [f[q] EXCEPT !.calm = FALSE] ELSE f[q]]

-----------------------------------------------------------------------------
(* build_plan                                                              *)

StartPlan(p, sources, mode) ==
  /\ PAt(p, {"idle"})
  /\ planSpent.plans < MaxPlans
  /\ planSpent' = [planSpent EXCEPT !.plans = @ + 1]
  /\ planner' = [planner EXCEPT ![p] =
       [pc |-> "probing", sources |-> sources, mode |-> mode, contract |-> contract,
        checks |-> [s \in {} |-> "ready"]]]
  /\ UNCHANGED <<slot, contract, generator, plan, outputs>>

\* _artifact_checks: one slot after the other, the runtime first.
ProbeSlot(p, s) ==
  /\ PAt(p, {"probing"})
  /\ s \notin DOMAIN planner[p].checks
  /\ s = "model" => "runtime" \in DOMAIN planner[p].checks
  /\ planner' = [planner EXCEPT ![p].checks =
       [x \in DOMAIN @ \cup {s} |-> IF x = s THEN ProbeStatus(slot[s]) ELSE @[x]]]
  /\ UNCHANGED <<slot, contract, generator, plan, outputs, planSpent>>

\* The blockers, the generator's own bytes, and which way the plan goes.
Decide(p) ==
  LET q == planner[p]
      blockers == Blockers(q.checks, q.contract, q.sources)
      made == [mode |-> q.mode, sources |-> q.sources, contract |-> q.contract, generator |-> generator,
               checks |-> q.checks, blockers |-> blockers]
  IN
  /\ PAt(p, {"probing"})
  /\ DOMAIN q.checks = Slot
  /\ planner' = [planner EXCEPT ![p] =
       [pc |-> IF blockers = {} THEN "rendering" ELSE "revoking", plan |-> made, left |-> Output]]
  /\ planSpent' = [planSpent EXCEPT !.overlap = @ \/ \E r \in Planner \ {p} : PAt(r, Writing)]
  /\ UNCHANGED <<slot, contract, generator, plan, outputs>>

\* Mutant: the files are removed before the plan is replaced.
RevokeLate(p) ==
  /\ PAt(p, {"revoking"})
  /\ IF planner[p].left = {}
     THEN plan' = planner[p].plan /\ planner' = Disturbed([planner EXCEPT ![p].pc = "cleaning"], p) /\ UNCHANGED outputs
     ELSE \E o \in planner[p].left :
            /\ outputs' = [outputs EXCEPT ![o] = NoFile]
            /\ planner' = Disturbed([planner EXCEPT ![p].left = @ \ {o}], p)
            /\ UNCHANGED plan
  /\ UNCHANGED <<slot, contract, generator, planSpent>>

\* A blocked plan is written before any stale file is removed.
Revoke(p) ==
  /\ PAt(p, {"revoking"})
  /\ plan' = planner[p].plan
  /\ planner' = Disturbed([planner EXCEPT ![p].pc = "cleaning"], p)
  /\ UNCHANGED <<slot, contract, generator, outputs, planSpent>>

\* unlink, which may fail; the others are still removed, and the command raises.
RemoveStale(p, o) ==
  /\ PAt(p, {"cleaning"}) /\ o \in planner[p].left
  /\ outputs' \in {outputs, [outputs EXCEPT ![o] = NoFile]}
  /\ planner' = Disturbed([planner EXCEPT ![p].left = @ \ {o}], p)
  /\ UNCHANGED <<slot, contract, generator, plan, planSpent>>

RemovedStale(p) ==
  /\ PAt(p, {"cleaning"}) /\ planner[p].left = {}
  /\ PEnd(p)
  /\ UNCHANGED <<slot, contract, generator, plan, outputs, planSpent>>

\* The files of a ready plan, then the plan that pins them.
RenderFile(p, o) ==
  /\ PAt(p, {"rendering"}) /\ o \in planner[p].left
  /\ outputs' = [outputs EXCEPT ![o] = Bundle(planner[p].plan)]
  /\ planner' = Disturbed([planner EXCEPT ![p].left = @ \ {o}], p)
  /\ UNCHANGED <<slot, contract, generator, plan, planSpent>>

\* main replays a plan that asks for a launch at once.
Persist(p) ==
  /\ PAt(p, {"rendering"}) /\ planner[p].left = {}
  /\ plan' = planner[p].plan
  /\ planner' = Disturbed([planner EXCEPT ![p] = Idle], p)
  /\ UNCHANGED <<slot, contract, generator, outputs, planSpent>>

-----------------------------------------------------------------------------
(* verify_persisted_plan and require_launch_ready                          *)

\* validate_plan: plans are written whole and from their own fields, so it accepts every one.
PlanReads == plan # NoFullPlan

\* The plan, and the contract and the generator that it pins.
StartReplay(p) ==
  /\ PAt(p, {"idle"})
  /\ PlanReads
  /\ contract = plan.contract
  /\ generator = plan.generator
  /\ planner' = [planner EXCEPT ![p] =
       [pc |-> "replaying", plan |-> plan, left |-> Slot, calm |-> TRUE]]
  /\ UNCHANGED <<slot, contract, generator, plan, outputs, planSpent>>

ReplaySlot(p, s) ==
  LET q == planner[p] IN
  /\ PAt(p, {"replaying"}) /\ s \in q.left
  /\ s = "model" => "runtime" \notin q.left
  /\ IF ProbeStatus(slot[s]) = q.plan.checks[s]
     THEN planner' = [planner EXCEPT ![p].left = @ \ {s}]
     ELSE PEnd(p)
  /\ UNCHANGED <<slot, contract, generator, plan, outputs, planSpent>>

\* Mutant: the receipt's directory is not looked at again.
ReplayNoBlockers(p) ==
  LET q == planner[p] IN
  /\ PAt(p, {"replaying"}) /\ q.left = {}
  /\ planner' = [planner EXCEPT ![p] = [@ EXCEPT !.pc = "comparing",
       !.left = IF q.plan.blockers = {} THEN Output ELSE {}]]
  /\ UNCHANGED <<slot, contract, generator, plan, outputs, planSpent>>

\* The blockers are derived again and must be the same.
ReplayBlockers(p) ==
  LET q == planner[p] IN
  /\ PAt(p, {"replaying"}) /\ q.left = {}
  /\ IF Blockers(q.plan.checks, q.plan.contract, q.plan.sources) = q.plan.blockers
     THEN planner' = [planner EXCEPT ![p] = [@ EXCEPT !.pc = "comparing",
            !.left = IF q.plan.blockers = {} THEN Output ELSE {}]]
     ELSE PEnd(p)
  /\ UNCHANGED <<slot, contract, generator, plan, outputs, planSpent>>

\* Each file against the bundle that the plan renders now.
CompareFile(p, o) ==
  LET q == planner[p] IN
  /\ PAt(p, {"comparing"}) /\ o \in q.left
  /\ IF outputs[o] = Bundle(q.plan) THEN planner' = [planner EXCEPT ![p].left = @ \ {o}] ELSE PEnd(p)
  /\ UNCHANGED <<slot, contract, generator, plan, outputs, planSpent>>

\* require_launch_ready: a ready plan whose mode asks for a launch.
Grant(p) ==
  LET q == planner[p] IN
  /\ PAt(p, {"comparing"}) /\ q.left = {}
  /\ IF q.plan.blockers = {} /\ q.plan.mode = "authorize_launch" THEN PGoto(p, "granted") ELSE PEnd(p)
  /\ UNCHANGED <<slot, contract, generator, plan, outputs, planSpent>>

Launch(p) ==
  /\ PAt(p, {"granted"})
  /\ PEnd(p)
  /\ UNCHANGED <<slot, contract, generator, plan, outputs, planSpent>>

-----------------------------------------------------------------------------
\* A kill before anything is written leaves nothing, as an error does.
KillPlanner(p) ==
  /\ PAt(p, Writing)
  /\ planSpent.kills < MaxPlanKills
  /\ planSpent' = [planSpent EXCEPT !.kills = @ + 1]
  /\ PEnd(p)
  /\ UNCHANGED <<slot, contract, generator, plan, outputs>>

\* An artifact is replaced, the contract or the generator is edited.
Surroundings ==
  /\ planSpent.changes < MaxPlanChanges
  /\ planSpent' = [planSpent EXCEPT !.changes = @ + 1]
  /\ planner' = Disturbed(planner, NoPlanner)
  /\ \/ \E s \in Slot : \E state \in Altered(s) :
          slot' = [slot EXCEPT ![s] = state] /\ UNCHANGED <<contract, generator>>
     \/ contract' = [contract EXCEPT !.version = @ + 1] /\ UNCHANGED <<slot, generator>>
     \/ generator' = generator + 1 /\ UNCHANGED <<slot, contract>>
  /\ UNCHANGED <<plan, outputs>>

PlannerStep(p) ==
  \/ \E sources \in SourceList, mode \in Mode : StartPlan(p, sources, mode)
  \/ \E s \in Slot : ProbeSlot(p, s) \/ ReplaySlot(p, s)
  \/ \E o \in Output : RemoveStale(p, o) \/ RenderFile(p, o) \/ CompareFile(p, o)
  \/ Decide(p) \/ Revoke(p) \/ RemovedStale(p) \/ Persist(p)
  \/ StartReplay(p) \/ ReplayBlockers(p) \/ Grant(p) \/ Launch(p)
  \/ KillPlanner(p)

FullStackNext == Surroundings \/ \E p \in Planner : PlannerStep(p)

FullStackSpec == FullStackInit /\ [][FullStackNext]_planVars

-----------------------------------------------------------------------------
(* Properties                                                              *)

\* A replay that nobody disturbed grants only what is on disk: every artifact the
\* contract's, the runtime where its receipt says, every file the plan's.
GrantIsCurrent ==
  \A p \in Planner :
    PAt(p, {"granted"}) /\ planner[p].calm =>
      /\ slot["runtime"] = "ready" /\ slot["model"] = "ready"
      /\ ~BatchError(contract, planner[p].plan.sources)
      /\ \A o \in Output : outputs[o] = Bundle(planner[p].plan)
      /\ contract = planner[p].plan.contract /\ generator = planner[p].plan.generator

\* Disturbed or not, no grant is for a runtime whose manifest says blocked, as every
\* manifest of the builders of this repository does, nor for a dry run.
BlockedNeverLaunches ==
  \A p \in Planner :
    PAt(p, {"granted"}) =>
      planner[p].plan.checks["runtime"] # "blocked" /\ planner[p].plan.mode = "authorize_launch"

\* Unless two planners wrote at once, a persisted plan that could be launched has all its
\* files: a planner that finds blockers revokes before it removes, wherever it is killed.
RevokedBeforeRemoved ==
  plan # NoFullPlan /\ ~planSpent.overlap /\ plan.blockers = {} =>
    \A o \in Output : outputs[o] # NoFile
=============================================================================
