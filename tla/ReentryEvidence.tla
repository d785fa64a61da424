-------------------------- MODULE ReentryEvidence --------------------------
(***************************************************************************)
(* validation/gpu_reentry_evidence.py: the collector reads one fact of the *)
(* machine after another into an evidence bundle, and every GPU entry      *)
(* point later verifies the bundle that lies on disk against the files it  *)
(* finds then.  The machine, the operator's declaration and the files      *)
(* change between any two of these steps.                                  *)
(*                                                                         *)
(* Time is counted in units of which MaxTelemetryAge bounds a bundle and   *)
(* MaxDeclarationAge a declaration; the tolerance of one minute for clocks *)
(* that disagree is below the unit.                                        *)
(***************************************************************************)
EXTENDS Naturals, Sequences, FiniteSets

CONSTANTS
  MaxTelemetryAge,    \* GPU_IDLE_MAX_AGE_SECONDS
  MaxDeclarationAge,  \* PHYSICAL_DECLARATION_MAX_AGE_SECONDS
  MaxClock,           \* bound: the last moment of a behaviour
  MaxFactChanges      \* bound: changes of the machine, the files or the declaration

ASSUME ReentryAssumption ==
  /\ {MaxTelemetryAge, MaxDeclarationAge, MaxClock, MaxFactChanges} \subseteq Nat
  /\ MaxTelemetryAge <= MaxDeclarationAge

VARIABLES
  machine,      \* what is true of the machine and the files, by fact
  access,       \* what this user may read: the BIOS attribute, and which kernel log
  declaration,  \* the operator's declaration file
  clock,
  lastTrue,     \* the last moment at which a fact held, 0 for never
  changes,
  draft,        \* the bundle that is being collected
  onDisk        \* the bundle on disk

reentryVars ==
  <<machine, access, declaration, clock, lastTrue, changes, draft, onDisk>>

\* Facts a gate asks for: nvidia-smi answers, the compute query answers, no compute client
\* runs, utilization, temperature and power limits, the two power profiles, mains, the BIOS
\* value, the conditions of the Dell mapping, fans, and no Xid in the log of this boot.
Measured ==
  {"smi", "query", "clientless", "quiet", "cool", "performance", "mains",
   "bios", "dell", "fans", "clean"}
\* Files of the project: unchanged since the start of the behaviour, or edited.
Files == {"code", "incident", "runbook"}
Fact == Measured \cup Files

Claims == {"bios", "adapter", "cooling"}
NoDeclaration == [at |-> 0, claims |-> {}]

-----------------------------------------------------------------------------
(* The policies                                                            *)

\* WORKSTATION_REQUIRED_GATE_IDS
Required == {"policy", "telemetry", "profiles", "mains", "xid", "code"}
\* WORKSTATION_INFORMATIONAL_GATE_IDS
Informational ==
  {"declaration", "bios", "adapter", "cooling", "quality", "platform", "incident"}

\* OPERATING_POLICY_CONTRACTS: the gates that may block under a policy.
RequiredGates(policy) ==
  IF policy = "workstation_managed" THEN Required ELSE Required \cup Informational

\* _resolve_operating_policy.  A bundle may come from a collector that did not write a
\* policy yet ("absent"), or hold one that is not the contract of this code ("altered").
AbsentIsDefault(written) ==
  CASE written = "absent" -> "workstation_managed"
    [] written = "altered" -> "invalid"
    [] OTHER -> written
ResolvedPolicy(written) ==
  CASE written = "absent" -> "legacy_strict_physical"
    [] written = "altered" -> "invalid"
    [] OTHER -> written

-----------------------------------------------------------------------------
(* The collectors                                                          *)

\* The order in which collect_evidence reads.
StampedLast ==
  <<"declaration", "identity", "compute", "sample1", "sample2", "profiles",
    "mains", "bios", "platform", "xid", "code", "incident", "stamp">>
Readings ==
  <<"declaration", "stamp", "identity", "compute", "sample1", "sample2", "profiles",
    "mains", "bios", "platform", "xid", "code", "incident">>

\* collect_compute_processes: the number of clients is known only if the query answers.
ReadCompute ==
  IF machine["smi"] /\ machine["query"]
    THEN IF machine["clientless"] THEN "none" ELSE "clients"
    ELSE "unreadable"

\* collect_idle_gpu_telemetry: one of the two samples.
ReadSample ==
  [readable |-> machine["smi"], quiet |-> machine["quiet"], cool |-> machine["cool"]]

\* collect_bios_thermal_management with the mapping of the Dell driver: the attribute
\* itself is readable for root only.
ReadBios ==
  [readable |-> access.bios, value |-> access.bios /\ machine["bios"],
   dell |-> machine["dell"]]

\* collect_xid_log: journalctl, then dmesg; an answer that cannot be told from a refusal
\* is none.
XidAssumedEmpty ==
  IF access.log = "none" \/ machine["clean"] THEN "empty" ELSE "rows"
ReadXid ==
  IF access.log = "none" THEN "unavailable" ELSE IF machine["clean"] THEN "empty" ELSE "rows"

\* What one reading puts into the bundle.
Observe(reading) ==
  CASE reading = "declaration" -> declaration
    [] reading = "stamp" -> clock
    [] reading = "identity" -> machine["smi"]
    [] reading = "compute" -> ReadCompute
    [] reading \in {"sample1", "sample2"} -> ReadSample
    [] reading = "profiles" -> machine["performance"]
    [] reading = "mains" -> machine["mains"]
    [] reading = "bios" -> ReadBios
    [] reading = "platform" -> machine["fans"]
    [] reading = "xid" -> ReadXid
    [] reading = "code" -> machine["code"]
    [] reading = "incident" ->
         [sources |-> machine["incident"], runbook |-> machine["runbook"]]

-----------------------------------------------------------------------------
(* verify_evidence: the gates over a bundle, at a moment                   *)

Age(b) == clock - b.seen["stamp"]
Declared(b) == b.seen["declaration"]

\* The declaration is signed and at most MaxDeclarationAge old.
Attributed(b) == Declared(b).at > 0 /\ clock - Declared(b).at <= MaxDeclarationAge
Claimed(b, claim) == Attributed(b) /\ claim \in Declared(b).claims

\* _declaration_matches_file: the embedded declaration is the one on disk now.
DeclarationGate(b) == Declared(b).at > 0 /\ Declared(b) = declaration

\* A value that can be read is authoritative; declaration and mapping stand in for one
\* that cannot.
BiosOrFallback(b) ==
  LET bios == b.seen["bios"]
  IN  (bios.readable /\ bios.value) \/ Claimed(b, "bios") \/ bios.dell
BiosGate(b) ==
  LET bios == b.seen["bios"]
  IN  IF bios.readable THEN bios.value ELSE Claimed(b, "bios") \/ bios.dell

\* fresh_idle_gpu_telemetry: identity, age, and an idle GPU.  Under workstation_managed a
\* busy GPU passes if the compute query shows that no client computes.
Samples(b) == {b.seen["sample1"], b.seen["sample2"]}
Fresh(b) == Age(b) <= MaxTelemetryAge
Managed(b) == ResolvedPolicy(b.policy) = "workstation_managed"
TelemetryGate(b) ==
  /\ b.seen["identity"] /\ \A s \in Samples(b) : s.readable
  /\ Fresh(b)
  /\ Managed(b) => b.seen["compute"] # "clients"
  /\ \/ \A s \in Samples(b) : s.quiet
     \/ Managed(b) /\ b.seen["compute"] = "none"

\* idle_gpu_quality_diagnostics
QualityGate(b) == \A s \in Samples(b) : s.readable /\ s.cool

\* _records_match_current for GUARD_PATHS.
CodeGate(b) == b.seen["code"] = machine["code"]

\* The incident's artifacts have the recorded hashes, in the bundle and now; the runbook
\* is the one the bundle saw.
IncidentGate(b) ==
  /\ b.seen["incident"].sources /\ machine["incident"]
  /\ b.seen["incident"].runbook = machine["runbook"]

Gate(b, id) ==
  CASE id = "policy" -> ResolvedPolicy(b.policy) # "invalid"
    [] id = "telemetry" -> TelemetryGate(b)
    [] id = "profiles" -> b.seen["profiles"]
    [] id = "mains" -> b.seen["mains"]
    [] id = "xid" -> b.seen["xid"] = "empty"
    [] id = "code" -> CodeGate(b)
    [] id = "declaration" -> DeclarationGate(b)
    [] id = "bios" -> BiosGate(b)
    [] id \in {"adapter", "cooling"} -> Claimed(b, id)
    [] id = "quality" -> QualityGate(b)
    [] id = "platform" -> b.seen["platform"]
    [] id = "incident" -> IncidentGate(b)

\* The status "ready_for_operator_review": no required gate failed.
Ready(b) == \A id \in RequiredGates(ResolvedPolicy(b.policy)) : Gate(b, id)

\* require_reentry_evidence lets a GPU entry point pass.
Admitted == onDisk.written /\ Ready(onDisk)

-----------------------------------------------------------------------------
(* Behaviour                                                               *)

NoBundle ==
  [written |-> FALSE, policy |-> "absent", seen |-> <<>>, at |-> 0]

ReentryInit ==
  /\ \E bad \in {{}, {"query"}, {"quiet"}, {"bios"}, {"clean"}} :
       machine = [f \in Fact |-> f \notin bad]
  /\ access \in [bios : BOOLEAN, log : {"readable", "none"}]
  /\ access.bios \/ access.log = "readable"
  /\ declaration = [at |-> 1, claims |-> Claims]
  /\ clock = 1
  /\ lastTrue = [f \in Fact |-> IF machine[f] THEN 1 ELSE 0]
  /\ changes = 0
  /\ draft = NoBundle /\ onDisk = NoBundle

\* collect_evidence begins; an older collector writes no policy, one of another revision
\* a contract that this code does not have.
Collect(policy) ==
  /\ draft.at = 0 /\ onDisk = NoBundle
  /\ draft' = [NoBundle EXCEPT !.policy = policy, !.at = 1]
  /\ UNCHANGED <<machine, access, declaration, clock, lastTrue, changes, onDisk>>

\* The next reading goes into the bundle.
ReadNext ==
  /\ draft.at \in DOMAIN Readings
  /\ LET reading == Readings[draft.at]
     IN  draft' = [draft EXCEPT
           !.seen = [r \in DOMAIN @ \cup {reading} |->
                       IF r = reading THEN Observe(r) ELSE @[r]],
           !.at = @ + 1]
  /\ UNCHANGED <<machine, access, declaration, clock, lastTrue, changes, onDisk>>

\* _write_json truncates the report and writes it: a process killed in between leaves a
\* file that no entry point can read.
WriteBundle ==
  /\ draft.at > Len(Readings)
  /\ onDisk' \in {[draft EXCEPT !.written = TRUE], [NoBundle EXCEPT !.at = 1]}
  /\ draft' = NoBundle
  /\ UNCHANGED <<machine, access, declaration, clock, lastTrue, changes>>

\* The collector is killed before it writes.
KillCollector ==
  /\ draft.at > 0 /\ draft' = NoBundle
  /\ UNCHANGED <<machine, access, declaration, clock, lastTrue, changes, onDisk>>

\* Time passes.
Passing ==
  /\ clock < MaxClock /\ clock' = clock + 1
  /\ lastTrue' = [f \in Fact |-> IF machine[f] THEN clock' ELSE lastTrue[f]]
  /\ UNCHANGED <<machine, access, declaration, changes, draft, onDisk>>

\* A fact of the machine or a file of the project changes.
Change(f) ==
  /\ changes < MaxFactChanges /\ changes' = changes + 1
  /\ machine' = [machine EXCEPT ![f] = ~@]
  /\ lastTrue' = [lastTrue EXCEPT ![f] = clock]
  /\ UNCHANGED <<access, declaration, clock, draft, onDisk>>

\* The operator signs another declaration, or takes a claim back.
Declare(claims) ==
  /\ changes < MaxFactChanges /\ changes' = changes + 1
  /\ declaration' = [at |-> clock, claims |-> claims] /\ declaration' # declaration
  /\ UNCHANGED <<machine, access, clock, lastTrue, draft, onDisk>>

ReentryNext ==
  \/ \E policy \in {"workstation_managed", "legacy_strict_physical", "absent", "altered"} :
       Collect(policy)
  \/ ReadNext
  \/ WriteBundle
  \/ KillCollector
  \/ Passing
  \/ \E f \in Fact : Change(f)
  \/ \E claims \in {Claims, Claims \ {"bios"}} : Declare(claims)

ReentrySpec == ReentryInit /\ [][ReentryNext]_reentryVars

-----------------------------------------------------------------------------
(* Properties                                                              *)

HeldRecently(f) == lastTrue[f] > 0 /\ clock - lastTrue[f] <= MaxTelemetryAge

\* A bundle that lets GPU work begin speaks of the recent past: at some moment within
\* MaxTelemetryAge of its use nvidia-smi answered, the profiles were performance, mains
\* was on and no Xid was logged, and the GPU was below its ceiling or had no client.
AdmittedHeldRecently ==
  Admitted =>
    /\ \A f \in {"smi", "performance", "mains", "clean"} : HeldRecently(f)
    /\ HeldRecently("quiet") \/ HeldRecently("clientless")

\* A bundle without a policy, or with the strict one, is admitted only if the physical
\* gates hold too: quality and fans recently, the incident's files untouched now, and a
\* declaration that is on disk now, recent and complete for adapter and cooling.
StrictStaysStrict ==
  Admitted /\ onDisk.policy # "workstation_managed" =>
    /\ HeldRecently("cool") /\ HeldRecently("fans")
    /\ machine["incident"]
    /\ {"adapter", "cooling"} \subseteq declaration.claims
    /\ declaration.at > 0 /\ clock - declaration.at <= MaxDeclarationAge

\* A BIOS value that could be read and was wrong is never outvoted by a declaration or by
\* the mapping of the Dell driver.
BiosIsAuthoritative ==
  Admitted /\ onDisk.policy # "workstation_managed" /\ access.bios => HeldRecently("bios")

ReentryIsSound == AdmittedHeldRecently /\ StrictStaysStrict /\ BiosIsAuthoritative
=============================================================================
