-------------------------- MODULE DsQualification --------------------------
(***************************************************************************)
(* How a DeepStream 9 image becomes one that may run:                      *)
(* validation/ds9_parser_bootstrap.py measures the parser and builds the   *)
(* image in two passes, validation/ds9_runtime_compatibility.py probes it  *)
(* without a GPU and writes the candidate receipt, the host side of        *)
(* validation/ds9_gpu_smoke.py runs it once under an operator's            *)
(* authorization, and the receipt that GPU entry points ask for is written *)
(* from that evidence.  Files are edited, tags move, processes are killed  *)
(* and receipts expire between any two of these steps.                     *)
(*                                                                         *)
(* An image id stands for what it was built from and for its labels, the   *)
(* SHA of the parser among them.  Receipts are written once, at a path of  *)
(* their own, so a pin of one is the receipt itself.                       *)
(***************************************************************************)
EXTENDS Naturals, FiniteSets

CONSTANTS
  Session,    \* bound: session roots of the parser bootstrap
  ReceiptDir, \* bound: output directories of the compatibility receipts
  Nonce,      \* bound: campaign nonces of the smoke
  Executor,   \* bound: smoke processes at a time
  Life,       \* MAX_RECEIPT_AGE, MAX_EVIDENCE_AGE and MAX_AUTH_AGE
  MaxNow,     \* bound: the last moment of a behaviour
  MaxFileEdits \* bound: edits of the pinned files

ASSUME QualificationAssumption ==
  /\ \A S \in {Session, ReceiptDir, Nonce, Executor} : IsFiniteSet(S)
  /\ Life \in Nat \ {0} /\ {MaxNow, MaxFileEdits} \subseteq Nat

VARIABLES
  now,
  live,      \* revision of the controls, the last one that changed a build input, and the
             \* one that the control manifest describes
  tag,       \* the image the requested tag resolves to
  boot,      \* per session of the bootstrap: its stage and its two receipts
  probe,     \* the compatibility probe that runs, one at a time
  receipts,  \* per output directory: its compatibility receipt
  smoke,     \* per nonce: contract, authorization, claim and evidence
  executors, \* the smoke processes
  ran,       \* what happened on the GPU, per nonce
  launched   \* the last launch that a production receipt admitted

qualificationVars ==
  <<now, live, tag, boot, probe, receipts, smoke, executors, ran, launched>>

NoImage == [files |-> 0, manifest |-> 0]
NoPins == [files |-> 0, inputs |-> 0, manifest |-> 0]
NoReceipt == [at |-> 0, image |-> NoImage, pins |-> NoPins, ready |-> FALSE]

\* created <= now < created + Life; the clock starts at 1, and 0 says there is no receipt.
Current(receipt) == receipt.at > 0 /\ now < receipt.at + Life

-----------------------------------------------------------------------------
(* The parser bootstrap                                                    *)

\* _input_pins: the Dockerfile, what it leaves out, the patch, two controllers and the control
\* manifest; the other controls are covered by the manifest alone.
InputPins(pins) == <<pins.inputs, pins.manifest>>

\* validate_discovery_receipt: current, and its build inputs are the live ones.
DiscoveryValid(s) ==
  Current(boot[s].discovery) /\ InputPins(boot[s].discovery.pins) = InputPins(live)

\* Mutant: the production receipt is trusted for what it says of pass 1.
TrustsPassOne(s, image) ==
  /\ Current(boot[s].production) /\ boot[s].production.image = image
  /\ InputPins(boot[s].production.pins) = InputPins(live)
\* validate_production_receipt, which validates the discovery receipt it pins again.
ProductionValid(s, image) ==
  /\ Current(boot[s].production) /\ boot[s].production.image = image
  /\ InputPins(boot[s].production.pins) = InputPins(live)
  /\ DiscoveryValid(s)

AtStage(s, from, to, change) ==
  /\ boot[s].stage = from
  /\ boot' = [boot EXCEPT ![s] = [change EXCEPT !.stage = to]]
  /\ UNCHANGED <<now, live, probe, receipts, smoke, executors, ran, launched>>

\* execute_discovery: the directory of pass 1 is made once; the build inputs are pinned when
\* the parser has been measured.  A build that fails, or loses its telemetry, leaves only
\* the directory.
Discover(s) ==
  /\ \/ AtStage(s, "new", "discovering", boot[s])
     \/ AtStage(s, "discovering", "discovered",
          [boot[s] EXCEPT !.discovery = [NoReceipt EXCEPT !.at = now, !.pins = live]])
  /\ UNCHANGED tag

\* execute_production up to the build: the directory of pass 2 is made once and the command
\* takes the manifest's digest for a label.
StartProduction(s) ==
  /\ DiscoveryValid(s)
  /\ AtStage(s, "discovered", "building",
       [boot[s] EXCEPT !.production = [NoReceipt EXCEPT !.image.manifest = live.manifest]])
  /\ UNCHANGED tag

\* docker build: it copies the controls that are there now, fails unless the manifest among
\* them is the one of the label, and moves the tag at once.  The image looks only at its
\* manifest, one controller and the ignore file; the application that is copied with them is
\* no control, and nothing here speaks of it.
BuildImage(s) ==
  /\ boot[s].production.image.manifest = live.manifest
  /\ AtStage(s, "building", "tagged", [boot[s] EXCEPT !.production.image.files = live.files])
  /\ tag' = boot'[s].production.image

\* The labels are compared with the inputs as they are after the build.
WriteProduction(s) ==
  /\ boot[s].production.image.manifest = live.manifest
  /\ AtStage(s, "tagged", "built",
       [boot[s] EXCEPT !.production.at = now, !.production.pins = live])
  /\ UNCHANGED tag

-----------------------------------------------------------------------------
(* Compatibility receipts                                                  *)

NoProbe == [out |-> "none", image |-> NoImage, evidence |-> "none"]

\* validate_runtime_control_manifest and validate_image_lineage: the manifest describes the
\* live files, and the image was labelled with it.
ControlsAccept(image) == live.manifest = live.files /\ image.manifest = live.manifest

\* require_static_candidate_compatibility.
CandidateValid(o, image) ==
  LET r == receipts[o]
  IN  Current(r) /\ ~r.ready /\ r.image = image /\ r.pins = live /\ ControlsAccept(image)

\* _offline_static_candidate looks at the receipt alone.
CandidateOffline(o) == Current(receipts[o]) /\ ~receipts[o].ready

\* validate_production_evidence: evidence within its time, the authorization and the claim
\* with it, the two-pass build behind it and the candidate it ran for.
EvidenceValid(n, image) ==
  LET s == smoke[n]
  IN  /\ Current(s.evidence) /\ s.evidence.ready /\ s.evidence.image = image
      /\ s.evidence.pins.manifest = live.manifest
      /\ Current(s.auth) /\ s.claimed
      /\ ProductionValid(s.contract.boot, image)
      /\ CandidateOffline(s.contract.candidate)
      /\ receipts[s.contract.candidate].image = image

\* execute_static_probe: the tag is resolved and the probe runs in that image; the receipt
\* is created against the controls as they are afterwards, written exclusively, and is a
\* production receipt if smoke evidence was given.
StartProbe(o) ==
  /\ probe = NoProbe /\ receipts[o] = NoReceipt
  /\ tag # NoImage /\ ControlsAccept(tag)
  /\ \E n \in Nonce \cup {"none"} : probe' = [out |-> o, image |-> tag, evidence |-> n]
  /\ UNCHANGED <<now, live, tag, boot, receipts, smoke, executors, ran, launched>>

EndProbe ==
  LET n == probe.evidence
  IN  /\ probe # NoProbe
      /\ \/ UNCHANGED receipts
         \/ /\ ControlsAccept(probe.image)
            /\ n # "none" => EvidenceValid(n, probe.image)
            /\ receipts' = [receipts EXCEPT ![probe.out] =
                 [at |-> now, image |-> probe.image, pins |-> live, ready |-> n # "none",
                  evidence |-> n]]
      /\ probe' = NoProbe
      /\ UNCHANGED <<now, live, tag, boot, smoke, executors, ran, launched>>

\* Mutant: a production receipt is not asked whether its evidence still holds.
ReadyOnce(o, image) ==
  LET r == receipts[o]
  IN  Current(r) /\ r.ready /\ r.image = image /\ r.pins = live /\ ControlsAccept(image)
\* require_runtime_compatibility: the receipt, and everything below it once more.
RuntimeCompatible(o, image) ==
  LET r == receipts[o]
  IN  /\ Current(r) /\ r.ready /\ r.image = image /\ r.pins = live /\ ControlsAccept(image)
      /\ EvidenceValid(r.evidence, image)

\* A GPU entry point resolves the tag and asks for exactly that image.
LaunchQualified(o) ==
  /\ tag # NoImage /\ RuntimeCompatible(o, tag)
  /\ launched' = [at |-> now, image |-> tag, files |-> live.files]
  /\ UNCHANGED <<now, live, tag, boot, probe, receipts, smoke, executors, ran>>

-----------------------------------------------------------------------------
(* The smoke on the host                                                   *)

NoContract == [boot |-> "none", candidate |-> "none", image |-> NoImage, manifest |-> 0]
NoProcess == [pc |-> "idle", nonce |-> "none"]

Only(e, n, pc) ==
  /\ executors' = [executors EXCEPT ![e] = [pc |-> pc, nonce |-> n]]
  /\ UNCHANGED <<now, live, tag, boot, probe, receipts, launched>>

\* build_plan: the contract is written once and afterwards only compared; without a current
\* authorization that names it, the plan stays blocked.
BuildPlan(e, n) ==
  \E o \in ReceiptDir, s \in Session :
    LET contract == [boot |-> s, candidate |-> o, image |-> receipts[o].image,
                     manifest |-> receipts[o].pins.manifest]
    IN  /\ executors[e].pc = "idle"
        /\ CandidateOffline(o) /\ ProductionValid(s, receipts[o].image)
        /\ smoke[n].contract \in {NoContract, contract}
        /\ smoke' = [smoke EXCEPT ![n].contract = contract]
        /\ Only(e, n, IF Current(smoke[n].auth) THEN "planned" ELSE "idle")
        /\ UNCHANGED ran

\* execute up to the claim: the same contract and authorization, then the receipts against
\* the live files, and no output of an earlier execution.
CheckPlan(e, n) ==
  LET c == smoke[n].contract
  IN  /\ executors[e] = [pc |-> "planned", nonce |-> n]
      /\ Current(smoke[n].auth) /\ CandidateValid(c.candidate, c.image)
      /\ ProductionValid(c.boot, c.image)
      /\ ~smoke[n].raw /\ smoke[n].evidence = NoReceipt
      /\ Only(e, n, "checked") /\ UNCHANGED <<smoke, ran>>

\* The claim is created exclusively.
Claim(e, n) ==
  /\ executors[e] = [pc |-> "checked", nonce |-> n]
  /\ ~smoke[n].claimed
  /\ smoke' = [smoke EXCEPT ![n].claimed = TRUE]
  /\ Only(e, n, "claimed") /\ UNCHANGED ran

\* The raw directory is made, which fails if there is one, and the guard resolves the tag and
\* asks the candidate receipt again before it starts the container on the image it found.
GuardedRun(e, n) ==
  /\ executors[e] = [pc |-> "claimed", nonce |-> n]
  /\ smoke' = [smoke EXCEPT ![n].raw = TRUE]
  /\ \/ Only(e, n, "idle") /\ UNCHANGED ran
     \/ /\ ~smoke[n].raw /\ tag # NoImage /\ CandidateValid(smoke[n].contract.candidate, tag)
        /\ Only(e, n, "running")
        /\ ran' = [ran EXCEPT ![n] =
             [count |-> @.count + 1, image |-> tag, at |-> now, passed |-> FALSE]]

\* The container ends; the guard is complete or not, the raw session replays to a pass or not.
EndRun(e, n) ==
  /\ executors[e] = [pc |-> "running", nonce |-> n]
  /\ \/ Only(e, n, "idle") /\ UNCHANGED ran
     \/ /\ Only(e, n, "replayed")
        /\ \E ok \in BOOLEAN : ran' = [ran EXCEPT ![n].passed = ok]
  /\ UNCHANGED smoke

\* The evidence takes its image and its controls from the contract, and is created
\* exclusively.
WriteEvidence(e, n) ==
  /\ executors[e] = [pc |-> "replayed", nonce |-> n]
  /\ IF smoke[n].evidence = NoReceipt
       THEN smoke' = [smoke EXCEPT ![n].evidence =
              [at |-> now, image |-> smoke[n].contract.image,
               pins |-> [NoPins EXCEPT !.manifest = smoke[n].contract.manifest],
               ready |-> ran[n].passed]]
       ELSE UNCHANGED smoke
  /\ Only(e, n, "idle") /\ UNCHANGED ran

\* A process dies wherever it is.
KillSmoke(e) ==
  /\ executors[e] # NoProcess
  /\ executors' = [executors EXCEPT ![e] = NoProcess]
  /\ UNCHANGED <<now, live, tag, boot, probe, receipts, smoke, ran, launched>>

SmokeStep(e, n) ==
  \/ BuildPlan(e, n) \/ CheckPlan(e, n) \/ Claim(e, n)
  \/ GuardedRun(e, n) \/ EndRun(e, n) \/ WriteEvidence(e, n)

-----------------------------------------------------------------------------
(* The operator and the world                                              *)

\* The operator authorizes the contract of a nonce, once.
Authorize(n) ==
  /\ smoke[n].contract # NoContract /\ smoke[n].auth = NoReceipt
  /\ smoke' = [smoke EXCEPT ![n].auth.at = now]
  /\ UNCHANGED <<now, live, tag, boot, probe, receipts, executors, ran, launched>>

\* A control is edited, which may be a build input; the manifest is written anew; another
\* image takes the tag.  Every edit is a new revision: a file that is changed while docker
\* build copies it and is restored before anybody hashes it again is outside of this model.
EditFiles ==
  /\ live.files <= MaxFileEdits
  /\ \E inputs \in {live.inputs, live.files + 1} :
       live' = [live EXCEPT !.files = @ + 1, !.inputs = inputs]
  /\ UNCHANGED <<now, tag, boot, probe, receipts, smoke, executors, ran, launched>>

WriteManifest ==
  /\ live.manifest # live.files
  /\ live' = [live EXCEPT !.manifest = live.files]
  /\ UNCHANGED <<now, tag, boot, probe, receipts, smoke, executors, ran, launched>>

Retag ==
  /\ \E s \in Session : boot[s].stage \in {"tagged", "built"} /\ tag' = boot[s].production.image
  /\ UNCHANGED <<now, live, boot, probe, receipts, smoke, executors, ran, launched>>

AdvanceClock ==
  /\ now < MaxNow /\ now' = now + 1
  /\ UNCHANGED <<live, tag, boot, probe, receipts, smoke, executors, ran, launched>>

-----------------------------------------------------------------------------

QualificationInit ==
  /\ now = 1 /\ live = [files |-> 1, inputs |-> 1, manifest |-> 1] /\ tag = NoImage
  /\ boot = [s \in Session |->
       [stage |-> "new", discovery |-> NoReceipt, production |-> NoReceipt]]
  /\ probe = NoProbe
  /\ receipts = [o \in ReceiptDir |-> NoReceipt]
  /\ smoke = [n \in Nonce |->
       [contract |-> NoContract, auth |-> NoReceipt, claimed |-> FALSE, raw |-> FALSE,
        evidence |-> NoReceipt]]
  /\ executors = [e \in Executor |-> NoProcess]
  /\ ran = [n \in Nonce |-> [count |-> 0, image |-> NoImage, at |-> 0, passed |-> FALSE]]
  /\ launched = [at |-> 0, image |-> NoImage, files |-> 0]

QualificationNext ==
  \/ \E s \in Session :
       Discover(s) \/ StartProduction(s) \/ BuildImage(s) \/ WriteProduction(s)
  \/ \E o \in ReceiptDir : StartProbe(o) \/ LaunchQualified(o)
  \/ EndProbe
  \/ \E e \in Executor : KillSmoke(e) \/ \E n \in Nonce : SmokeStep(e, n)
  \/ \E n \in Nonce : Authorize(n)
  \/ EditFiles \/ WriteManifest \/ Retag \/ AdvanceClock

QualificationSpec == QualificationInit /\ [][QualificationNext]_qualificationVars

-----------------------------------------------------------------------------
(* Properties                                                              *)

\* A nonce puts a container on the GPU at most once, whoever executes it and dies.
RunOnce == \A n \in Nonce : ran[n].count <= 1

\* Passing evidence tells of a run that passed, on the image it names.
EvidenceIsOfItsRun ==
  \A n \in Nonce : smoke[n].evidence.ready =>
    ran[n].passed /\ ran[n].image = smoke[n].evidence.image

\* An image is launched only if it was built from the very controls that are live, unless an
\* edit was undone meanwhile (see EditFiles), and if within the lifetime of one receipt its
\* parser was measured, it was built and it passed a smoke.
LaunchedIsQualified ==
  launched.at > 0 =>
    /\ launched.image.files = launched.files
    /\ \E n \in Nonce : /\ ran[n].passed /\ ran[n].image = launched.image
                        /\ launched.at < ran[n].at + Life
    /\ \E s \in Session : /\ boot[s].production.image = launched.image
                          /\ 0 < boot[s].discovery.at
                          /\ boot[s].discovery.at <= boot[s].production.at
                          /\ launched.at < boot[s].discovery.at + Life

QualificationIsSound == RunOnce /\ EvidenceIsOfItsRun /\ LaunchedIsQualified
=============================================================================
