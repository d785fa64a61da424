-------------------------- MODULE ValidationStatus --------------------------
(***************************************************************************)
(* The validation page of the admin service (admin/validation.py): one     *)
(* request reads receipts, pinned inputs, endurance documents and reports  *)
(* one file after the other and decides which report may be called         *)
(* finalized, accepted or stale, while a supervisor, two finalizers and    *)
(* people rewrite the same files.                                          *)
(*                                                                         *)
(* A file is what it says: contents are compared as the code compares size *)
(* and digest, and two writes never give the same content.  The writers    *)
(* are not in src/; the receipts' lock contract and the tests tell how     *)
(* they write: reports first, the receipt last, under the lock of the      *)
(* supervisor.                                                             *)
(***************************************************************************)
EXTENDS Naturals, Sequences, FiniteSets

CONSTANTS
  Absent,             \* what a missing file contains
  Unread,             \* the cache entry of a file not read yet
  MaxEnduranceRuns,   \* endurance campaigns that are started
  MaxReports,         \* reports that are generated
  MaxRevisions,       \* edits of a generator, of the v2 evidence or of a receipt
  MaxDuring           \* steps of the writers while the request runs

ASSUME StatusBounds ==
  {MaxEnduranceRuns, MaxReports, MaxRevisions, MaxDuring} \subseteq Nat

VARIABLES
  disk,         \* file -> content
  runs,         \* endurance campaigns started
  writing,      \* what the supervisor still writes: pairs of file and document
  finalizing,   \* what the finalizer holding the lock still writes
  reports,      \* reports generated
  revisions,    \* edits by hand
  during,       \* steps of the writers since the request began
  stage,        \* what the request is doing
  left,         \* the files this stage has still to look at, in order
  cache,        \* ArtifactReader._cache
  bundle,       \* the state of the finalization receipt, v1 and v2
  together      \* receipts that lay on the disk with all they pin, since it began (history)

fileVars    == <<disk, runs, writing, finalizing, reports, revisions, during>>
requestVars == <<stage, left, cache, bundle>>
statusVars  == <<fileVars, requestVars, together>>

EnduranceFiles == {"resolved", "checkpoint", "status"}
Reports        == {"campaign", "objective", "product"}
File == EnduranceFiles \cup Reports \cup {"generators", "evidence", "receipt", "receiptV2"}

\* A document of an endurance campaign: whose it is and how far.  A dry run binds a
\* synthetic throughput floor, a real one a verified floor.
Documents == [run : Nat, state : {"planned", "running", "complete"}, kind : {"real", "dry"}]
Lineages  == [EnduranceFiles -> Documents]

\* What is reported of a campaign, of the objective and of the product, and the receipts
\* that pin files by their content.  Of a campaign these are three facts: its endurance run
\* was accepted, the decision over all requirements accepts it, and the decision's status
\* says accepted or it allows a final claim.
CampaignReports  == [report : Nat, endurance : BOOLEAN, accepted : BOOLEAN, claims : BOOLEAN,
                     pins : Lineages \cup {Absent}]
ObjectiveReports == [report : Nat, campaign : CampaignReports, checkpoint : Documents,
                     status : Documents, complete : BOOLEAN]
ProductReports   == [report : Nat, ready : BOOLEAN]
AnyReport        == CampaignReports \cup ObjectiveReports \cup ProductReports

\* overall is the campaign_overall_accepted of the receipt's semantics.
Receipts   == [run : Nat, whole : BOOLEAN, overall : BOOLEAN,
               inputs : [EnduranceFiles \cup {"generators"} -> Documents \cup Nat],
               outputs : [Reports -> AnyReport \cup {Absent}]]
ReceiptsV2 == [whole : BOOLEAN, inputs : [{"evidence"} -> Nat],
               outputs : [{"objective", "product"} -> AnyReport \cup {Absent}]]

\* No file contains what stands for a missing or an unread one.
ASSUME StatusMarks ==
  /\ Absent # Unread
  /\ \A mark \in {Absent, Unread} :
       mark \notin Documents \cup Nat \cup Lineages \cup AnyReport \cup Receipts \cup ReceiptsV2

Document(run, state, kind) == [run |-> run, state |-> state, kind |-> kind]

Written(f, content) == disk' = [disk EXCEPT ![f] = content]

\* A campaign has been through and its report was made, or only its rehearsal, and there is
\* a report of before the endurance campaigns, which may claim acceptance; or the campaign
\* is finalized as well.  The decision may be against it for a hardware blocker.
StatusInit ==
  /\ \E past \in {"real", "dry", "finalized"}, accepted, claims \in BOOLEAN :
       LET docs == [f \in EnduranceFiles |->
                      Document(0, IF f = "resolved" THEN "planned" ELSE "complete",
                               IF past = "dry" THEN "dry" ELSE "real")]
           report == [report |-> 0, endurance |-> past # "dry", accepted |-> accepted,
                      claims |-> IF past = "dry" THEN claims ELSE accepted,
                      pins |-> IF past = "dry" THEN Absent ELSE docs]
           made == [campaign |-> report,
                    objective |-> [report |-> 0, campaign |-> report, complete |-> TRUE,
                                   checkpoint |-> docs["checkpoint"], status |-> docs["status"]],
                    product |-> [report |-> 0, ready |-> FALSE]]
       IN  disk = [f \in File |->
                     CASE f \in EnduranceFiles -> docs[f]
                       [] f \in {"generators", "evidence"} -> 1
                       [] f = "campaign" \/ (f \in Reports /\ past = "finalized") -> made[f]
                       [] f = "receipt" /\ past = "finalized" ->
                            [run |-> 0, whole |-> TRUE, overall |-> accepted, outputs |-> made,
                             inputs |-> [g \in EnduranceFiles \cup {"generators"} |->
                                           IF g = "generators" THEN 1 ELSE docs[g]]]
                       [] OTHER -> Absent]
  /\ runs = 0 /\ writing = <<>> /\ finalizing = <<>> /\ reports = 0
  /\ revisions = 0 /\ during = 0
  /\ stage = "idle" /\ left = <<>>
  /\ cache = [f \in File |-> Unread]
  /\ bundle = [v1 |-> "unread", v2 |-> "unread"]
  /\ together = [v1 |-> {}, v2 |-> {}]

-----------------------------------------------------------------------------
(* The endurance documents and what is bound to them *)

\* The live lineage: three readable documents of one campaign, checkpoint and status equal.
Coherent(docs) ==
  /\ \A f \in EnduranceFiles : docs[f] # Absent
  /\ docs["checkpoint"] = docs["status"]
  /\ docs["resolved"].run = docs["status"].run
  /\ docs["resolved"].kind = docs["status"].kind

\* What a receipt asks of them on top: the real campaign is complete.
Completed(docs) ==
  Coherent(docs) /\ docs["status"].state = "complete" /\ docs["status"].kind = "real"

\* A campaign report pins the three documents.
CampaignMatches(report, docs) == Coherent(docs) /\ report.pins = docs

\* An objective report pins the campaign report, the checkpoint and the status.
ObjectiveMatches(report, campaign, docs) ==
  /\ report # Absent /\ campaign # Absent /\ CampaignMatches(campaign, docs)
  /\ report.campaign = campaign
  /\ report.checkpoint = docs["checkpoint"] /\ report.status = docs["status"]

-----------------------------------------------------------------------------
(* The writers, as the receipts describe them *)

Docs == [f \in EnduranceFiles |-> disk[f]]

NobodyWrites == writing = <<>> /\ finalizing = <<>>

StartEndurance ==
  /\ NobodyWrites /\ runs < MaxEnduranceRuns
  /\ runs' = runs + 1
  /\ writing' = << <<"resolved", Document(runs', "planned", "real")>>,
                   <<"checkpoint", Document(runs', "running", "real")>>,
                   <<"status", Document(runs', "running", "real")>> >>
  /\ UNCHANGED <<disk, finalizing, reports, revisions, requestVars>>

CompleteEndurance ==
  /\ NobodyWrites /\ disk["status"] # Absent /\ disk["status"].state = "running"
  /\ LET final == [disk["status"] EXCEPT !.state = "complete"]
     IN  writing' = << <<"checkpoint", final>>, <<"status", final>> >>
  /\ UNCHANGED <<disk, runs, finalizing, reports, revisions, requestVars>>

WriteDocument ==
  /\ writing # <<>>
  /\ Written(Head(writing)[1], Head(writing)[2])
  /\ writing' = Tail(writing)
  /\ UNCHANGED <<runs, finalizing, reports, revisions, requestVars>>

\* What a generator may make of the files as they are.  A hardware blocker refuses the
\* decision although every requirement passes.
NewReports(f) ==
  CASE f = "campaign" ->
         {[report |-> reports', pins |-> Docs, endurance |-> Completed(Docs),
           accepted |-> decided, claims |-> decided] : decided \in {FALSE, Completed(Docs)}}
    [] f = "objective" ->
         {[report |-> reports', campaign |-> disk["campaign"],
           checkpoint |-> disk["checkpoint"], status |-> disk["status"],
           complete |-> Completed(Docs) /\ disk["campaign"].endurance]}
    [] f = "product" ->
         {[report |-> reports',
           ready |-> finalizing # <<>> /\ finalizing[Len(finalizing)] = "receiptV2"]}

GenerateReport(f) ==
  /\ reports < MaxReports
  /\ reports' = reports + 1
  /\ \E report \in NewReports(f) : Written(f, report)

\* Somebody runs a generator by hand: no lock is asked for.
Regenerate ==
  /\ \E f \in {"campaign", "objective"} : GenerateReport(f)
  /\ UNCHANGED <<runs, writing, finalizing, revisions, requestVars>>

StartFinalizer ==
  /\ NobodyWrites /\ Completed(Docs)
  /\ \/ disk["receipt"] = Absent
        /\ finalizing' = <<"campaign", "objective", "product", "receipt">>
     \/ disk["receiptV2"] = Absent /\ CampaignMatches(disk["campaign"], Docs)
        /\ finalizing' = <<"objective", "product", "receiptV2">>
  /\ UNCHANGED <<disk, runs, writing, reports, revisions, requestVars>>

\* The bundle is verified once more before its receipt is written, whatever was decided.
BundleVerified ==
  /\ ObjectiveMatches(disk["objective"], disk["campaign"], Docs)
  /\ disk["campaign"].endurance /\ disk["objective"].complete

Receipt ==
  [run |-> disk["status"].run, whole |-> TRUE, overall |-> disk["campaign"].accepted,
   inputs |-> [f \in EnduranceFiles \cup {"generators"} |-> disk[f]],
   outputs |-> [f \in Reports |-> disk[f]]]

ReceiptV2 ==
  [whole |-> TRUE,
   inputs |-> [f \in {"evidence"} |-> disk[f]],
   outputs |-> [f \in {"objective", "product"} |-> disk[f]]]

FinalizerWrites ==
  /\ finalizing # <<>>
  /\ LET f == Head(finalizing) IN
     IF f \in Reports THEN GenerateReport(f) /\ finalizing' = Tail(finalizing)
     ELSE /\ finalizing' = <<>>
          /\ IF BundleVerified
             THEN Written(f, IF f = "receipt" THEN Receipt ELSE ReceiptV2)
             ELSE disk' = disk
          /\ UNCHANGED reports
  /\ UNCHANGED <<runs, writing, revisions, requestVars>>

\* A writer dies: what it had still to write is never written, its lock is free.
KillWriter ==
  /\ ~NobodyWrites
  /\ writing' = <<>> /\ finalizing' = <<>>
  /\ UNCHANGED <<disk, runs, reports, revisions, requestVars>>

Revise ==
  /\ revisions < MaxRevisions /\ revisions' = revisions + 1
  /\ \/ \E f \in {"generators", "evidence"} : Written(f, disk[f] + 1)
     \/ \E f \in {"receipt", "receiptV2"} :
          disk[f] # Absent /\ Written(f, [disk[f] EXCEPT !.whole = FALSE])
  /\ UNCHANGED <<runs, writing, finalizing, reports, requestVars>>

-----------------------------------------------------------------------------
(* The request *)

\* Mutant of ReadOnce: no cache, every look opens the file again.
ReadAgain(f) == [cache EXCEPT ![f] = disk[f]]

\* ArtifactReader.read: a file is read once per request.
ReadOnce(f) == IF cache[f] = Unread THEN [cache EXCEPT ![f] = disk[f]] ELSE cache

\* Mutant of InputHolds: the pinned file only has to be there.
InputExists(pin, f) == disk[f] # Absent

\* verify_finalization_input_pin: the file itself is hashed, whatever was read before.
InputHolds(pin, f) == disk[f] = pin

Judge(receipt, verdict) == bundle' = [bundle EXCEPT ![receipt] = verdict]

Enter(next, files) == stage' = next /\ left' = files

\* A receipt has the shape, the fingerprint, the identity and the pins of its contract: one
\* that was edited has not.
WellFormed(receipt) == receipt.whole

\* _finalization_bundle and _product_finalization_v2 begin with their receipt.
ReadReceipt(file, version, inputs, inputStage, after) ==
  /\ cache' = ReadOnce(file)
  /\ IF cache'[file] = Absent
     THEN Judge(version, "pending") /\ Enter(after[1], after[2])
     ELSE IF ~WellFormed(cache'[file])
     THEN Judge(version, "invalid") /\ Enter(after[1], after[2])
     ELSE Enter(inputStage, inputs) /\ UNCHANGED bundle
  /\ UNCHANGED fileVars

Sections == <<"objective", "resolved", "checkpoint", "status", "campaign", "product">>

BeginRequest ==
  /\ stage = "idle"
  /\ ReadReceipt("receipt", "v1", <<"checkpoint", "status", "resolved", "generators">>,
                 "inputs", <<"receiptV2", <<>> >>)

ReadReceiptV2 ==
  /\ stage = "receiptV2"
  /\ ReadReceipt("receiptV2", "v2", <<"evidence">>, "inputsV2", <<"sections", Sections>>)

\* One pinned input after the other, as it is on the disk now.
VerifyInput(file, version, next, after) ==
  /\ LET f == Head(left)
     IN  IF InputHolds(cache[file].inputs[f], f)
         THEN /\ IF Tail(left) = <<>> THEN Enter(next[1], next[2])
                 ELSE Enter(stage, Tail(left))
              /\ UNCHANGED bundle
         ELSE Judge(version, "stale_lineage") /\ Enter(after[1], after[2])
  /\ UNCHANGED <<cache, fileVars>>

VerifyPins ==
  \/ /\ stage = "inputs"
     /\ VerifyInput("receipt", "v1", <<"lineage", <<"resolved", "checkpoint", "status">> >>,
                    <<"receiptV2", <<>> >>)
  \/ /\ stage = "inputsV2"
     /\ VerifyInput("receiptV2", "v2", <<"outputsV2", <<"objective", "product">> >>,
                    <<"sections", Sections>>)

\* Then the live lineage, read through the cache, has to be the identity of the receipt.
IdentityHolds(docs) == Completed(docs) /\ docs["status"].run = cache["receipt"].run

ReadLineage ==
  /\ stage = "lineage"
  /\ cache' = ReadOnce(Head(left))
  /\ IF Tail(left) # <<>> THEN Enter(stage, Tail(left)) /\ UNCHANGED bundle
     ELSE IF IdentityHolds([f \in EnduranceFiles |-> cache'[f]])
     THEN Enter("outputs", <<"campaign", "objective", "product">>) /\ UNCHANGED bundle
     ELSE Judge("v1", "stale_lineage") /\ Enter("receiptV2", <<>>)
  /\ UNCHANGED fileVars

\* What the outputs of a receipt have to say: the endurance run was accepted, and the
\* decision over the campaign, for or against it, is the one that the receipt states.
SemanticsHold(version, read) ==
  /\ read["objective"].complete
  /\ IF version = "v1"
     THEN /\ read["campaign"].endurance
          /\ read["campaign"].accepted = read["receipt"].overall
     ELSE read["product"].ready

VerifyOutput(file, version, mismatch, after) ==
  /\ LET f == Head(left) IN
     /\ cache' = ReadOnce(f)
     /\ IF cache'[f] # cache[file].outputs[f]
        THEN Judge(version, mismatch) /\ Enter(after[1], after[2])
        ELSE IF Tail(left) # <<>> THEN Enter(stage, Tail(left)) /\ UNCHANGED bundle
        ELSE /\ Judge(version, IF SemanticsHold(version, cache') THEN "complete" ELSE "invalid")
             /\ Enter(after[1], after[2])
  /\ UNCHANGED fileVars

VerifyOutputs ==
  \/ stage = "outputs" /\ VerifyOutput("receipt", "v1", "invalid", <<"receiptV2", <<>> >>)
  \/ stage = "outputsV2"
     /\ VerifyOutput("receiptV2", "v2", "stale_lineage", <<"sections", Sections>>)

\* The sections read what they show, through the same cache.
ReadSection ==
  /\ stage = "sections"
  /\ cache' = ReadOnce(Head(left))
  /\ IF Tail(left) = <<>> THEN Enter("shown", <<>>) ELSE Enter(stage, Tail(left))
  /\ UNCHANGED <<bundle, fileVars>>

RequestStep ==
  \/ BeginRequest \/ ReadReceiptV2 \/ VerifyPins
  \/ ReadLineage \/ VerifyOutputs \/ ReadSection

\* After the page is shown nothing can change it: the writers rest.
WritersMay ==
  \/ stage = "idle" /\ during' = during
  \/ stage \notin {"idle", "shown"} /\ during < MaxDuring /\ during' = during + 1

StatusStep ==
  \/ RequestStep
  \/ /\ WritersMay
     /\ \/ StartEndurance \/ CompleteEndurance \/ WriteDocument
        \/ Regenerate \/ StartFinalizer \/ FinalizerWrites \/ KillWriter \/ Revise

ReceiptFile(version) == IF version = "v1" THEN "receipt" ELSE "receiptV2"

\* The receipt on the disk, if everything that it pins lies there as it is pinned.
HoldsNow(version) ==
  {receipt \in {disk[ReceiptFile(version)]} :
     /\ receipt # Absent
     /\ \A f \in DOMAIN receipt.inputs : disk[f] = receipt.inputs[f]
     /\ \A f \in DOMAIN receipt.outputs : disk[f] = receipt.outputs[f]}

StatusNext ==
  /\ StatusStep
  /\ together' = [version \in {"v1", "v2"} |->
                    together[version] \cup IF stage' = "idle" THEN {} ELSE HoldsNow(version)']

-----------------------------------------------------------------------------
(* What the page shows, from what the request has read *)

ShownDocs == [f \in EnduranceFiles |-> cache[f]]

\* Mutant of CampaignReason: only the decision's accepted is taken for a claim.
AcceptedOnlyReason ==
  LET report == cache["campaign"] IN
  IF report.pins # Absent
  THEN IF CampaignMatches(report, ShownDocs) THEN "none" ELSE "stale_lineage"
  ELSE IF report.accepted THEN "unbound_acceptance_claim" ELSE "none"

\* _campaign_report: why the report is not taken at its word, if it is not.
CampaignReason ==
  LET report == cache["campaign"] IN
  IF report.pins # Absent
  THEN IF CampaignMatches(report, ShownDocs) THEN "none" ELSE "stale_lineage"
  ELSE IF report.accepted \/ report.claims THEN "unbound_acceptance_claim" ELSE "none"

\* The decision that the page shows, and whether it shows its status or its final claim.
CampaignAccepted == CampaignReason = "none" /\ cache["campaign"].accepted
CampaignClaims   == CampaignReason = "none" /\ cache["campaign"].claims

\* _objective_completion
ObjectiveReason ==
  IF cache["objective"] = Absent
     \/ ObjectiveMatches(cache["objective"], cache["campaign"], ShownDocs)
  THEN "none" ELSE "stale_lineage"

ObjectiveComplete ==
  cache["objective"] # Absent /\ ObjectiveReason = "none" /\ cache["objective"].complete

\* _throughput_floor_projection: only a real campaign binds a verified floor.
FloorVerified(status) == status.kind = "real"

\* _endurance: without a verified floor the campaign asks for attention, whatever it says.
EnduranceState ==
  LET status == cache["status"] IN
  IF FloorVerified(status) THEN status.state ELSE "attention"

Committed == {version \in {"v1", "v2"} : bundle[version] = "complete"}

\* Mutant of Finalized: a committed receipt marks its sections, whatever they found.
FinalizedOnceCommitted(section) ==
  IF section = "campaign" THEN "v1" \in Committed ELSE Committed # {}

\* load_validation_status: which sections carry the finalized mark.
Finalized(section) ==
  CASE section = "campaign" -> "v1" \in Committed /\ CampaignReason # "stale_lineage"
    [] section = "objective" -> Committed # {} /\ ObjectiveReason # "stale_lineage"
    [] section = "product" -> Committed # {}

-----------------------------------------------------------------------------
(* Properties *)

ReceiptOf(version) == cache[ReceiptFile(version)]

\* A receipt that the page calls committed was true as a whole at one moment of the request:
\* it lay on the disk with every input and every output as it pins them, although they are
\* looked at one after the other, some through the cache, while others write.
CommittedWasTrue == \A version \in Committed : ReceiptOf(version) \in together[version]

\* Whatever is marked finalized belongs together on the page: the campaign report binds
\* the endurance documents shown, which are of the receipt's complete real run, and the
\* decision shown, accepted or not, is the one that the receipt states; the objective binds
\* that very campaign report; the product is the one of the same receipt.
FinalizedIsOneRun == stage = "shown" =>
  /\ Finalized("campaign") =>
       /\ CampaignMatches(cache["campaign"], ShownDocs) /\ EnduranceState = "complete"
       /\ cache["status"].run = cache["receipt"].run
       /\ CampaignAccepted = cache["receipt"].overall
  /\ Finalized("objective") =>
       /\ ObjectiveComplete /\ CampaignReason = "none" /\ EnduranceState = "complete"
       /\ cache["objective"].campaign = cache["campaign"]
  /\ Finalized("product") =>
       \E version \in Committed : \A f \in {"objective", "product"} :
         cache[f] = ReceiptOf(version).outputs[f]

\* No acceptance and no final claim is shown beside documents it was not made from: the
\* report on the page pins exactly the documents on the page, and they are of a complete
\* real campaign.
AcceptedIsBound == stage = "shown" /\ (CampaignAccepted \/ CampaignClaims) =>
  CampaignMatches(cache["campaign"], ShownDocs) /\ EnduranceState = "complete"

StatusIsHonest == CommittedWasTrue /\ FinalizedIsOneRun /\ AcceptedIsBound
=============================================================================
