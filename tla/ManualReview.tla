---------------------------- MODULE ManualReview ----------------------------
(***************************************************************************)
(* ManualReviewService of admin/manual_review.py: reviewers decide sampled *)
(* detections, SQLite keeps the decisions with an append-only audit, and   *)
(* two JSONL files are derived from it after each commit.                  *)
(*                                                                         *)
(* A transaction (BEGIN IMMEDIATE .. commit) is one step.  What surrounds  *)
(* it is not: the context (source file and asset index) is read before it, *)
(* the files are written after it, one after the other, under a lock.      *)
(***************************************************************************)
EXTENDS Naturals, Sequences, FiniteSets

CONSTANTS
  Reviewer,         \* threads that serve requests
  Decision,         \* decision ids, "source:profile"
  MaxEvents,        \* MAX_AUDIT_EVENTS
  MaxIndexes,       \* bound: contents of the asset index file
  MaxReviewFaults,  \* bound: failing exports and killed services
  MaxReads          \* bound: details that were read

Unlocked == 0       \* nobody holds the export lock

ASSUME ManualReviewAssumption ==
  /\ Unlocked \notin Reviewer
  /\ {MaxEvents, MaxIndexes} \subseteq Nat \ {0}
  /\ {MaxReviewFaults, MaxReads} \subseteq Nat

VARIABLES
  assetIndex,       \* contents of the asset index file
  audit,            \* audit_events; the current rows are its heads
  put,              \* per thread: where its review stands
  exportLock,       \* owner of the export lock
  exported,         \* events that each JSONL file was derived from
  missed,           \* an export failed or was killed and none succeeded since
  reviewFaults, reads

reviewVars == <<assetIndex, audit, put, exportLock, exported, missed, reviewFaults, reads>>

NoPut == [step |-> "idle"]

EventsOf(d, events) == Cardinality({i \in DOMAIN events : events[i].decision = d})

-----------------------------------------------------------------------------
(* What a request validates                                                *)

\* _verify_audit_chain and _validate_current_rows: at most MAX_AUDIT_EVENTS
\* events, revisions of a decision without gaps, every event and every row
\* bound to the index of the reader.
Verifies(events, context) ==
  /\ Len(events) <= MaxEvents
  /\ \A i \in DOMAIN events :
       /\ events[i].context = context
       /\ events[i].revision = EventsOf(events[i].decision, SubSeq(events, 1, i))

-----------------------------------------------------------------------------
ManualReviewInit ==
  /\ assetIndex = 1 /\ audit = <<>>
  /\ put = [r \in Reviewer |-> NoPut]
  /\ exportLock = Unlocked /\ exported = [decisions |-> 0, events |-> 0]
  /\ missed = FALSE /\ reviewFaults = 0 /\ reads = 0

Stands(r, step) == put[r].step = step

\* GET of one decision: its ETag is the revision.
ReadDetail(r, d) ==
  /\ Stands(r, "idle") /\ reads < MaxReads
  /\ Verifies(audit, assetIndex)
  /\ reads' = reads + 1
  /\ put' = [put EXCEPT ![r] =
               [step |-> "read", decision |-> d, expected |-> EventsOf(d, audit)]]
  /\ UNCHANGED <<assetIndex, audit, exportLock, exported, missed, reviewFaults>>

\* The PUT arrives with a row that is valid and loads its own context.
LoadContext(r) ==
  /\ Stands(r, "read")
  /\ put' = [put EXCEPT ![r] =
               [step |-> "loaded", decision |-> put[r].decision,
                expected |-> put[r].expected, context |-> assetIndex]]
  /\ UNCHANGED <<assetIndex, audit, exportLock, exported, missed, reviewFaults, reads>>

CurrentRevision(r) == EventsOf(put[r].decision, audit) = put[r].expected

WithEvent(r) ==
  Append(audit, [decision |-> put[r].decision, context |-> put[r].context,
                 revision |-> EventsOf(put[r].decision, audit) + 1,
                 seen |-> put[r].expected])

\* Defect: the audit is verified before the event is added, and not again.
VerifiedBefore(r) == Verifies(audit, put[r].context) /\ CurrentRevision(r)

\* Defect: the If-Match revision is not compared.
AcceptsStale(r) == Verifies(audit, put[r].context) /\ Verifies(WithEvent(r), put[r].context)

\* The audit verifies before and after the event, and the revision is the
\* one that the reviewer read.
Commits(r) ==
  /\ Verifies(audit, put[r].context)
  /\ CurrentRevision(r)
  /\ Verifies(WithEvent(r), put[r].context)

Commit(r) ==
  /\ Stands(r, "loaded")
  /\ IF Commits(r)
     THEN /\ audit' = WithEvent(r)
          /\ put' = [put EXCEPT ![r] = [step |-> "committed", context |-> put[r].context,
                                        own |-> Len(audit) + 1]]
     ELSE put' = [put EXCEPT ![r] = NoPut] /\ UNCHANGED audit
  /\ UNCHANGED <<assetIndex, exportLock, exported, missed, reviewFaults, reads>>

-----------------------------------------------------------------------------
(* _export_jsonl                                                           *)

\* Defect: the lock is not released when the database cannot be read.
KeepsExportLock(r, failed) ==
  /\ UNCHANGED exportLock
  /\ missed' = failed
  /\ put' = [put EXCEPT ![r] = NoPut]

LockExport(r) ==
  /\ Stands(r, "committed") /\ exportLock = Unlocked
  /\ exportLock' = r
  /\ put' = [put EXCEPT ![r].step = "locked"]
  /\ UNCHANGED <<assetIndex, audit, exported, missed, reviewFaults, reads>>

\* Defect: the rows are those of the transaction that the put committed.
OwnCommit(r) == put[r].own

\* The rows are read again once the lock is held.
SnapshotOf(r) == Len(audit)

EndExport(r, failed) ==
  /\ exportLock' = Unlocked
  /\ missed' = failed
  /\ put' = [put EXCEPT ![r] = NoPut]

Snapshot(r) ==
  /\ Stands(r, "locked")
  /\ IF Verifies(audit, put[r].context)
     THEN /\ put' = [put EXCEPT ![r] = [step |-> "exporting", rows |-> SnapshotOf(r)]]
          /\ UNCHANGED <<exportLock, missed>>
     ELSE EndExport(r, TRUE)
  /\ UNCHANGED <<assetIndex, audit, exported, reviewFaults, reads>>

WriteDecisions(r) ==
  /\ Stands(r, "exporting")
  /\ exported' = [exported EXCEPT !.decisions = put[r].rows]
  /\ put' = [put EXCEPT ![r].step = "half"]
  /\ UNCHANGED <<assetIndex, audit, exportLock, missed, reviewFaults, reads>>

\* Defect: only the decisions are written.
SkipsEvents(r) ==
  /\ Stands(r, "half") /\ EndExport(r, FALSE)
  /\ UNCHANGED <<assetIndex, audit, exported, reviewFaults, reads>>

WriteEvents(r) ==
  /\ Stands(r, "half")
  /\ exported' = [exported EXCEPT !.events = put[r].rows]
  /\ EndExport(r, FALSE)
  /\ UNCHANGED <<assetIndex, audit, reviewFaults, reads>>

\* The commit stands; the answer says exports_current = false.
ExportFails(r) ==
  /\ put[r].step \in {"locked", "exporting", "half"} /\ reviewFaults < MaxReviewFaults
  /\ reviewFaults' = reviewFaults + 1
  /\ EndExport(r, TRUE)
  /\ UNCHANGED <<assetIndex, audit, exported, reads>>

-----------------------------------------------------------------------------
\* The sources are packaged again while the service runs.
ReplaceIndex ==
  /\ assetIndex < MaxIndexes
  /\ assetIndex' = assetIndex + 1
  /\ UNCHANGED <<audit, put, exportLock, exported, missed, reviewFaults, reads>>

CrashReview ==
  /\ reviewFaults < MaxReviewFaults
  /\ reviewFaults' = reviewFaults + 1
  /\ missed' = (missed \/ \E r \in Reviewer :
                  put[r].step \in {"committed", "locked", "exporting", "half"})
  /\ put' = [r \in Reviewer |-> NoPut]
  /\ exportLock' = Unlocked
  /\ UNCHANGED <<assetIndex, audit, exported, reads>>

PutStep(r) ==
  LoadContext(r) \/ Commit(r) \/ LockExport(r) \/ Snapshot(r) \/ WriteDecisions(r)
    \/ WriteEvents(r)

ManualReviewNext ==
  \/ \E r \in Reviewer :
       PutStep(r) \/ ExportFails(r) \/ \E d \in Decision : ReadDetail(r, d)
  \/ ReplaceIndex \/ CrashReview

ManualReviewFairness == \A r \in Reviewer : WF_reviewVars(PutStep(r))

ManualReviewSpec == ManualReviewInit /\ [][ManualReviewNext]_reviewVars /\ ManualReviewFairness

-----------------------------------------------------------------------------
\* Types of the database, the files and the requests.
ManualReviewTypeOK ==
  /\ assetIndex \in 1..MaxIndexes /\ exportLock \in Reviewer \cup {Unlocked}
  /\ \A i \in DOMAIN audit : audit[i].decision \in Decision /\ audit[i].context \in 1..MaxIndexes
  /\ \A r \in Reviewer :
       (exportLock = r) <=> put[r].step \in {"locked", "exporting", "half"}
  /\ exported.decisions \in 0..Len(audit) /\ exported.events \in 0..Len(audit)

\* Every decision was made on the revision that it replaces: of reviewers who
\* read the same one, a single put succeeds (put, expected_revision).
NoDecisionLost == \A i \in DOMAIN audit : audit[i].seen = audit[i].revision - 1

\* The store never holds more than it can read back: whatever is committed
\* verifies under one index, the limit on events included, so that the last
\* put before the limit cannot lock every reader out (MAX_AUDIT_EVENTS).
StoreReadsBack == \E context \in 1..MaxIndexes : Verifies(audit, context)

\* The derived files never go back to an earlier state of the database,
\* whatever the order in which the puts export (_export_jsonl, the snapshot
\* under the lock).
ExportNotOlder ==
  [][exported'.decisions >= exported.decisions /\ exported'.events >= exported.events]_reviewVars

\* With no export under way and none missed since, both files hold every
\* commit: each put exports or finds its decision exported.
ExportCatchesUp ==
  ~missed /\ (\A r \in Reviewer : put[r].step \in {"idle", "read", "loaded"})
    => exported = [decisions |-> Len(audit), events |-> Len(audit)]

\* Nobody keeps the export lock, whether the database can be read or not.
ExportsEnd == exportLock # Unlocked ~> exportLock = Unlocked

\* The three together: what racing reviewers, a limit on events and failing
\* exports must not do to the decisions.
ReviewsSafe == NoDecisionLost /\ StoreReadsBack /\ ExportCatchesUp
=============================================================================
