----------------------------- MODULE PpeHumanQa -----------------------------
(***************************************************************************)
(* PpeHumanQaService of admin/ppe_human_qa.py: one reviewer decides the    *)
(* samples and the policies of a fixed packet, in an append-only audit     *)
(* that is verified as a whole on every read and before every commit.      *)
(*                                                                         *)
(* A transaction is one step.  The time of a decision is taken before it,  *)
(* so that two requests may commit in the other order, and the clock of    *)
(* the host may be set back.                                               *)
(***************************************************************************)
EXTENDS Naturals, Sequences, FiniteSets

CONSTANTS
  QaThread,         \* threads that serve requests
  Identity,         \* who may claim to be the reviewer
  Entity,           \* samples and policies of the packet
  Sample,           \* those of them that have a tile
  MaxQaEvents,      \* MAX_AUDIT_EVENTS
  MaxClock,         \* bound: values of the clock
  MaxQaReads        \* bound: entities that were read

ASSUME PpeHumanQaAssumption ==
  /\ Sample \subseteq Entity /\ IsFiniteSet(Entity)
  /\ {MaxQaEvents, MaxClock} \subseteq Nat \ {0} /\ MaxQaReads \in Nat

VARIABLES
  qaAudit,          \* audit_events
  deciding,          \* per thread: its decision on the way
  clock,            \* of the host
  spoilt,           \* samples whose tile no longer has its pinned bytes
  qaReads

qaVars == <<qaAudit, deciding, clock, spoilt, qaReads>>

NoDecision == [stage |-> "idle"]

QaRevision(e, events) == Cardinality({i \in DOMAIN events : events[i].entity = e})
DecidedIn(events) == {events[i].entity : i \in DOMAIN events}
CompleteIn(events) == DecidedIn(events) = Entity

\* _read_audit: revisions without gaps, times that do not go back, a single
\* reviewer, nothing after the last entity was decided, and every decided
\* tile intact.
AuditVerifies(events) ==
  /\ Len(events) <= MaxQaEvents
  /\ \A i \in DOMAIN events :
       /\ ~CompleteIn(SubSeq(events, 1, i - 1))
       /\ events[i].revision = QaRevision(events[i].entity, SubSeq(events, 1, i))
       /\ events[i].reviewer = events[1].reviewer
       /\ i > 1 => events[i].at >= events[i - 1].at
  /\ DecidedIn(events) \cap spoilt = {}

-----------------------------------------------------------------------------
PpeHumanQaInit ==
  /\ qaAudit = <<>> /\ deciding = [t \in QaThread |-> NoDecision]
  /\ clock = 1 /\ spoilt = {} /\ qaReads = 0

\* GET of one sample or policy, with its ETag.
ReadEntity(t, e, who) ==
  /\ deciding[t].stage = "idle" /\ qaReads < MaxQaReads
  /\ AuditVerifies(qaAudit)
  /\ qaReads' = qaReads + 1
  /\ deciding' = [deciding EXCEPT ![t] =
       [stage |-> "read", entity |-> e, expected |-> QaRevision(e, qaAudit), reviewer |-> who]]
  /\ UNCHANGED <<qaAudit, clock, spoilt>>

\* put_sample verifies the tile; both handlers take the time of the decision.
TakeTime(t) ==
  /\ deciding[t].stage = "read"
  /\ deciding' = [deciding EXCEPT ![t] =
       IF deciding[t].entity \in spoilt THEN NoDecision
       ELSE [stage |-> "timed", entity |-> deciding[t].entity,
             expected |-> deciding[t].expected, reviewer |-> deciding[t].reviewer,
             at |-> clock]]
  /\ UNCHANGED <<qaAudit, clock, spoilt, qaReads>>

QaEvent(t) ==
  [entity |-> deciding[t].entity, reviewer |-> deciding[t].reviewer, at |-> deciding[t].at,
   revision |-> QaRevision(deciding[t].entity, qaAudit) + 1,
   seen |-> deciding[t].expected]

\* Defect: a completed review is not refused and the event not replayed.
AcceptsLate(t) ==
  /\ \A i \in DOMAIN qaAudit : qaAudit[i].reviewer = deciding[t].reviewer
  /\ deciding[t].expected = QaRevision(deciding[t].entity, qaAudit)

\* Defect: nothing is replayed before the commit.
WithoutReplay(t) ==
  /\ AuditVerifies(qaAudit) /\ ~CompleteIn(qaAudit)
  /\ \A i \in DOMAIN qaAudit : qaAudit[i].reviewer = deciding[t].reviewer
  /\ deciding[t].expected = QaRevision(deciding[t].entity, qaAudit)

\* Defect: the revision of the reader is not compared.
WithoutRevision(t) ==
  /\ AuditVerifies(qaAudit) /\ ~CompleteIn(qaAudit)
  /\ AuditVerifies(Append(qaAudit, QaEvent(t)))

\* _put: 409 after completion and for another reviewer, 412 for a stale
\* revision, 503 when the audit with the event does not verify.
QaCommits(t) ==
  /\ AuditVerifies(qaAudit)
  /\ ~CompleteIn(qaAudit)
  /\ \A i \in DOMAIN qaAudit : qaAudit[i].reviewer = deciding[t].reviewer
  /\ deciding[t].expected = QaRevision(deciding[t].entity, qaAudit)
  /\ AuditVerifies(Append(qaAudit, QaEvent(t)))

PutDecision(t) ==
  /\ deciding[t].stage = "timed"
  /\ deciding' = [deciding EXCEPT ![t] = NoDecision]
  /\ qaAudit' = IF QaCommits(t) THEN Append(qaAudit, QaEvent(t)) ELSE qaAudit
  /\ UNCHANGED <<clock, spoilt, qaReads>>

\* Time passes, or the clock is corrected.
SetClock(now) ==
  /\ now # clock /\ clock' = now
  /\ UNCHANGED <<qaAudit, deciding, spoilt, qaReads>>

\* A tile of the packet is damaged on disk.
SpoilTile(e) ==
  /\ e \in Sample \ spoilt /\ spoilt' = spoilt \cup {e}
  /\ UNCHANGED <<qaAudit, deciding, clock, qaReads>>

\* The service is killed: what was not committed is gone.
RestartQa ==
  /\ deciding' = [t \in QaThread |-> NoDecision]
  /\ UNCHANGED <<qaAudit, clock, spoilt, qaReads>>

DecisionStep(t) == TakeTime(t) \/ PutDecision(t)

PpeHumanQaNext ==
  \/ \E t \in QaThread :
       DecisionStep(t) \/ \E e \in Entity, who \in Identity : ReadEntity(t, e, who)
  \/ \E now \in 1..MaxClock : SetClock(now)
  \/ \E e \in Sample : SpoilTile(e)
  \/ RestartQa

PpeHumanQaSpec == PpeHumanQaInit /\ [][PpeHumanQaNext]_qaVars

-----------------------------------------------------------------------------
\* Types of the audit and of the requests.
PpeHumanQaTypeOK ==
  /\ \A i \in DOMAIN qaAudit :
       qaAudit[i].entity \in Entity /\ qaAudit[i].reviewer \in Identity /\ qaAudit[i].at \in 1..MaxClock
  /\ clock \in 1..MaxClock /\ spoilt \subseteq Sample
  /\ \A t \in QaThread : deciding[t].stage \in {"idle", "read", "timed"}

\* What is committed can be read back, as long as no tile is damaged: no race
\* of two decisions, no clock and no limit makes the audit unreadable
\* (_put, the replay before the commit).
QaReadsBack ==
  spoilt \cap DecidedIn(qaAudit) = {} => AuditVerifies(qaAudit)

\* Every decision replaces the one that its reviewer had read (If-Match).
QaDecisionSeen == \A i \in DOMAIN qaAudit : qaAudit[i].seen = qaAudit[i].revision - 1

\* A complete review stays as it is, and it belongs to one reviewer.
CompletionIsFinal == [][CompleteIn(qaAudit) => qaAudit' = qaAudit]_qaVars

\* Both together: what racing decisions and clocks must not do to the audit.
QaSafe == QaReadsBack /\ QaDecisionSeen
=============================================================================
