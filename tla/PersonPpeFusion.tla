-------------------------- MODULE PersonPpeFusion --------------------------
(***************************************************************************)
(* The temporal state of content/person_ppe_fusion.py: one ordered camera  *)
(* stream is fused into per-person PPE decisions.                          *)
(*                                                                         *)
(* Every tracked person has one channel per equipment class.  A channel is *)
(* a debounced decision (present, absent, unknown): a frame contributes    *)
(* one piece of evidence, runs of equal evidence are counted, and a run    *)
(* that is long enough becomes the decision.  An absent decision is an     *)
(* alarm; its start and its end are reported as events.                    *)
(*                                                                         *)
(* Boxes, scores and confidences are abstracted to the outcomes the code   *)
(* derives from them: which detection continues which track, and what the  *)
(* frame shows of each equipment of a visible person.                      *)
(***************************************************************************)
EXTENDS Integers

CONSTANTS
  Equipment,        \* the channels of a person: "helmet" and "hi_vis"
  Inferred,         \* the channels whose absence is inferred from misses
  TrackId,          \* the track ids that may occur, a set of naturals
  TrackTtl,         \* track_ttl_frames
  AlarmEnter,       \* alarm_enter_frames
  InferredEnter,    \* inferred_absence_enter_frames
  Grace,            \* verified_present_missing_grace_frames
  AlarmClear,       \* alarm_clear_frames
  UnknownAfter,     \* unknown_after_frames
  NewPeople,        \* bound: detections that get a new id in one frame
  StreakCap         \* bound: a streak saturates here (not in the code)

\* PersonPpeFusionConfig.validate: every count of frames is positive.
ASSUME ConfigAssumption ==
  /\ Inferred \subseteq Equipment
  /\ TrackId \subseteq Nat
  /\ {TrackTtl, AlarmEnter, InferredEnter, Grace, AlarmClear, UnknownAfter}
       \subseteq Nat \ {0}

\* A saturated streak has passed every threshold, so no comparison is changed.
ASSUME BoundAssumption ==
  /\ NewPeople \in Nat
  /\ StreakCap \in Nat
  /\ \A n \in {AlarmEnter, InferredEnter, Grace, AlarmClear, UnknownAfter} :
       n <= StreakCap

VARIABLES
  tracks,           \* the live tracks: a function from live ids to tracks
  nextTrackId,      \* the next id to allocate
  started,          \* alarms started by the last frame, pairs <<id, equipment>>
  ended             \* alarms ended by the last frame

vars == <<tracks, nextTrackId, started, ended>>

-----------------------------------------------------------------------------
(* A channel and the evidence of a frame.                                  *)

Decision == {"present", "absent", "unknown"}

Source == {"detector_observation", "conflicting_observations", "grace",
           "inferred", "insufficient", "none"}

Channel == [state : Decision, evidence : Decision, source : Source,
            streak : 0 .. StreakCap]

NewChannel == [state |-> "unknown", evidence |-> "unknown",
               source |-> "none", streak |-> 0]

NewTrack == [missed |-> 0, channel |-> [q \in Equipment |-> NewChannel]]

(* What the frame shows of one equipment of a visible person: a positive   *)
(* or a negative detection won, both are too close to call, the body zone  *)
(* is reliably visible without a detection, or nothing can be said.        *)
Observation == {"present", "absent", "conflict", "visible", "hidden"}

\* The misses already granted to a present channel in the current run.
GraceAge(c) == IF c.source = "grace" THEN c.streak ELSE 0

FrameEvidence(c, q, o) ==
  CASE o \in {"present", "absent"} ->
         [evidence |-> o, source |-> "detector_observation"]
    [] o = "conflict" ->
         [evidence |-> "unknown", source |-> "conflicting_observations"]
    [] o = "visible" /\ q \in Inferred ->
         IF c.state = "present" /\ GraceAge(c) < Grace
           THEN [evidence |-> "unknown", source |-> "grace"]
           ELSE [evidence |-> "absent", source |-> "inferred"]
    [] OTHER ->
         [evidence |-> "unknown", source |-> "insufficient"]

\* The run length at which the evidence becomes the decision.
\* Mutant: misses granted as grace are cleared like any other unknown.
ThresholdWithoutGrace(e) ==
  CASE e.evidence = "absent"  -> IF e.source = "inferred" THEN InferredEnter ELSE AlarmEnter
    [] e.evidence = "present" -> AlarmClear
    [] e.evidence = "unknown" -> UnknownAfter

Threshold(e) ==
  CASE e.evidence = "absent"  -> IF e.source = "inferred" THEN InferredEnter ELSE AlarmEnter
    [] e.evidence = "present" -> AlarmClear
    [] e.evidence = "unknown" -> IF e.source = "grace" THEN Grace ELSE UnknownAfter

Lengthen(n) == IF n < StreakCap THEN n + 1 ELSE n

\* Mutant: the run survives a change of source.
StreakOfEvidence(c, e) ==
  IF c.evidence = e.evidence THEN Lengthen(c.streak) ELSE 1

\* A run continues only while both the evidence and its source repeat.
NextStreak(c, e) ==
  IF c.evidence = e.evidence /\ c.source = e.source
    THEN Lengthen(c.streak) ELSE 1

UpdateChannel(c, e) ==
  [state |-> IF NextStreak(c, e) >= Threshold(e) THEN e.evidence ELSE c.state,
   evidence |-> e.evidence,
   source |-> e.source,
   streak |-> NextStreak(c, e)]

-----------------------------------------------------------------------------
(* Tracks.                                                                 *)

Live == DOMAIN tracks

TrackAt(i) == IF i \in Live THEN tracks[i] ELSE NewTrack

SeenChannel(i, q, obs) ==
  LET c == TrackAt(i).channel[q]
  IN  UpdateChannel(c, FrameEvidence(c, q, obs[i][q]))

SeenTrack(i, obs) ==
  [missed |-> 0, channel |-> [q \in Equipment |-> SeenChannel(i, q, obs)]]

\* Mutant: the miss of this frame is not counted.
ExpiredLate(seen) == {i \in Live \ seen : tracks[i].missed > TrackTtl}

\* The live tracks that this frame misses once too often.
Expired(seen) == {i \in Live \ seen : tracks[i].missed + 1 > TrackTtl}

\* Mutant: an id supplied by the tracker does not move the allocator.
FirstFreeForgetful(external) == {nextTrackId}

\* The first id the allocator hands out once it has stepped over the ids the
\* tracker supplied: the largest of these, as a singleton.
FirstFree(external) ==
  {id \in {nextTrackId} \union {i + 1 : i \in external} :
     id >= nextTrackId /\ \A i \in external : id > i}

(* Events.  An expired track ends its alarms; a seen one reports the       *)
(* decision that turned absent and the one that stopped being absent.      *)
IsAbsent(i, q) == TrackAt(i).channel[q].state = "absent"

\* Mutant: an expired track disappears without a word.
EndedWithoutExpiry(seen, obs) ==
  {a \in seen \X Equipment :
     /\ IsAbsent(a[1], a[2])
     /\ SeenChannel(a[1], a[2], obs).state \in {"present", "unknown"}}

StartedAlarms(seen, obs) ==
  {a \in seen \X Equipment :
     /\ ~IsAbsent(a[1], a[2])
     /\ SeenChannel(a[1], a[2], obs).state = "absent"}

EndedAlarms(seen, obs) ==
  {a \in Expired(seen) \X Equipment : IsAbsent(a[1], a[2])}
    \union
  {a \in seen \X Equipment :
     /\ IsAbsent(a[1], a[2])
     /\ SeenChannel(a[1], a[2], obs).state \in {"present", "unknown"}}

-----------------------------------------------------------------------------
Init ==
  /\ tracks = [i \in {} |-> NewTrack]
  /\ nextTrackId = 1
  /\ started = {}
  /\ ended = {}

(* process_frame.  external: the ids the tracker supplied; matched: the    *)
(* live tracks that detections without an id continue; fresh: the new ids  *)
(* that the remaining detections get.                                      *)
ProcessFrame(external, matched, fresh, obs) ==
  LET seen == external \union matched \union fresh
      kept == (Live \ Expired(seen)) \union seen
  IN  /\ tracks' = [i \in kept |->
                      IF i \in seen THEN SeenTrack(i, obs)
                      ELSE [tracks[i] EXCEPT !.missed = @ + 1]]
      /\ started' = StartedAlarms(seen, obs)
      /\ ended' = EndedAlarms(seen, obs)

\* A tracker id that occurs twice is rejected halfway: the detections before
\* it have created their tracks and moved the allocator, nothing else has run.
RejectDuplicateId(external) ==
  /\ external # {}
  /\ tracks' = [i \in Live \union external |-> TrackAt(i)]
  /\ started' = {}
  /\ ended' = {}

Observations(seen) == [seen -> [Equipment -> Observation]]

\* n detections continue no track and get the ids from the first free one on.
Frame ==
  \E external \in SUBSET TrackId : \E matched \in SUBSET (Live \ external) :
    \E first \in FirstFree(external), n \in 0 .. NewPeople :
      LET fresh == first .. (first + n - 1)
      IN  /\ fresh \subseteq TrackId
          /\ nextTrackId' = first + n
          /\ \E obs \in Observations(external \union matched \union fresh) :
               ProcessFrame(external, matched, fresh, obs)

Reject ==
  \E external \in SUBSET TrackId : \E first \in FirstFree(external) :
    /\ nextTrackId' = first
    /\ RejectDuplicateId(external)

Next == Frame \/ Reject

Spec == Init /\ [][Next]_vars

-----------------------------------------------------------------------------
\* Every live track has a well-formed channel per equipment, no track has been
\* missed for more than the ttl, and the events name alarms.
TypeOK ==
  /\ Live \subseteq TrackId
  /\ \A i \in Live : tracks[i] \in
       [missed : 0 .. TrackTtl, channel : [Equipment -> Channel]]
  /\ nextTrackId \in Nat
  /\ started \subseteq TrackId \X Equipment
  /\ ended \subseteq TrackId \X Equipment

OpenAlarms == {a \in Live \X Equipment : IsAbsent(a[1], a[2])}

\* A reader of the events sees every alarm of a person start, in a frame that
\* shows the person, and end in turn, at most one change a frame, and its fold is the set of absent
\* decisions (_safety_event_contract rejects a stream that starts an open alarm
\* or ends a closed one).
Ledger == INSTANCE AlarmLedger
  WITH Entity <- TrackId, Kind <- Equipment,
       seen <- {i \in Live : tracks[i].missed = 0}, open <- OpenAlarms

AlarmEpisodes == Ledger!SettledSpec

\* An id from the allocator names a new person: it is above every id a live
\* track has, so no history and no open alarm is inherited, whatever ids the
\* tracker supplied before (_allocate_track_id never has to skip an id).
IdsBelowNext == \A i \in Live : i < nextTrackId

\* A verified present decision is never turned into an alarm by misses alone:
\* the miss that ends the grace makes it unknown, and only then inferred
\* absence starts to count; present goes to absent only on negative detections.
PresentOutlivesMisses ==
  [][\A i \in Live \cap DOMAIN tracks' : \A q \in Equipment :
       tracks[i].channel[q].state = "present"
         /\ tracks'[i].channel[q].state = "absent"
       => tracks'[i].channel[q].source = "detector_observation"]_vars
=============================================================================
