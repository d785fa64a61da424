----------------------- MODULE PersonPpeFusion_proofs -----------------------
(***************************************************************************)
(* Proofs about PersonPpeFusion for every configuration: any thresholds,   *)
(* any set of track ids and of equipment, any inference policy.  The last  *)
(* section is about PersonPpeHistory: what the filter computes.            *)
(***************************************************************************)
EXTENDS PersonPpeHistory, TLAPS

Track == [missed : 0 .. TrackTtl, channel : [Equipment -> Channel]]

Evidence == [evidence : Decision, source : Source]

\* The grace granted to a present channel is never used up: the miss that
\* would use it up makes the decision unknown.
GraceInForce ==
  \A i \in Live : \A q \in Equipment :
    LET c == tracks[i].channel[q]
    IN  c.state = "present" /\ c.source = "grace" => c.streak < Grace

IInv == TypeOK /\ IdsBelowNext /\ GraceInForce

-----------------------------------------------------------------------------
(* The operators on channels.                                              *)

LEMMA NewTrackType == NewTrack \in Track
  BY ConfigAssumption, BoundAssumption
     DEF NewTrack, Track, NewChannel, Channel, Decision, Source

LEMMA TrackAtType ==
  ASSUME TypeOK, NEW i
  PROVE  TrackAt(i) \in Track
  BY NewTrackType DEF TypeOK, TrackAt, Track

LEMMA EvidenceType ==
  ASSUME NEW c \in Channel, NEW q, NEW o \in Observation
  PROVE  FrameEvidence(c, q, o) \in Evidence
<1>1. CASE o \in {"present", "absent"}
  BY <1>1 DEF FrameEvidence, Evidence, Decision, Source
<1>2. CASE o = "conflict"
  BY <1>2 DEF FrameEvidence, Evidence, Decision, Source
<1>3. CASE o = "visible" /\ q \in Inferred
  BY <1>3 DEF FrameEvidence, Evidence, Decision, Source
<1>4. CASE o = "hidden" \/ (o = "visible" /\ q \notin Inferred)
  BY <1>4 DEF FrameEvidence, Evidence, Decision, Source
<1>5. QED
  BY <1>1, <1>2, <1>3, <1>4 DEF Observation

LEMMA StreakType ==
  ASSUME NEW c \in Channel, NEW e \in Evidence
  PROVE  NextStreak(c, e) \in 0 .. StreakCap
<1>1. StreakCap \in Nat /\ StreakCap >= 1
  BY ConfigAssumption, BoundAssumption
<1>2. c.streak \in 0 .. StreakCap
  BY DEF Channel
<1>3. QED
  BY <1>1, <1>2 DEF NextStreak, Lengthen

LEMMA UpdateType ==
  ASSUME NEW c \in Channel, NEW e \in Evidence
  PROVE  UpdateChannel(c, e) \in Channel
  BY StreakType DEF UpdateChannel, Channel, Evidence

\* An update leaves the decision or makes it the evidence.
LEMMA UpdateDecides ==
  ASSUME NEW c \in Channel, NEW e \in Evidence
  PROVE  /\ UpdateChannel(c, e).state \in {c.state, e.evidence}
         /\ UpdateChannel(c, e).source = e.source
  BY DEF UpdateChannel

\* Grace granted by this frame is not used up by it.
LEMMA UpdateKeepsGrace ==
  ASSUME NEW c \in Channel, NEW q, NEW o \in Observation,
         UpdateChannel(c, FrameEvidence(c, q, o)).state = "present",
         UpdateChannel(c, FrameEvidence(c, q, o)).source = "grace"
  PROVE  UpdateChannel(c, FrameEvidence(c, q, o)).streak < Grace
<1> DEFINE e == FrameEvidence(c, q, o)
<1>1. e = [evidence |-> "unknown", source |-> "grace"]
  <2>1. e.source = "grace"
    BY DEF UpdateChannel
  <2>2. QED
    BY <2>1 DEF FrameEvidence, Observation
<1>2. Threshold(e) = Grace
  BY <1>1 DEF Threshold
<1>3. ~(NextStreak(c, e) >= Threshold(e))
  BY <1>1 DEF UpdateChannel
<1>4. NextStreak(c, e) \in Int /\ Grace \in Int
  BY StreakType, EvidenceType, BoundAssumption, ConfigAssumption
<1>5. QED
  BY <1>2, <1>3, <1>4 DEF UpdateChannel

\* While grace is in force, a present decision becomes absent only on a
\* negative detection.
LEMMA UpdateSparesPresent ==
  ASSUME NEW c \in Channel, NEW q, NEW o \in Observation,
         c.state = "present",
         c.source = "grace" => c.streak < Grace,
         UpdateChannel(c, FrameEvidence(c, q, o)).state = "absent"
  PROVE  UpdateChannel(c, FrameEvidence(c, q, o)).source = "detector_observation"
<1> DEFINE e == FrameEvidence(c, q, o)
<1>1. GraceAge(c) < Grace
  BY ConfigAssumption DEF GraceAge
<1>2. e.evidence = "absent"
  BY DEF UpdateChannel
<1>3. e.source = "detector_observation"
  BY <1>1, <1>2 DEF FrameEvidence, Observation
<1>4. QED
  BY <1>3 DEF UpdateChannel

-----------------------------------------------------------------------------
(* One frame.                                                              *)

\* The parameters of a frame: what is seen has ids, the observations are those
\* of the seen people, and every seen id is below the next one to allocate.
FrameOf(seen, obs) ==
  /\ seen \subseteq TrackId
  /\ obs \in Observations(seen)
  /\ \A i \in seen : i < nextTrackId'
  /\ nextTrackId' \in Nat
  /\ nextTrackId' >= nextTrackId
  /\ tracks' = [i \in (Live \ Expired(seen)) \union seen |->
                  IF i \in seen THEN SeenTrack(i, obs)
                  ELSE [tracks[i] EXCEPT !.missed = @ + 1]]
  /\ started' = StartedAlarms(seen, obs)
  /\ ended' = EndedAlarms(seen, obs)

RejectOf(external) ==
  /\ external \subseteq TrackId
  /\ \A i \in external : i < nextTrackId'
  /\ nextTrackId' \in Nat
  /\ nextTrackId' >= nextTrackId
  /\ tracks' = [i \in Live \union external |-> TrackAt(i)]
  /\ started' = {}
  /\ ended' = {}

\* The allocator never goes back and steps over the tracker's ids.
LEMMA FirstFreeBounds ==
  ASSUME TypeOK, NEW external \in SUBSET TrackId, NEW first \in FirstFree(external)
  PROVE  first \in Nat /\ first >= nextTrackId /\ \A i \in external : i < first
<1>1. \A i \in external : i \in Nat
  BY ConfigAssumption
<1>2. QED
  BY <1>1 DEF FirstFree, TypeOK

LEMMA FrameIsOf ==
  ASSUME TypeOK, IdsBelowNext,
         NEW external \in SUBSET TrackId, NEW matched \in SUBSET (Live \ external),
         NEW first \in FirstFree(external), NEW n \in 0 .. NewPeople,
         first .. (first + n - 1) \subseteq TrackId,
         nextTrackId' = first + n,
         NEW obs \in Observations(external \union matched
                                    \union (first .. (first + n - 1))),
         ProcessFrame(external, matched, first .. (first + n - 1), obs)
  PROVE  FrameOf(external \union matched \union (first .. (first + n - 1)), obs)
<1> DEFINE seen == external \union matched \union (first .. (first + n - 1))
<1>1. n \in Nat
  BY BoundAssumption
<1>2. first \in Nat /\ first >= nextTrackId /\ \A i \in external : i < first
  BY FirstFreeBounds
<1>3. nextTrackId' \in Nat /\ nextTrackId' >= nextTrackId
  BY <1>1, <1>2 DEF TypeOK
<1>4. ASSUME NEW i \in seen
      PROVE  i \in TrackId /\ i < nextTrackId'
  <2>1. CASE i \in external
    BY <1>1, <1>2, <2>1, ConfigAssumption
  <2>2. CASE i \in matched
    BY <1>3, <2>2, ConfigAssumption DEF TypeOK, IdsBelowNext
  <2>3. CASE i \in first .. (first + n - 1)
    BY <1>1, <1>2, <2>3
  <2>4. QED
    BY <2>1, <2>2, <2>3
<1>5. QED
  BY <1>3, <1>4 DEF FrameOf, ProcessFrame

LEMMA FrameCases ==
  ASSUME IInv, Frame
  PROVE  \E seen, obs : FrameOf(seen, obs)
<1>0. PICK external \in SUBSET TrackId :
        \E matched \in SUBSET (Live \ external) :
          \E first \in FirstFree(external), n \in 0 .. NewPeople :
            /\ first .. (first + n - 1) \subseteq TrackId
            /\ nextTrackId' = first + n
            /\ \E obs \in Observations(external \union matched
                                         \union (first .. (first + n - 1))) :
                 ProcessFrame(external, matched, first .. (first + n - 1), obs)
  BY DEF Frame
<1>1. PICK matched \in SUBSET (Live \ external) :
        \E first \in FirstFree(external), n \in 0 .. NewPeople :
          /\ first .. (first + n - 1) \subseteq TrackId
          /\ nextTrackId' = first + n
          /\ \E obs \in Observations(external \union matched
                                       \union (first .. (first + n - 1))) :
               ProcessFrame(external, matched, first .. (first + n - 1), obs)
  BY <1>0
<1>2. PICK first \in FirstFree(external), n \in 0 .. NewPeople :
          /\ first .. (first + n - 1) \subseteq TrackId
          /\ nextTrackId' = first + n
          /\ \E obs \in Observations(external \union matched
                                       \union (first .. (first + n - 1))) :
               ProcessFrame(external, matched, first .. (first + n - 1), obs)
  BY <1>1
<1>3. QED
  BY <1>2, FrameIsOf DEF IInv

LEMMA RejectCases ==
  ASSUME IInv, Reject
  PROVE  \E external : RejectOf(external)
<1>1. PICK external \in SUBSET TrackId :
        \E first \in FirstFree(external) :
          nextTrackId' = first /\ RejectDuplicateId(external)
  BY DEF Reject
<1>2. QED
  BY <1>1, FirstFreeBounds DEF IInv, RejectDuplicateId, RejectOf

LEMMA SeenChannelType ==
  ASSUME TypeOK, NEW seen, NEW obs \in Observations(seen),
         NEW i \in seen, NEW q \in Equipment
  PROVE  /\ TrackAt(i).channel[q] \in Channel
         /\ obs[i][q] \in Observation
         /\ FrameEvidence(TrackAt(i).channel[q], q, obs[i][q]) \in Evidence
         /\ SeenChannel(i, q, obs) \in Channel
<1>1. TrackAt(i).channel[q] \in Channel
  BY TrackAtType DEF Track
<1>2. obs[i][q] \in Observation
  BY DEF Observations
<1>3. QED
  BY <1>1, <1>2, EvidenceType, UpdateType DEF SeenChannel

\* What a frame leaves of the tracks: a seen one is updated, a kept one ages.
LEMMA FrameTracks ==
  ASSUME NEW seen, NEW obs, FrameOf(seen, obs), NEW i
  PROVE  /\ i \in Live' <=> i \in seen \/ i \in Live \ Expired(seen)
         /\ i \in seen => tracks'[i] = SeenTrack(i, obs)
         /\ i \in Live' /\ i \notin seen =>
              /\ i \in Live \ Expired(seen)
              /\ tracks'[i] = [tracks[i] EXCEPT !.missed = @ + 1]
<1>1. Live' = (Live \ Expired(seen)) \union seen
  BY DEF FrameOf, Live
<1>2. QED
  BY <1>1 DEF FrameOf, Expired

\* A kept track that was not seen has aged by one frame, within the ttl.
LEMMA AgedTrack ==
  ASSUME TypeOK, NEW seen, NEW i \in (Live \ Expired(seen)) \ seen
  PROVE  /\ [tracks[i] EXCEPT !.missed = @ + 1] \in Track
         /\ [tracks[i] EXCEPT !.missed = @ + 1].channel = tracks[i].channel
         /\ [tracks[i] EXCEPT !.missed = @ + 1].missed # 0
<1>1. tracks[i] \in Track
  BY DEF TypeOK, Track
<1>2. tracks[i].missed \in 0 .. TrackTtl /\ TrackTtl \in Nat
  BY <1>1, ConfigAssumption DEF Track
<1>3. tracks[i].missed + 1 \in 0 .. TrackTtl
  BY <1>2 DEF Expired
<1>4. QED
  BY <1>1, <1>2, <1>3 DEF Track

LEMMA SeenTrackType ==
  ASSUME TypeOK, NEW seen, NEW obs \in Observations(seen), NEW i \in seen
  PROVE  SeenTrack(i, obs) \in Track
<1>1. TrackTtl \in Nat
  BY ConfigAssumption
<1>2. [q \in Equipment |-> SeenChannel(i, q, obs)] \in [Equipment -> Channel]
  BY SeenChannelType
<1>3. QED
  BY <1>1, <1>2 DEF SeenTrack, Track

\* The same, read channel by channel.
LEMMA FrameChannels ==
  ASSUME TypeOK, NEW seen, NEW obs, FrameOf(seen, obs),
         NEW i \in Live', NEW q \in Equipment
  PROVE  /\ i \in seen => /\ tracks'[i].missed = 0
                          /\ tracks'[i].channel[q] = SeenChannel(i, q, obs)
         /\ i \notin seen => /\ i \in Live
                             /\ tracks'[i].missed # 0
                             /\ tracks'[i].channel = tracks[i].channel
<1>1. CASE i \in seen
  <2>1. tracks'[i] = SeenTrack(i, obs)
    BY <1>1, FrameTracks
  <2>2. QED
    BY <1>1, <2>1 DEF SeenTrack
<1>2. CASE i \notin seen
  <2>1. /\ i \in (Live \ Expired(seen)) \ seen
        /\ tracks'[i] = [tracks[i] EXCEPT !.missed = @ + 1]
    BY <1>2, FrameTracks
  <2>2. /\ [tracks[i] EXCEPT !.missed = @ + 1].channel = tracks[i].channel
        /\ [tracks[i] EXCEPT !.missed = @ + 1].missed # 0
    BY <2>1, AgedTrack
  <2>3. QED
    BY <1>2, <2>1, <2>2
<1>3. QED
  BY <1>1, <1>2

LEMMA FrameTypeOK ==
  ASSUME IInv, NEW seen, NEW obs, FrameOf(seen, obs)
  PROVE  TypeOK'
<1> USE DEF IInv
<1>1. Live' \subseteq TrackId
  BY FrameTracks DEF FrameOf, TypeOK
<1>2. ASSUME NEW i \in Live'
      PROVE  tracks'[i] \in Track
  <2>1. CASE i \in seen
    BY <2>1, FrameTracks, SeenTrackType DEF FrameOf
  <2>2. CASE i \notin seen
    <3>1. /\ i \in (Live \ Expired(seen)) \ seen
          /\ tracks'[i] = [tracks[i] EXCEPT !.missed = @ + 1]
      BY <1>2, <2>2, FrameTracks
    <3>2. [tracks[i] EXCEPT !.missed = @ + 1] \in Track
      BY <3>1, AgedTrack
    <3>3. QED
      BY <3>1, <3>2
  <2>3. QED
    BY <2>1, <2>2
<1>3. started' \subseteq TrackId \X Equipment
  BY DEF FrameOf, StartedAlarms
<1>4. ended' \subseteq TrackId \X Equipment
  BY DEF FrameOf, EndedAlarms, Expired, TypeOK
<1>5. nextTrackId' \in Nat
  BY DEF FrameOf
<1>6. QED
  BY <1>1, <1>2, <1>3, <1>4, <1>5 DEF TypeOK, Track

LEMMA FrameIds ==
  ASSUME IInv, NEW seen, NEW obs, FrameOf(seen, obs)
  PROVE  IdsBelowNext'
<1> SUFFICES ASSUME NEW i \in Live'
             PROVE  i < nextTrackId'
  BY DEF IdsBelowNext
<1>1. CASE i \in seen
  BY <1>1 DEF FrameOf
<1>2. CASE i \notin seen
  <2>1. i \in Live /\ i < nextTrackId /\ i \in Nat /\ nextTrackId \in Nat
    BY <1>2, FrameTracks, ConfigAssumption DEF IInv, IdsBelowNext, TypeOK
  <2>2. nextTrackId' \in Nat /\ nextTrackId' >= nextTrackId
    BY DEF FrameOf
  <2>3. QED
    BY <2>1, <2>2
<1>3. QED
  BY <1>1, <1>2

LEMMA FrameGrace ==
  ASSUME IInv, NEW seen, NEW obs, FrameOf(seen, obs)
  PROVE  GraceInForce'
<1> USE DEF IInv
<1> SUFFICES ASSUME NEW i \in Live', NEW q \in Equipment,
                    tracks'[i].channel[q].state = "present",
                    tracks'[i].channel[q].source = "grace"
             PROVE  tracks'[i].channel[q].streak < Grace
  BY DEF GraceInForce
<1>1. CASE i \in seen
  <2>1. tracks'[i].channel[q] = SeenChannel(i, q, obs)
    BY <1>1, FrameChannels
  <2>2. TrackAt(i).channel[q] \in Channel /\ obs[i][q] \in Observation
    BY <1>1, SeenChannelType DEF FrameOf
  <2>3. QED
    BY <2>1, <2>2, UpdateKeepsGrace DEF SeenChannel
<1>2. CASE i \notin seen
  <2>1. i \in Live /\ tracks'[i].channel = tracks[i].channel
    BY <1>2, FrameChannels
  <2>2. QED
    BY <2>1 DEF GraceInForce
<1>3. QED
  BY <1>1, <1>2

-----------------------------------------------------------------------------
(* The inductive invariant.                                                *)

\* No track exists at the start.
LEMMA InitHolds == Init => IInv
<1> SUFFICES ASSUME Init PROVE IInv
  OBVIOUS
<1>1. Live = {}
  BY DEF Init, Live
<1>2. QED
  BY <1>1 DEF Init, IInv, TypeOK, IdsBelowNext, GraceInForce

\* A frame rejected halfway adds new tracks and changes none.
LEMMA RejectTracks ==
  ASSUME NEW external, RejectOf(external), NEW i
  PROVE  /\ i \in Live' <=> i \in Live \/ i \in external
         /\ i \in Live' => tracks'[i] = TrackAt(i)
         /\ i \in Live => tracks'[i] = tracks[i]
<1>1. Live' = Live \union external
  BY DEF RejectOf, Live
<1>2. QED
  BY <1>1 DEF RejectOf, TrackAt

LEMMA RejectHolds ==
  ASSUME IInv, NEW external, RejectOf(external)
  PROVE  IInv'
<1> USE DEF IInv
<1>1. TypeOK'
  <2>1. ASSUME NEW i \in Live'
        PROVE  i \in TrackId /\ tracks'[i] \in Track
    BY <2>1, RejectTracks, TrackAtType DEF RejectOf, TypeOK
  <2>2. QED
    BY <2>1 DEF RejectOf, TypeOK, Track
<1>2. IdsBelowNext'
  <2> SUFFICES ASSUME NEW i \in Live'
               PROVE  i < nextTrackId'
    BY DEF IdsBelowNext
  <2>1. CASE i \in external
    BY <2>1 DEF RejectOf
  <2>2. CASE i \in Live
    <3>1. i < nextTrackId /\ i \in Nat /\ nextTrackId \in Nat
      BY <2>2, ConfigAssumption DEF IdsBelowNext, TypeOK
    <3>2. nextTrackId' \in Nat /\ nextTrackId' >= nextTrackId
      BY DEF RejectOf
    <3>3. QED
      BY <3>1, <3>2
  <2>3. QED
    BY <2>1, <2>2, RejectTracks
<1>3. GraceInForce'
  <2> SUFFICES ASSUME NEW i \in Live', NEW q \in Equipment,
                      tracks'[i].channel[q].state = "present",
                      tracks'[i].channel[q].source = "grace"
               PROVE  tracks'[i].channel[q].streak < Grace
    BY DEF GraceInForce
  <2>1. CASE i \in Live
    BY <2>1, RejectTracks DEF GraceInForce
  <2>2. CASE i \notin Live
    <3>1. tracks'[i] = NewTrack
      BY <2>2, RejectTracks DEF TrackAt
    <3>2. QED
      BY <3>1 DEF NewTrack, NewChannel
  <2>3. QED
    BY <2>1, <2>2
<1>4. QED
  BY <1>1, <1>2, <1>3

LEMMA StepHolds == IInv /\ [Next]_vars => IInv'
<1> SUFFICES ASSUME IInv, [Next]_vars
             PROVE  IInv'
  OBVIOUS
<1>1. CASE Frame
  <2>1. PICK seen, obs : FrameOf(seen, obs)
    BY <1>1, FrameCases
  <2>2. QED
    BY <2>1, FrameTypeOK, FrameIds, FrameGrace DEF IInv
<1>2. CASE Reject
  BY <1>2, RejectCases, RejectHolds
<1>3. CASE UNCHANGED vars
  BY <1>3 DEF vars, IInv, TypeOK, IdsBelowNext, GraceInForce, Live
<1>4. QED
  BY <1>1, <1>2, <1>3 DEF Next

\* The invariant holds in every state.
THEOREM Invariance == Spec => []IInv
  BY InitHolds, StepHolds, PTL DEF Spec

\* Tracks and channels are well formed and no track outlives the ttl.
THEOREM TypeCorrect == Spec => []TypeOK
  BY Invariance, PTL DEF IInv

\* The allocator never hands out the id of a live track, whatever ids the
\* tracker supplied before.
THEOREM FreshIds == Spec => []IdsBelowNext
  BY Invariance, PTL DEF IInv

-----------------------------------------------------------------------------
(* Misses never turn a present decision into an alarm.                     *)

LEMMA StepSparesPresent ==
  ASSUME IInv, [Next]_vars,
         NEW i \in Live, i \in DOMAIN tracks', NEW q \in Equipment,
         tracks[i].channel[q].state = "present",
         tracks'[i].channel[q].state = "absent"
  PROVE  tracks'[i].channel[q].source = "detector_observation"
<1> USE DEF IInv
<1>1. CASE Frame
  <2>1. PICK seen, obs : FrameOf(seen, obs)
    BY <1>1, FrameCases
  <2>2. i \in Live'
    BY DEF Live
  <2>3. CASE i \in seen
    <3>1. tracks'[i].channel[q] = SeenChannel(i, q, obs)
      BY <2>1, <2>2, <2>3, FrameChannels
    <3>2. TrackAt(i) = tracks[i]
      BY DEF TrackAt
    <3>3. tracks[i].channel[q] \in Channel /\ obs[i][q] \in Observation
      BY <2>1, <2>3, <3>2, SeenChannelType DEF FrameOf
    <3>4. tracks[i].channel[q].source = "grace"
            => tracks[i].channel[q].streak < Grace
      BY DEF GraceInForce
    <3>5. QED
      BY <3>1, <3>2, <3>3, <3>4, UpdateSparesPresent DEF SeenChannel
  <2>4. CASE i \notin seen
    <3>1. tracks'[i].channel = tracks[i].channel
      BY <2>1, <2>2, <2>4, FrameChannels
    <3>2. QED
      BY <3>1
  <2>5. QED
    BY <2>3, <2>4
<1>2. CASE Reject
  <2>1. PICK external : RejectOf(external)
    BY <1>2, RejectCases
  <2>2. tracks'[i] = tracks[i]
    BY <2>1, RejectTracks
  <2>3. QED
    BY <2>2
<1>3. CASE UNCHANGED vars
  BY <1>3 DEF vars
<1>4. QED
  BY <1>1, <1>2, <1>3 DEF Next

\* A verified present decision becomes an alarm only on a negative detection,
\* for every grace, every threshold and every inference policy.
THEOREM MissesSparePresent == Spec => PresentOutlivesMisses
<1>1. IInv /\ [Next]_vars
        => [\A i \in Live \cap DOMAIN tracks' : \A q \in Equipment :
              tracks[i].channel[q].state = "present"
                /\ tracks'[i].channel[q].state = "absent"
              => tracks'[i].channel[q].source = "detector_observation"]_vars
  BY StepSparesPresent
<1>2. QED
  BY <1>1, Invariance, PTL DEF Spec, PresentOutlivesMisses

-----------------------------------------------------------------------------
(* The events implement the ledger.                                        *)

\* The tracks the last frame shows.
Visible == {i \in Live : tracks[i].missed = 0}

LEMMA InitImplements == Init => Ledger!Init
<1> SUFFICES ASSUME Init PROVE Ledger!Init
  OBVIOUS
<1>1. Live = {}
  BY DEF Init, Live
<1>2. QED
  BY <1>1 DEF Init, Ledger!Init, OpenAlarms

\* The decisions after a frame: those of the seen people are new, an expired
\* person has none, and all others stay.
LEMMA FrameAlarms ==
  ASSUME IInv, NEW seen, NEW obs, FrameOf(seen, obs), NEW i, NEW q \in Equipment
  PROVE  /\ <<i, q>> \in OpenAlarms'
              <=> \/ i \in seen /\ SeenChannel(i, q, obs).state = "absent"
                  \/ /\ i \in (Live \ Expired(seen)) \ seen
                     /\ IsAbsent(i, q)
         /\ <<i, q>> \in OpenAlarms <=> i \in Live /\ IsAbsent(i, q)
         /\ i \notin Live => ~IsAbsent(i, q)
<1> USE DEF IInv
<1>1. <<i, q>> \in OpenAlarms' <=> i \in Live' /\ IsAbsent(i, q)'
  BY DEF OpenAlarms
<1>2. i \in Live' => (IsAbsent(i, q)' <=> tracks'[i].channel[q].state = "absent")
  BY DEF IsAbsent, TrackAt
<1>3. i \in Live => (IsAbsent(i, q) <=> tracks[i].channel[q].state = "absent")
  BY DEF IsAbsent, TrackAt
<1>4. i \notin Live => ~IsAbsent(i, q)
  BY DEF IsAbsent, TrackAt, NewTrack, NewChannel
<1>5. i \in Live' <=> i \in seen \/ i \in Live \ Expired(seen)
  BY FrameTracks
<1>6. i \in Live' => /\ i \in seen => tracks'[i].channel[q] = SeenChannel(i, q, obs)
                     /\ i \notin seen => /\ i \in Live
                                         /\ tracks'[i].channel = tracks[i].channel
  BY FrameChannels
<1>7. <<i, q>> \in OpenAlarms <=> i \in Live /\ IsAbsent(i, q)
  BY DEF OpenAlarms
<1>8. QED
  BY <1>1, <1>2, <1>3, <1>4, <1>5, <1>6, <1>7

LEMMA FrameReports ==
  ASSUME IInv, NEW seen, NEW obs, FrameOf(seen, obs)
  PROVE  Ledger!SettledNext
<1> USE DEF IInv
<1>1. started' = StartedAlarms(seen, obs) /\ ended' = EndedAlarms(seen, obs)
  BY DEF FrameOf
<1>2. ASSUME NEW i, NEW q \in Equipment
      PROVE  /\ <<i, q>> \in started'
                  <=> /\ i \in seen /\ ~IsAbsent(i, q)
                      /\ SeenChannel(i, q, obs).state = "absent"
             /\ <<i, q>> \in ended'
                  <=> /\ IsAbsent(i, q)
                      /\ \/ i \in Expired(seen)
                         \/ i \in seen /\ SeenChannel(i, q, obs).state # "absent"
  <2>1. i \in seen => SeenChannel(i, q, obs).state \in Decision
    BY SeenChannelType DEF FrameOf, Channel
  <2>2. QED
    BY <1>1, <2>1 DEF StartedAlarms, EndedAlarms, Decision
<1>3. started' \subseteq seen \X Equipment
  BY <1>1 DEF StartedAlarms
<1>4. ended' \subseteq OpenAlarms
  <2>1. ended' \subseteq (Expired(seen) \union seen) \X Equipment
    BY <1>1 DEF EndedAlarms
  <2>2. ASSUME NEW i \in Expired(seen) \union seen, NEW q \in Equipment,
               <<i, q>> \in ended'
        PROVE  <<i, q>> \in OpenAlarms
    BY <2>2, <1>2, FrameAlarms
  <2>3. QED
    BY <2>1, <2>2
<1>5. started' \intersect (OpenAlarms \ ended') = {}
  <2>1. ASSUME NEW i \in seen, NEW q \in Equipment, <<i, q>> \in started'
        PROVE  <<i, q>> \notin OpenAlarms
    BY <2>1, <1>2, FrameAlarms
  <2>2. QED
    BY <1>3, <2>1
<1>6. OpenAlarms' = (OpenAlarms \ ended') \union started'
  <2>1. ASSUME NEW i, NEW q \in Equipment
        PROVE  <<i, q>> \in OpenAlarms'
                 <=> <<i, q>> \in (OpenAlarms \ ended') \union started'
    <3>1. Expired(seen) \subseteq Live \ seen
      BY DEF Expired
    <3>2. QED
      BY <1>2, <3>1, FrameAlarms
  <2>2. /\ OpenAlarms \subseteq Live \X Equipment
        /\ OpenAlarms' \subseteq Live' \X Equipment
        /\ started' \subseteq seen \X Equipment
    BY <1>3 DEF OpenAlarms
  <2>3. QED
    BY <2>1, <2>2
<1>7. started' \intersect ended' = {}
  <2>1. ASSUME NEW i \in seen, NEW q \in Equipment, <<i, q>> \in started'
        PROVE  <<i, q>> \notin ended'
    BY <2>1, <1>2
  <2>2. QED
    BY <1>3, <2>1
<1>8. Visible' = seen
  <2>1. ASSUME NEW i
        PROVE  i \in Visible' <=> i \in seen
    <3>1. i \in Visible' <=> i \in Live' /\ tracks'[i].missed = 0
      BY DEF Visible
    <3>2. CASE i \in seen
      <4>1. i \in Live' /\ tracks'[i] = SeenTrack(i, obs)
        BY <3>2, FrameTracks
      <4>2. QED
        BY <3>1, <3>2, <4>1 DEF SeenTrack
    <3>3. CASE i \notin seen
      <4>1. i \in Live' => /\ i \in (Live \ Expired(seen)) \ seen
                           /\ tracks'[i] = [tracks[i] EXCEPT !.missed = @ + 1]
        BY <3>3, FrameTracks
      <4>2. QED
        BY <3>1, <3>3, <4>1, AgedTrack
    <3>4. QED
      BY <3>2, <3>3
  <2>2. QED
    BY <2>1
<1>9. Ledger!Report(seen, started', ended')
  BY <1>3, <1>4, <1>5, <1>6, <1>8 DEF Ledger!Report, Visible
<1>10. seen \in SUBSET TrackId
  BY DEF FrameOf
<1>11. started' \in SUBSET (seen \X Equipment) /\ ended' \in SUBSET OpenAlarms
  BY <1>3, <1>4
<1>12. Ledger!Next
  BY <1>9, <1>10, <1>11 DEF Ledger!Next, Ledger!Report
<1>13. QED
  BY <1>7, <1>12 DEF Ledger!SettledNext

LEMMA RejectReports ==
  ASSUME IInv, NEW external, RejectOf(external)
  PROVE  Ledger!SettledNext
<1> USE DEF IInv
<1>1. started' = {} /\ ended' = {}
  BY DEF RejectOf
<1>2. OpenAlarms' = OpenAlarms
  <2>1. ASSUME NEW i, NEW q \in Equipment
        PROVE  <<i, q>> \in OpenAlarms' <=> <<i, q>> \in OpenAlarms
    <3>1. <<i, q>> \in OpenAlarms
            <=> i \in Live /\ tracks[i].channel[q].state = "absent"
      BY DEF OpenAlarms, IsAbsent, TrackAt
    <3>2. <<i, q>> \in OpenAlarms'
            <=> i \in Live' /\ tracks'[i].channel[q].state = "absent"
      BY DEF OpenAlarms, IsAbsent, TrackAt
    <3>3. i \in Live' /\ i \notin Live => tracks'[i].channel[q].state = "unknown"
      BY RejectTracks DEF TrackAt, NewTrack, NewChannel
    <3>4. QED
      BY <3>1, <3>2, <3>3, RejectTracks
  <2>2. /\ OpenAlarms \subseteq Live \X Equipment
        /\ OpenAlarms' \subseteq Live' \X Equipment
    BY DEF OpenAlarms
  <2>3. QED
    BY <2>1, <2>2
<1>3. Live' \subseteq TrackId
  BY RejectTracks DEF TypeOK, RejectOf
<1>4. Ledger!Report(Visible', {}, {})
  BY <1>1, <1>2 DEF Ledger!Report, Visible
<1>5. Visible' \in SUBSET TrackId
  BY <1>3 DEF Visible
<1>6. QED
  BY <1>1, <1>4, <1>5 DEF Ledger!SettledNext, Ledger!Next

LEMMA StepImplements ==
  IInv /\ [Next]_vars => [Ledger!SettledNext]_Ledger!ledgerVars
<1> SUFFICES ASSUME IInv, [Next]_vars
             PROVE  [Ledger!SettledNext]_Ledger!ledgerVars
  OBVIOUS
<1>1. CASE Frame
  <2>1. PICK seen, obs : FrameOf(seen, obs)
    BY <1>1, FrameCases
  <2>2. QED
    BY <2>1, FrameReports
<1>2. CASE Reject
  <2>1. PICK external : RejectOf(external)
    BY <1>2, RejectCases
  <2>2. QED
    BY <2>1, RejectReports
<1>3. CASE UNCHANGED vars
  BY <1>3 DEF vars, Ledger!ledgerVars, OpenAlarms, Live, IsAbsent, TrackAt
<1>4. QED
  BY <1>1, <1>2, <1>3 DEF Next

\* The events of the fusion stream implement the alarm ledger: every start is
\* ended once, by a decision or by the expiry of the track, and the fold of the
\* events is the set of absent decisions.
THEOREM FusionImplementsLedger == Spec => AlarmEpisodes
  BY InitImplements, StepImplements, Invariance, PTL
     DEF Spec, AlarmEpisodes, Ledger!SettledSpec

-----------------------------------------------------------------------------
(* The decision is a function of the observations alone.                   *)

Capped(n) == IF n < StreakCap THEN n ELSE StreakCap

\* The misses of a run that the grace of the decision it found absorbs.
Spared(p) == IF p.anchor = "present" THEN Grace ELSE 0

\* The whole channel, as the run of equal observations determines it.
ChannelOfRun(p) ==
  [state |-> Decided(p.anchor, p.obs, p.run),
   evidence |-> CASE p.obs \in {"present", "absent"} -> p.obs
                  [] p.obs = "visible" /\ p.run > Spared(p) -> "absent"
                  [] OTHER -> "unknown",
   source |-> CASE p.obs \in {"present", "absent"} -> "detector_observation"
                [] p.obs = "conflict" -> "conflicting_observations"
                [] p.obs = "hidden" -> "insufficient"
                [] p.obs = "visible" -> IF p.run > Spared(p) THEN "inferred"
                                        ELSE "grace"
                [] OTHER -> "none",
   streak |-> IF p.obs = "visible" /\ p.run > Spared(p)
                THEN Capped(p.run - Spared(p)) ELSE Capped(p.run)]

Past == [obs : Observation \union {"none"}, run : 0 .. RunCap,
         anchor : Decision, silent : 0 .. UnknownAfter]

\* A channel c of equipment q follows the past p.
Follows(c, p, q) ==
  /\ p \in Past
  /\ p.obs = "visible" => q \in Inferred
  /\ p.obs = "none" => p.run = 0 /\ p.anchor = "unknown"
  /\ p.obs # "none" => p.run # 0
  /\ c = ChannelOfRun(p)

ChannelsFollow ==
  /\ DOMAIN past = Live
  /\ \A i \in Live : \A q \in Equipment :
       Follows(tracks[i].channel[q], past[i][q], q)

LEMMA Numbers ==
  /\ StreakCap \in Nat /\ Grace \in Nat \ {0} /\ AlarmEnter \in Nat \ {0}
  /\ InferredEnter \in Nat \ {0} /\ AlarmClear \in Nat \ {0}
  /\ UnknownAfter \in Nat \ {0}
  /\ AlarmEnter <= StreakCap /\ InferredEnter <= StreakCap /\ Grace <= StreakCap
  /\ AlarmClear <= StreakCap /\ UnknownAfter <= StreakCap
  /\ RunCap = Grace + InferredEnter + StreakCap /\ RunCap \in Nat
  BY ConfigAssumption, BoundAssumption DEF RunCap

\* A person who was never seen.
LEMMA NothingFollows ==
  ASSUME NEW q \in Equipment
  PROVE  Follows(NewChannel, NoPast, q)
<1>1. NoPast \in Past
  BY Numbers DEF NoPast, Past, Decision
<1>2. Decided("unknown", "none", 0) = "unknown"
  BY DEF Decided
<1>3. Capped(0) = 0
  BY Numbers DEF Capped
<1>4. QED
  BY <1>1, <1>2, <1>3 DEF Follows, NoPast, NewChannel, ChannelOfRun

\* What Observe makes of a past p when the decision in force is d.
LengthenPast(p, d, o, silent) ==
  [obs |-> o,
   run |-> IF p.obs # o THEN 1 ELSE IF p.run < RunCap THEN p.run + 1 ELSE p.run,
   anchor |-> IF p.obs = o THEN p.anchor ELSE d,
   silent |-> silent]

LEMMA LengthenPastType ==
  ASSUME NEW p \in Past, NEW d \in Decision, NEW o \in Observation,
         NEW silent \in 0 .. UnknownAfter
  PROVE  /\ LengthenPast(p, d, o, silent) \in Past
         /\ LengthenPast(p, d, o, silent).run # 0
<1>1. p.run \in 0 .. RunCap /\ p.anchor \in Decision
  BY DEF Past
<1>2. RunCap \in Nat /\ RunCap >= 1
  BY Numbers
<1>3. QED
  BY <1>1, <1>2 DEF LengthenPast, Past

\* A decision and its run after a detection, a conflict or a hidden zone.
LEMMA PlainRun ==
  ASSUME NEW q \in Equipment, NEW c \in Channel, NEW p, Follows(c, p, q),
         NEW o \in {"present", "absent", "conflict", "hidden"},
         NEW silent \in 0 .. UnknownAfter
  PROVE  UpdateChannel(c, [evidence |-> IF o \in {"present", "absent"} THEN o ELSE "unknown",
                           source |->
                             CASE o \in {"present", "absent"} -> "detector_observation"
                               [] o = "conflict" -> "conflicting_observations"
                               [] OTHER -> "insufficient"])
           = ChannelOfRun(LengthenPast(p, c.state, o, silent))
<1> DEFINE e == [evidence |-> IF o \in {"present", "absent"} THEN o ELSE "unknown",
                 source |-> CASE o \in {"present", "absent"} -> "detector_observation"
                              [] o = "conflict" -> "conflicting_observations"
                              [] OTHER -> "insufficient"]
           r == LengthenPast(p, c.state, o, silent)
           n == Threshold(e)
<1>1. /\ p.run \in 0 .. RunCap /\ c.streak \in 0 .. StreakCap
      /\ c = ChannelOfRun(p)
  BY DEF Follows, Past, Channel
<1>2. n = CASE o = "absent" -> AlarmEnter [] o = "present" -> AlarmClear
            [] OTHER -> UnknownAfter
  BY DEF Threshold
<1>3. n \in Nat /\ n >= 1 /\ n <= StreakCap
  BY <1>2, Numbers
<1>4. c.evidence = e.evidence /\ c.source = e.source <=> p.obs = o
  <2>1. c.evidence = ChannelOfRun(p).evidence /\ c.source = ChannelOfRun(p).source
    BY <1>1
  <2>2. p.obs \in Observation \union {"none"}
    BY DEF Follows, Past
  <2>3. QED
    BY <2>1, <2>2 DEF ChannelOfRun, Observation
<1>5. p.obs = o => c.streak = Capped(p.run)
  BY <1>1 DEF ChannelOfRun
<1>6. NextStreak(c, e) = Capped(r.run)
  BY <1>1, <1>4, <1>5, Numbers DEF NextStreak, Lengthen, Capped, LengthenPast
<1>7. r.run \in Nat /\ (Capped(r.run) >= n <=> r.run >= n)
  BY <1>1, <1>3, Numbers DEF Capped, LengthenPast
<1>8. c.state = IF p.obs = o /\ p.run >= n THEN e.evidence ELSE r.anchor
  <2>1. CASE p.obs = o
    <3>1. c.state = Decided(p.anchor, o, p.run) /\ r.anchor = p.anchor
      BY <1>1, <2>1 DEF ChannelOfRun, LengthenPast
    <3>2. QED
      BY <3>1, <2>1, <1>2 DEF Decided
  <2>2. CASE p.obs # o
    BY <2>2 DEF LengthenPast
  <2>3. QED
    BY <2>1, <2>2
<1>9. Decided(r.anchor, o, r.run) = IF r.run >= n THEN e.evidence ELSE r.anchor
  BY <1>2 DEF Decided
<1>10. p.obs = o /\ p.run >= n => r.run >= n
  BY <1>1, <1>3, Numbers DEF LengthenPast
<1>11. UpdateChannel(c, e).state = Decided(r.anchor, o, r.run)
  BY <1>6, <1>7, <1>8, <1>9, <1>10 DEF UpdateChannel
<1>12. QED
  <2>1. r.obs = o
    BY DEF LengthenPast
  <2>2. ChannelOfRun(r) = [state |-> Decided(r.anchor, o, r.run),
                           evidence |-> e.evidence, source |-> e.source,
                           streak |-> Capped(r.run)]
    BY <2>1 DEF ChannelOfRun
  <2>3. QED
    BY <2>2, <1>6, <1>11 DEF UpdateChannel

\* A miss in a visible zone of a channel that infers absence.
LEMMA InferredRun ==
  ASSUME NEW q \in Inferred, NEW c \in Channel, NEW p, Follows(c, p, q),
         NEW silent \in 0 .. UnknownAfter
  PROVE  UpdateChannel(c, FrameEvidence(c, q, "visible"))
           = ChannelOfRun(LengthenPast(p, c.state, "visible", silent))
<1> DEFINE e == FrameEvidence(c, q, "visible")
           r == LengthenPast(p, c.state, "visible", silent)
           spared == Spared(r)
<1>1. /\ p.run \in 0 .. RunCap /\ p.anchor \in Decision
      /\ c.streak \in 0 .. StreakCap /\ c.state \in Decision
      /\ c = ChannelOfRun(p)
      /\ p.obs \in Observation \union {"none"}
  BY DEF Follows, Past, Channel
<1>2. r.obs = "visible" /\ r.run \in Nat /\ r.run >= 1 /\ r.anchor \in Decision
  BY <1>1, Numbers DEF LengthenPast
<1>3. spared \in Nat
  BY Numbers DEF Spared
<1>4. e = IF c.state = "present" /\ GraceAge(c) < Grace
            THEN [evidence |-> "unknown", source |-> "grace"]
            ELSE [evidence |-> "absent", source |-> "inferred"]
  BY DEF FrameEvidence
<1>5. CASE p.obs # "visible"
  <2>1. r.run = 1 /\ r.anchor = c.state
    BY <1>5 DEF LengthenPast
  <2>2. c.source \notin {"grace", "inferred"}
    BY <1>1, <1>5 DEF ChannelOfRun, Observation
  <2>3. GraceAge(c) = 0
    BY <2>2 DEF GraceAge
  <2>4. CASE c.state = "present"
    <3>1. e = [evidence |-> "unknown", source |-> "grace"]
      BY <1>4, <2>3, <2>4, Numbers
    <3>2. NextStreak(c, e) = 1 /\ Threshold(e) = Grace
      BY <2>2, <3>1 DEF NextStreak, Threshold
    <3>3. spared = Grace /\ ~(1 > spared) /\ Capped(1) = 1
      BY <2>1, <2>4, Numbers DEF Spared, Capped
    <3>4. Decided("present", "visible", 1) = IF 1 >= Grace THEN "unknown" ELSE "present"
      BY Numbers DEF Decided
    <3>5. ChannelOfRun(r) = [state |-> Decided("present", "visible", 1),
                             evidence |-> "unknown", source |-> "grace", streak |-> 1]
      BY <1>2, <2>1, <2>4, <3>3 DEF ChannelOfRun
    <3>6. QED
      BY <2>4, <3>1, <3>2, <3>4, <3>5 DEF UpdateChannel
  <2>5. CASE c.state # "present"
    <3>1. e = [evidence |-> "absent", source |-> "inferred"]
      BY <1>4, <2>5
    <3>2. NextStreak(c, e) = 1 /\ Threshold(e) = InferredEnter
      BY <2>2, <3>1 DEF NextStreak, Threshold
    <3>3. spared = 0 /\ 1 > spared /\ Capped(1 - spared) = 1
      BY <2>1, <2>5, Numbers DEF Spared, Capped
    <3>4. Decided(c.state, "visible", 1) = IF 1 >= InferredEnter THEN "absent" ELSE c.state
      BY <2>5, Numbers DEF Decided
    <3>5. ChannelOfRun(r) = [state |-> Decided(c.state, "visible", 1),
                             evidence |-> "absent", source |-> "inferred", streak |-> 1]
      BY <1>2, <2>1, <3>3 DEF ChannelOfRun
    <3>6. QED
      BY <3>1, <3>2, <3>4, <3>5 DEF UpdateChannel
  <2>6. QED
    BY <2>4, <2>5
<1>6. CASE p.obs = "visible"
  <2>1. /\ r.run = IF p.run < RunCap THEN p.run + 1 ELSE p.run
        /\ r.anchor = p.anchor /\ spared = Spared(p)
    BY <1>6 DEF LengthenPast, Spared
  <2>2. p.run >= 1
    BY <1>1, <1>6 DEF Follows
  <2>3. c.state = Decided(p.anchor, "visible", p.run)
    BY <1>1, <1>6 DEF ChannelOfRun
  <2>4. CASE p.anchor = "present" /\ p.run < Grace
    <3>1. /\ spared = Grace /\ ~(p.run > spared) /\ r.run = p.run + 1
          /\ ~(r.run > spared) /\ Capped(p.run) = p.run /\ Capped(r.run) = r.run
      BY <1>1, <2>1, <2>4, Numbers DEF Spared, Capped
    <3>2. c.state = "present"
      BY <2>3, <2>4, <1>1, Numbers DEF Decided
    <3>3. c.source = "grace" /\ c.evidence = "unknown" /\ c.streak = p.run
      BY <1>1, <1>6, <2>1, <3>1 DEF ChannelOfRun
    <3>4. e = [evidence |-> "unknown", source |-> "grace"]
      BY <1>4, <2>4, <3>2, <3>3 DEF GraceAge
    <3>5. NextStreak(c, e) = r.run /\ Threshold(e) = Grace
      BY <1>1, <2>4, <3>1, <3>3, <3>4, Numbers DEF NextStreak, Threshold, Lengthen
    <3>6. Decided("present", "visible", r.run)
            = IF r.run >= Grace THEN "unknown" ELSE "present"
      BY <1>1, <2>4, <3>1, Numbers DEF Decided
    <3>7. ChannelOfRun(r) = [state |-> Decided("present", "visible", r.run),
                             evidence |-> "unknown", source |-> "grace", streak |-> r.run]
      BY <1>2, <2>1, <2>4, <3>1 DEF ChannelOfRun
    <3>8. QED
      BY <3>2, <3>4, <3>5, <3>6, <3>7 DEF UpdateChannel
  <2>5. CASE p.anchor = "present" /\ p.run = Grace
    <3>1. /\ spared = Grace /\ ~(p.run > spared) /\ r.run = Grace + 1
          /\ r.run > spared /\ Capped(r.run - spared) = 1
      BY <2>1, <2>5, Numbers DEF Spared, Capped
    <3>2. c.state = "unknown"
      BY <2>3, <2>5, Numbers DEF Decided
    <3>3. c.source = "grace"
      BY <1>1, <1>6, <2>1, <3>1 DEF ChannelOfRun
    <3>4. e = [evidence |-> "absent", source |-> "inferred"]
      BY <1>4, <3>2
    <3>5. NextStreak(c, e) = 1 /\ Threshold(e) = InferredEnter
      BY <3>3, <3>4 DEF NextStreak, Threshold
    <3>6. Decided("present", "visible", r.run)
            = IF 1 >= InferredEnter THEN "absent" ELSE "unknown"
      BY <3>1, Numbers DEF Decided
    <3>7. ChannelOfRun(r) = [state |-> Decided("present", "visible", r.run),
                             evidence |-> "absent", source |-> "inferred", streak |-> 1]
      BY <1>2, <2>1, <2>5, <3>1 DEF ChannelOfRun
    <3>8. QED
      BY <3>2, <3>4, <3>5, <3>6, <3>7 DEF UpdateChannel
  <2>6. CASE p.run > spared
    <3> DEFINE m == p.run - spared
               k == r.run - spared
               d == IF p.anchor = "present" THEN "unknown" ELSE p.anchor
    <3>1. /\ spared = IF p.anchor = "present" THEN Grace ELSE 0
          /\ m \in Nat /\ m >= 1 /\ k \in Nat /\ k >= 1 /\ r.run > spared
      BY <1>1, <2>1, <2>6, Numbers DEF Spared
    <3>2. Lengthen(Capped(m)) = Capped(k)
      BY <1>1, <2>1, <3>1, Numbers DEF Lengthen, Capped
    <3>3. /\ Capped(k) >= InferredEnter <=> k >= InferredEnter
          /\ m >= InferredEnter => k >= InferredEnter
      BY <1>1, <2>1, <3>1, Numbers DEF Capped
    <3>4. /\ c.state = IF m >= InferredEnter THEN "absent" ELSE d
          /\ Decided(p.anchor, "visible", r.run)
               = IF k >= InferredEnter THEN "absent" ELSE d
      BY <1>1, <1>2, <2>1, <2>3, <2>6, <3>1, Numbers DEF Decided
    <3>5. c.state # "present"
      BY <3>4
    <3>6. e = [evidence |-> "absent", source |-> "inferred"]
      BY <1>4, <3>5
    <3>7. c.source = "inferred" /\ c.evidence = "absent" /\ c.streak = Capped(m)
      BY <1>1, <1>6, <2>1, <2>6 DEF ChannelOfRun
    <3>8. NextStreak(c, e) = Capped(k) /\ Threshold(e) = InferredEnter
      BY <3>2, <3>6, <3>7 DEF NextStreak, Threshold
    <3>9. ChannelOfRun(r) = [state |-> Decided(p.anchor, "visible", r.run),
                             evidence |-> "absent", source |-> "inferred",
                             streak |-> Capped(k)]
      BY <1>2, <2>1, <3>1 DEF ChannelOfRun
    <3>10. QED
      BY <3>3, <3>4, <3>6, <3>8, <3>9 DEF UpdateChannel
  <2>7. p.anchor = "present" => spared = Grace
    BY <2>1 DEF Spared
  <2>8. p.anchor # "present" => p.run > spared
    BY <1>1, <2>1, <2>2 DEF Spared
  <2>9. QED
    BY <1>1, <2>4, <2>5, <2>6, <2>7, <2>8, Numbers
<1>7. QED
  BY <1>5, <1>6

\* Whatever a frame shows, the channel keeps following its past.
LEMMA UpdateFollows ==
  ASSUME NEW q \in Equipment, NEW c \in Channel, NEW p, Follows(c, p, q),
         NEW o \in Observation, NEW silent \in 0 .. UnknownAfter
  PROVE  Follows(UpdateChannel(c, FrameEvidence(c, q, o)),
                 LengthenPast(p, c.state, Seeming(q, o), silent), q)
<1> DEFINE s == Seeming(q, o)
           r == LengthenPast(p, c.state, s, silent)
<1>1. s \in Observation /\ (s = "visible" => q \in Inferred)
  BY DEF Seeming, Observation
<1>2. r \in Past /\ r.run # 0 /\ r.obs = s
  <2>1. p \in Past /\ c.state \in Decision
    BY DEF Follows, Channel
  <2>2. QED
    BY <1>1, <2>1, LengthenPastType DEF LengthenPast
<1>3. UpdateChannel(c, FrameEvidence(c, q, o)) = ChannelOfRun(r)
  <2>1. CASE s = "visible"
    <3>1. o = "visible" /\ q \in Inferred
      BY <2>1, <1>1 DEF Seeming
    <3>2. QED
      BY <2>1, <3>1, InferredRun
  <2>2. CASE s \in {"present", "absent", "conflict", "hidden"}
    <3>1. FrameEvidence(c, q, o)
            = [evidence |-> IF s \in {"present", "absent"} THEN s ELSE "unknown",
               source |-> CASE s \in {"present", "absent"} -> "detector_observation"
                            [] s = "conflict" -> "conflicting_observations"
                            [] OTHER -> "insufficient"]
      BY <2>2 DEF FrameEvidence, Seeming, Observation
    <3>2. QED
      BY <2>2, <3>1, PlainRun
  <2>3. QED
    BY <1>1, <2>1, <2>2 DEF Observation
<1>4. QED
  BY <1>1, <1>2, <1>3 DEF Follows, Observation

\* The past recorded for a person the frame shows.
LEMMA ObserveLengthens ==
  ASSUME NEW i, NEW q, NEW o, PastAt(i, q) \in Past
  PROVE  \E silent \in 0 .. UnknownAfter :
           Observe(i, q, o)
             = LengthenPast(PastAt(i, q), TrackAt(i).channel[q].state, Seeming(q, o), silent)
<1>1. Observe(i, q, o).silent \in 0 .. UnknownAfter
  <2>1. PastAt(i, q).silent \in 0 .. UnknownAfter
    BY DEF Past
  <2>2. QED
    BY <2>1, Numbers DEF Observe
<1>2. Observe(i, q, o)
        = LengthenPast(PastAt(i, q), TrackAt(i).channel[q].state, Seeming(q, o),
                       Observe(i, q, o).silent)
  BY DEF Observe, LengthenPast
<1>3. QED
  BY <1>1, <1>2

\* The channel and the past of any person, seen before or not.
LEMMA AnyoneFollows ==
  ASSUME TypeOK, ChannelsFollow, NEW i, NEW q \in Equipment
  PROVE  Follows(TrackAt(i).channel[q], PastAt(i, q), q)
<1>1. CASE i \in Live
  BY <1>1 DEF ChannelsFollow, TrackAt, PastAt
<1>2. CASE i \notin Live
  BY <1>2, NothingFollows DEF TrackAt, PastAt, NewTrack
<1>3. QED
  BY <1>1, <1>2

LEMMA RecordedPast ==
  ASSUME NEW seen, NEW obs, Record(seen, obs), NEW i \in Live', NEW q \in Equipment
  PROVE  past'[i][q] = IF i \in seen THEN Observe(i, q, obs[i][q]) ELSE PastAt(i, q)
  BY DEF Record, Live

LEMMA FrameFollows ==
  ASSUME IInv, ChannelsFollow, NEW seen, NEW obs,
         FrameOf(seen, obs), Record(seen, obs)
  PROVE  ChannelsFollow'
<1> USE DEF IInv
<1>1. DOMAIN past' = Live'
  BY DEF Record, Live
<1>2. ASSUME NEW i \in Live', NEW q \in Equipment
      PROVE  Follows(tracks'[i].channel[q], past'[i][q], q)
  <2> DEFINE c == TrackAt(i).channel[q]
             p == PastAt(i, q)
  <2>1. Follows(c, p, q)
    BY AnyoneFollows
  <2>2. CASE i \in seen
    <3>1. tracks'[i].channel[q] = UpdateChannel(c, FrameEvidence(c, q, obs[i][q]))
      BY <2>2, FrameChannels DEF SeenChannel
    <3>2. c \in Channel /\ obs[i][q] \in Observation
      BY <2>2, SeenChannelType DEF FrameOf
    <3>3. PICK silent \in 0 .. UnknownAfter :
            past'[i][q] = LengthenPast(p, c.state, Seeming(q, obs[i][q]), silent)
      BY <2>1, <2>2, RecordedPast, ObserveLengthens DEF Follows
    <3>4. QED
      BY <2>1, <3>1, <3>2, <3>3, UpdateFollows
  <2>3. CASE i \notin seen
    <3>1. i \in Live /\ tracks'[i].channel = tracks[i].channel
      BY <2>3, FrameChannels
    <3>2. past'[i][q] = p
      BY <2>3, RecordedPast
    <3>3. QED
      BY <2>1, <3>1, <3>2 DEF TrackAt
  <2>4. QED
    BY <2>2, <2>3
<1>3. QED
  BY <1>1, <1>2 DEF ChannelsFollow

LEMMA RejectFollows ==
  ASSUME IInv, ChannelsFollow, NEW external, RejectOf(external), Record({}, <<>>)
  PROVE  ChannelsFollow'
<1> USE DEF IInv
<1>1. DOMAIN past' = Live'
  BY DEF Record, Live
<1>2. ASSUME NEW i \in Live', NEW q \in Equipment
      PROVE  Follows(tracks'[i].channel[q], past'[i][q], q)
  <2>1. tracks'[i] = TrackAt(i)
    BY RejectTracks
  <2>2. past'[i][q] = PastAt(i, q)
    BY RecordedPast
  <2>3. QED
    BY <2>1, <2>2, AnyoneFollows
<1>3. QED
  BY <1>1, <1>2 DEF ChannelsFollow

\* A step of the recorded history is a step of the fusion.
LEMMA HistoryCases ==
  ASSUME IInv, HNext
  PROVE  /\ Next
         /\ \/ \E seen, obs : FrameOf(seen, obs) /\ Record(seen, obs)
            \/ (\E external : RejectOf(external)) /\ Record({}, <<>>)
<1>1. CASE HFrame
  <2>0. PICK external \in SUBSET TrackId :
          \E matched \in SUBSET (Live \ external) :
            \E first \in FirstFree(external), n \in 0 .. NewPeople :
              LET fresh == first .. (first + n - 1)
                  seen == external \union matched \union fresh
              IN  /\ fresh \subseteq TrackId
                  /\ nextTrackId' = first + n
                  /\ \E obs \in Observations(seen) :
                       /\ ProcessFrame(external, matched, fresh, obs)
                       /\ Record(seen, obs)
    BY <1>1 DEF HFrame
  <2>1. PICK matched \in SUBSET (Live \ external) :
          \E first \in FirstFree(external), n \in 0 .. NewPeople :
            LET fresh == first .. (first + n - 1)
                seen == external \union matched \union fresh
            IN  /\ fresh \subseteq TrackId
                /\ nextTrackId' = first + n
                /\ \E obs \in Observations(seen) :
                     /\ ProcessFrame(external, matched, fresh, obs)
                     /\ Record(seen, obs)
    BY <2>0
  <2>2. PICK first \in FirstFree(external), n \in 0 .. NewPeople :
            /\ first .. (first + n - 1) \subseteq TrackId
            /\ nextTrackId' = first + n
            /\ \E obs \in Observations(external \union matched
                                         \union (first .. (first + n - 1))) :
                 /\ ProcessFrame(external, matched, first .. (first + n - 1), obs)
                 /\ Record(external \union matched \union (first .. (first + n - 1)), obs)
    BY <2>1
  <2> DEFINE fresh == first .. (first + n - 1)
             seen == external \union matched \union fresh
  <2>3. PICK obs \in Observations(seen) :
          ProcessFrame(external, matched, fresh, obs) /\ Record(seen, obs)
    BY <2>2
  <2>4. FrameOf(seen, obs)
    BY <2>2, <2>3, FrameIsOf DEF IInv
  <2>5. Frame
    BY <2>2, <2>3 DEF Frame
  <2>6. QED
    BY <2>3, <2>4, <2>5 DEF Next
<1>2. CASE HReject
  <2>1. Reject /\ Record({}, <<>>)
    BY <1>2 DEF HReject, Reject
  <2>2. QED
    BY <2>1, RejectCases DEF Next
<1>3. QED
  BY <1>1, <1>2 DEF HNext

HIInv == IInv /\ ChannelsFollow

LEMMA HistoryStart == HInit => HIInv
<1> SUFFICES ASSUME HInit PROVE HIInv
  OBVIOUS
<1>1. Live = {} /\ DOMAIN past = {}
  BY DEF HInit, Init, Live
<1>2. QED
  BY <1>1, InitHolds DEF HInit, HIInv, ChannelsFollow

LEMMA HistoryStep == HIInv /\ [HNext]_histVars => HIInv'
<1> SUFFICES ASSUME HIInv, [HNext]_histVars
             PROVE  HIInv'
  OBVIOUS
<1> USE DEF HIInv
<1>1. CASE HNext
  <2>1. IInv'
    BY <1>1, HistoryCases, StepHolds
  <2>2. ChannelsFollow'
    BY <1>1, HistoryCases, FrameFollows, RejectFollows
  <2>3. QED
    BY <2>1, <2>2
<1>2. CASE UNCHANGED histVars
  <2>1. UNCHANGED vars /\ UNCHANGED past
    BY <1>2 DEF vars, histVars
  <2>2. IInv'
    BY <2>1, StepHolds
  <2>3. ChannelsFollow'
    BY <2>1 DEF vars, ChannelsFollow, Live
  <2>4. QED
    BY <2>2, <2>3
<1>3. QED
  BY <1>1, <1>2

\* The whole state of a channel, its streak and the source of its evidence
\* included, is determined by the current run of equal observations and the
\* decision it found.
THEOREM HistoryInvariance == HSpec => []HIInv
  BY HistoryStart, HistoryStep, PTL DEF HSpec

\* The recorded history adds nothing to what the fusion does: what holds of the
\* fusion holds of every behaviour whose observations are recorded.
THEOREM HistoryObserves == HSpec => Spec
<1>1. HInit => Init
  BY DEF HInit
<1>2. HIInv /\ [HNext]_histVars => [Next]_vars
  BY HistoryCases DEF HIInv, histVars, vars
<1>3. QED
  BY <1>1, <1>2, HistoryInvariance, PTL DEF HSpec, Spec

\* Alarms enter and clear, the unknown hold and the grace expire at exactly
\* their configured number of frames, for every configuration.
THEOREM DecisionsMatchRuns == HSpec => []DecisionMatchesRun
<1>1. HIInv => DecisionMatchesRun
  <2> SUFFICES ASSUME HIInv, NEW i \in Live, NEW q \in Equipment
               PROVE  tracks[i].channel[q].state
                        = Decided(past[i][q].anchor, past[i][q].obs, past[i][q].run)
    BY DEF DecisionMatchesRun
  <2>1. tracks[i].channel[q] = ChannelOfRun(past[i][q])
    BY DEF HIInv, ChannelsFollow, Follows
  <2>2. QED
    BY <2>1 DEF ChannelOfRun
<1>2. QED
  BY <1>1, HistoryInvariance, PTL
=============================================================================
