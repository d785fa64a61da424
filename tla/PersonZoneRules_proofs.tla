----------------------- MODULE PersonZoneRules_proofs -----------------------
(***************************************************************************)
(* Proofs about PersonZoneRules and PersonZoneHistory for every choice of  *)
(* thresholds, every anchor and every set of persons.                      *)
(***************************************************************************)
EXTENDS PersonZoneHistory, TLAPS

\* What an element of Sightings is, whatever the anchor.
Sighting == [eligible : BOOLEAN, zone : Observation, walk : {"yes", "no"},
             climb : Observation, touch : BOOLEAN]

\* The stage of one track tells the state behind it.
Truthful(t) ==
  Fenced => /\ t.stage = "breach" <=> t.zone.active
            /\ t.stage = "climbing" <=> t.climb.active
            /\ t.zone.active => t.climb = NewRule

IInv == TypeOK /\ StageTellsTheState

-----------------------------------------------------------------------------
(* The debounce.                                                           *)

LEMMA SightingType == Sightings \subseteq Sighting
<1>1. Hidden \in Sighting
  BY DEF Hidden, Sighting, Observation
<1>2. ASSUME NEW s \in Sightings, s # Hidden
      PROVE  s \in Sighting
  BY <1>2 DEF Sightings, Sighting, Observation
<1>3. QED
  BY <1>1, <1>2

LEMMA DebouncedType ==
  ASSUME NEW enter \in Nat \ {0}, NEW exit \in Nat \ {0},
         NEW r \in RuleWithin(Longest(enter, exit)), NEW obs \in Observation
  PROVE  Debounced(r, obs, enter, exit) \in RuleWithin(Longest(enter, exit))
  BY DEF RuleWithin, Longest, Debounced, Run, Observation

LEMMA SuppressedType ==
  ASSUME NEW enter \in Nat \ {0}, NEW exit \in Nat \ {0},
         NEW r \in RuleWithin(Longest(enter, exit))
  PROVE  Suppressed(r, enter, exit) \in RuleWithin(Longest(enter, exit))
<1>1. CASE r.active
  BY <1>1 DEF Suppressed, RuleWithin, Longest
<1>2. CASE ~r.active
  BY <1>2, DebouncedType DEF Suppressed, Observation
<1>3. QED
  BY <1>1, <1>2

LEMMA NewTrackType == NewTrack \in Track
  BY ZoneAssumption DEF NewTrack, NewRule, Track, RuleWithin, Longest

LEMMA TrackAtType ==
  ASSUME TypeOK, NEW p
  PROVE  TrackAt(p) \in Track
  BY NewTrackType DEF TypeOK, TrackAt

LEMMA SeenType ==
  ASSUME NEW t \in Track, NEW s \in Sighting
  PROVE  Seen(t, s) \in Track
<1> USE ZoneAssumption
<1>1. /\ t.zone \in RuleWithin(Longest(ZoneEnter, ZoneExit))
      /\ t.walk \in RuleWithin(Longest(WalkEnter, WalkExit))
      /\ t.climb \in RuleWithin(Longest(ClimbEnter, ClimbExit))
      /\ t.stage \in {"clear", "approach", "climbing", "breach"}
  BY DEF Track
<1>2. Climb(t, s) \in RuleWithin(Longest(ClimbEnter, ClimbExit))
  BY <1>1, DebouncedType DEF Climb, Sighting
<1>3. RawZone(t, s) \in Observation
  BY DEF RawZone, Sighting, Observation
<1>4. ZoneRule(t, s) \in RuleWithin(Longest(ZoneEnter, ZoneExit))
  BY <1>1, <1>3, DebouncedType, SuppressedType DEF ZoneRule
<1>5. WalkRule(t, s) \in RuleWithin(Longest(WalkEnter, WalkExit))
  BY <1>1, DebouncedType, SuppressedType DEF WalkRule, Sighting, Observation
<1>6. ClimbRule(t, s) \in RuleWithin(Longest(ClimbEnter, ClimbExit))
  BY <1>2 DEF ClimbRule, NewRule, RuleWithin, Longest
<1>7. Stage(t, s) \in {"clear", "approach", "climbing", "breach"}
  BY <1>1 DEF Stage
<1>8. QED
  BY <1>4, <1>5, <1>6, <1>7 DEF Seen, Track

LEMMA InterruptedType ==
  ASSUME NEW n \in Nat, NEW r \in RuleWithin(n)
  PROVE  Interrupted(r) \in RuleWithin(n)
  BY DEF Interrupted, RuleWithin

LEMMA MissedType ==
  ASSUME NEW t \in Track, NEW elapsed \in Nat, t.missed + elapsed <= TrackTtl
  PROVE  Missed(t, elapsed) \in Track
<1>1. /\ Interrupted(t.zone) \in RuleWithin(Longest(ZoneEnter, ZoneExit))
      /\ Interrupted(t.walk) \in RuleWithin(Longest(WalkEnter, WalkExit))
  BY InterruptedType, ZoneAssumption DEF Track, Longest
<1>2. t.missed + elapsed \in 0 .. TrackTtl
  BY ZoneAssumption DEF Track
<1>3. QED
  BY <1>1, <1>2 DEF Missed, Track

-----------------------------------------------------------------------------
(* The stage.                                                              *)

LEMMA SeenTruthful ==
  ASSUME NEW t \in Track, NEW s \in Sighting, Truthful(t)
  PROVE  Truthful(Seen(t, s))
<1> SUFFICES ASSUME Fenced PROVE Truthful(Seen(t, s))
  BY DEF Truthful
<1>1. CASE ~s.eligible
  <2>1. ZoneRule(t, s).active = FALSE
    BY <1>1 DEF ZoneRule, Suppressed, Debounced, Starts
  <2>2. QED
    BY <1>1, <2>1 DEF Truthful, Seen, Stage, ClimbRule
<1>2. CASE s.eligible /\ s.zone = "unknown"
  <2>1. ZoneRule(t, s) = t.zone
    BY <1>2 DEF ZoneRule, RawZone, PoseValid, Debounced
  <2>2. ClimbRule(t, s) = t.climb /\ Stage(t, s) = t.stage
    BY <1>2 DEF ClimbRule, Climb, Stage, PoseValid
  <2>3. QED
    BY <2>1, <2>2 DEF Truthful, Seen
<1>3. CASE s.eligible /\ s.zone # "unknown"
  <2>1. CASE ZoneRule(t, s).active
    BY <1>3, <2>1 DEF Truthful, Seen, Stage, ClimbRule, PoseValid, NewRule
  <2>2. CASE ~ZoneRule(t, s).active
    BY <1>3, <2>2 DEF Truthful, Seen, Stage, ClimbRule, PoseValid
  <2>3. QED
    BY <2>1, <2>2
<1>4. QED
  BY <1>1, <1>2, <1>3

LEMMA MissedTruthful ==
  ASSUME NEW t \in Track, NEW elapsed, Truthful(t)
  PROVE  Truthful(Missed(t, elapsed))
<1>1. /\ Missed(t, elapsed).zone.active = t.zone.active
      /\ Missed(t, elapsed).climb = t.climb
      /\ Missed(t, elapsed).stage = t.stage
  BY DEF Missed, Interrupted, Track, RuleWithin
<1>2. QED
  BY <1>1 DEF Truthful

LEMMA NewTruthful == Truthful(NewTrack)
  BY DEF Truthful, NewTrack, NewRule
-----------------------------------------------------------------------------
(* The inductive invariant.                                                *)

LEMMA IInvTruthful == StageTellsTheState <=> \A p \in DOMAIN tracks : Truthful(tracks[p])
  BY DEF StageTellsTheState, Truthful

LEMMA TrackAtTruthful ==
  ASSUME IInv, NEW p
  PROVE  Truthful(TrackAt(p))
  BY IInvTruthful, NewTruthful DEF IInv, TrackAt

\* What a frame does to the table.
LEMMA FrameTracks ==
  ASSUME NEW elapsed \in 1 .. MaxElapsed, NEW shown \in SUBSET Person,
         NEW sight \in [shown -> Sightings], ProcessFrame(elapsed, sight)
  PROVE  /\ DOMAIN tracks' = shown \union
              ((DOMAIN tracks \ shown)
                 \ Expired(DOMAIN tracks \ shown, elapsed))
         /\ \A p \in shown : tracks'[p] = Seen(TrackAt(p), sight[p])
         /\ \A p \in DOMAIN tracks' \ shown :
              tracks'[p] = Missed(tracks[p], elapsed)
  BY DEF ProcessFrame

LEMMA InitIInv == Init => IInv
  BY DEF Init, IInv, TypeOK, StageTellsTheState

LEMMA FrameIInv ==
  ASSUME IInv, NEW elapsed \in 1 .. MaxElapsed, NEW shown \in SUBSET Person,
         NEW sight \in [shown -> Sightings], ProcessFrame(elapsed, sight)
  PROVE  IInv'
<1>0. /\ DOMAIN tracks' = shown \union
              ((DOMAIN tracks \ shown)
                 \ Expired(DOMAIN tracks \ shown, elapsed))
      /\ \A p \in shown : tracks'[p] = Seen(TrackAt(p), sight[p])
      /\ \A p \in DOMAIN tracks' \ shown :
           tracks'[p] = Missed(tracks[p], elapsed)
  BY FrameTracks
<1>1. /\ DOMAIN tracks' \subseteq Person
      /\ shown \subseteq DOMAIN tracks'
  BY <1>0 DEF IInv, TypeOK
<1>2. ASSUME NEW p \in shown
      PROVE  tracks'[p] \in Track /\ Truthful(tracks'[p])
  <2>1. sight[p] \in Sighting
    BY SightingType
  <2>2. TrackAt(p) \in Track /\ Truthful(TrackAt(p))
    BY TrackAtType, TrackAtTruthful DEF IInv
  <2>3. tracks'[p] = Seen(TrackAt(p), sight[p])
    BY <1>0
  <2>4. QED
    BY <2>1, <2>2, <2>3, SeenType, SeenTruthful
<1>3. ASSUME NEW p \in DOMAIN tracks' \ shown
      PROVE  tracks'[p] \in Track /\ Truthful(tracks'[p])
  <2>1. p \in DOMAIN tracks /\ ~(tracks[p].missed + elapsed > TrackTtl)
    BY <1>0 DEF Expired
  <2>2. tracks[p] \in Track /\ Truthful(tracks[p])
    BY <2>1, IInvTruthful DEF IInv, TypeOK
  <2>3. elapsed \in Nat /\ tracks[p].missed + elapsed <= TrackTtl
    BY <2>1, <2>2, ZoneAssumption DEF Track
  <2>4. tracks'[p] = Missed(tracks[p], elapsed)
    BY <1>0
  <2>5. QED
    BY <2>2, <2>3, <2>4, MissedType, MissedTruthful
<1>4. \A p \in DOMAIN tracks' : tracks'[p] \in Track /\ Truthful(tracks'[p])
  BY <1>2, <1>3
<1>5. DOMAIN eligible' = shown /\ \A p \in shown : eligible'[p] \in BOOLEAN
  <2>1. eligible' = [p \in shown |-> sight[p].eligible]
    BY DEF ProcessFrame
  <2>2. \A p \in shown : sight[p].eligible \in BOOLEAN
    BY SightingType DEF Sighting
  <2>3. QED
    BY <2>1, <2>2
<1>6. TypeOK'
  BY <1>1, <1>4, <1>5 DEF TypeOK
<1>7. StageTellsTheState'
  BY <1>4 DEF StageTellsTheState, Truthful
<1>8. QED
  BY <1>6, <1>7 DEF IInv

LEMMA NextIInv == IInv /\ [Next]_vars => IInv'
<1>1. CASE UNCHANGED vars
  BY <1>1 DEF vars, IInv, TypeOK, StageTellsTheState
<1>2. ASSUME IInv, Next PROVE IInv'
  BY <1>2, FrameIInv DEF Next
<1>3. QED
  BY <1>1, <1>2

THEOREM Invariance == Spec => []IInv
  BY InitIInv, NextIInv, PTL DEF Spec

\* Tracks are well formed and within their ttl for every configuration.
THEOREM TypeCorrect == Spec => []TypeOK
  BY Invariance, PTL DEF IInv

\* The stage on display is the state behind it (_set_fence_state is called with
\* what the alarm and the climb say, and whenever they change).
THEOREM StageTruth == Spec => []StageTellsTheState
  BY Invariance, PTL DEF IInv

-----------------------------------------------------------------------------
(* The events of a person against its open alarms.                         *)

LEMMA DebouncedActive ==
  ASSUME NEW r, NEW obs, NEW enter, NEW exit, r.active \in BOOLEAN
  PROVE  Debounced(r, obs, enter, exit).active
           <=> (r.active \/ Starts(r, obs, enter)) /\ ~Ends(r, obs, exit)
  BY DEF Debounced, Starts, Ends

LEMMA SuppressedActive ==
  ASSUME NEW r, NEW enter, NEW exit, r.active \in BOOLEAN
  PROVE  ~Suppressed(r, enter, exit).active
  BY DEF Suppressed, Debounced, Starts

LEMMA RuleEvents ==
  ASSUME NEW t \in Track, NEW s \in Sighting
  PROVE  /\ RuleStarts(t, s) \intersect Active(t) = {}
         /\ RuleEnds(t, s) \subseteq Active(t)
         /\ RuleStarts(t, s) \intersect RuleEnds(t, s) = {}
         /\ Active(Seen(t, s)) =
              (Active(t) \ RuleEnds(t, s)) \union RuleStarts(t, s)
<1>1. t.zone.active \in BOOLEAN /\ t.walk.active \in BOOLEAN
  BY DEF Track, RuleWithin
<1>2. ZoneRule(t, s).active <=>
        IF s.eligible
        THEN /\ t.zone.active \/ Starts(t.zone, RawZone(t, s), ZoneEnter)
             /\ ~Ends(t.zone, RawZone(t, s), ZoneExit)
        ELSE FALSE
  <2>1. CASE s.eligible
    <3>1. ZoneRule(t, s) = Debounced(t.zone, RawZone(t, s), ZoneEnter, ZoneExit)
      BY <2>1 DEF ZoneRule
    <3>2. QED
      BY <1>1, <2>1, <3>1, DebouncedActive
  <2>2. CASE ~s.eligible
    <3>1. ZoneRule(t, s) = Suppressed(t.zone, ZoneEnter, ZoneExit)
      BY <2>2 DEF ZoneRule
    <3>2. ~Suppressed(t.zone, ZoneEnter, ZoneExit).active
      BY <1>1, SuppressedActive
    <3>3. QED
      BY <2>2, <3>1, <3>2
  <2>3. QED
    BY <2>1, <2>2
<1>3. WalkRule(t, s).active <=>
        IF s.eligible
        THEN /\ t.walk.active \/ Starts(t.walk, s.walk, WalkEnter)
             /\ ~Ends(t.walk, s.walk, WalkExit)
        ELSE FALSE
  <2>1. CASE s.eligible
    <3>1. WalkRule(t, s) = Debounced(t.walk, s.walk, WalkEnter, WalkExit)
      BY <2>1 DEF WalkRule
    <3>2. QED
      BY <1>1, <2>1, <3>1, DebouncedActive
  <2>2. CASE ~s.eligible
    <3>1. WalkRule(t, s) = Suppressed(t.walk, WalkEnter, WalkExit)
      BY <2>2 DEF WalkRule
    <3>2. ~Suppressed(t.walk, WalkEnter, WalkExit).active
      BY <1>1, SuppressedActive
    <3>3. QED
      BY <2>2, <3>1, <3>2
  <2>3. QED
    BY <2>1, <2>2
<1>4. /\ RuleStarts(t, s) \intersect Active(t) = {}
      /\ RuleEnds(t, s) \subseteq Active(t)
      /\ RuleStarts(t, s) \intersect RuleEnds(t, s) = {}
  BY DEF RuleStarts, RuleEnds, Active, Starts, Rules, Zone, Walkway
<1>5. Zone \in Active(Seen(t, s)) <=>
        Zone \in (Active(t) \ RuleEnds(t, s)) \union RuleStarts(t, s)
  BY <1>1, <1>2 DEF RuleStarts, RuleEnds, Active, Seen, Starts, Ends, Rules, Zone,
                    Walkway, Sighting
<1>6. Walkway \in Active(Seen(t, s)) <=>
        Walkway \in (Active(t) \ RuleEnds(t, s)) \union RuleStarts(t, s)
  BY <1>1, <1>3 DEF RuleStarts, RuleEnds, Active, Seen, Starts, Ends, Rules, Zone,
                    Walkway, Sighting
<1>7. /\ Active(Seen(t, s)) \subseteq {Zone, Walkway}
      /\ Active(t) \subseteq {Zone, Walkway}
      /\ RuleStarts(t, s) \subseteq {Zone, Walkway}
  BY DEF Active, RuleStarts, Rules
<1>8. QED
  BY <1>4, <1>5, <1>6, <1>7

LEMMA StageEvents ==
  ASSUME NEW t, NEW s
  PROVE  /\ Staged(t, s) \intersect StageOf(t) = {}
         /\ Unstaged(t, s) \subseteq StageOf(t)
         /\ Staged(t, s) \intersect Unstaged(t, s) = {}
         /\ StageOf(Seen(t, s)) =
              (StageOf(t) \ Unstaged(t, s)) \union Staged(t, s)
<1>1. Seen(t, s).stage = Stage(t, s)
  BY DEF Seen
<1>2. QED
  BY <1>1 DEF Staged, Unstaged, StageOf

\* From the events of each person to the events of a frame: T are the persons
\* tracked before and U after it, V those it shows, X those that expire.
LEMMA Lift ==
  ASSUME NEW T, NEW U, NEW V, NEW X, NEW K, NEW A, NEW B, NEW S, NEW E,
         X \subseteq T \ V, U = V \union ((T \ V) \ X),
         \A p \in V \ T : A[p] = {},
         \A p \in V : /\ S[p] \intersect A[p] = {}
                     /\ E[p] \subseteq A[p]
                     /\ S[p] \intersect E[p] = {}
                     /\ B[p] = (A[p] \ E[p]) \union S[p],
         \A p \in U \ V : B[p] = A[p],
         NEW open, NEW next, NEW starts, NEW ends,
         open = {a \in T \X K : a[2] \in A[a[1]]},
         next = {a \in U \X K : a[2] \in B[a[1]]},
         starts = {a \in V \X K : a[2] \in S[a[1]]},
         ends = {a \in X \X K : a[2] \in A[a[1]]}
                  \union {a \in V \X K : a[2] \in E[a[1]]}
  PROVE  /\ starts \in SUBSET (V \X K)
         /\ ends \in SUBSET open
         /\ starts \intersect (open \ ends) = {}
         /\ next = (open \ ends) \union starts
         /\ starts \intersect ends = {}
<1>1. ends \subseteq open
  OBVIOUS
<1>2. starts \intersect open \subseteq {} /\ starts \intersect ends = {}
  OBVIOUS
<1>3. ASSUME NEW a \in next PROVE a \in (open \ ends) \union starts
  <2>1. CASE a[1] \in V
    BY <2>1
  <2>2. CASE a[1] \notin V
    BY <2>2
  <2>3. QED
    BY <2>1, <2>2
<1>4. ASSUME NEW a \in open, a \notin ends PROVE a \in next
  BY <1>4
<1>5. starts \subseteq next
  OBVIOUS
<1>6. QED
  BY <1>1, <1>2, <1>3, <1>4, <1>5

-----------------------------------------------------------------------------
(* The refinements of the abstract ledger.                                 *)

LEMMA ZoneLedgerFrame ==
  ASSUME IInv, NEW elapsed \in 1 .. MaxElapsed, NEW shown \in SUBSET Person,
         NEW sight \in [shown -> Sightings], ProcessFrame(elapsed, sight)
  PROVE  ZoneLedger!SettledNext
<1> DEFINE absent == DOMAIN tracks \ shown
           X == Expired(absent, elapsed)
           A == [p \in Person |-> Active(TrackAt(p))]
           B == [p \in Person |-> Active(tracks'[p])]
           S == [p \in Person |-> RuleStarts(TrackAt(p), sight[p])]
           E == [p \in Person |-> RuleEnds(TrackAt(p), sight[p])]
           T == DOMAIN tracks
           U == DOMAIN tracks'
<1>0. /\ U = shown \union ((T \ shown) \ X)
      /\ \A p \in shown : tracks'[p] = Seen(TrackAt(p), sight[p])
      /\ \A p \in U \ shown : tracks'[p] = Missed(tracks[p], elapsed)
  BY FrameTracks
<1>1. X \subseteq T \ shown /\ T \subseteq Person /\ U \subseteq Person
  BY <1>0 DEF Expired, IInv, TypeOK
<1>2. \A p \in shown \ T : A[p] = {}
  BY DEF TrackAt, Active, NewTrack, NewRule
<1>3. ASSUME NEW p \in shown
      PROVE  /\ S[p] \intersect A[p] = {}
             /\ E[p] \subseteq A[p]
             /\ S[p] \intersect E[p] = {}
             /\ B[p] = (A[p] \ E[p]) \union S[p]
  <2>1. sight[p] \in Sighting /\ TrackAt(p) \in Track
    BY SightingType, TrackAtType DEF IInv
  <2>2. tracks'[p] = Seen(TrackAt(p), sight[p])
    BY <1>0
  <2>3. /\ A[p] = Active(TrackAt(p))
        /\ B[p] = Active(Seen(TrackAt(p), sight[p]))
        /\ S[p] = RuleStarts(TrackAt(p), sight[p])
        /\ E[p] = RuleEnds(TrackAt(p), sight[p])
    BY <2>2
  <2>4. QED
    BY <2>1, <2>3, RuleEvents
<1>4. ASSUME NEW p \in U \ shown PROVE B[p] = A[p]
  <2>1. tracks'[p] = Missed(tracks[p], elapsed) /\ p \in DOMAIN tracks /\ p \in Person
    BY <1>0, <1>1
  <2>2. tracks[p] \in Track /\ TrackAt(p) = tracks[p]
    BY <2>1 DEF IInv, TypeOK, TrackAt
  <2>3. Active(Missed(tracks[p], elapsed)) = Active(tracks[p])
    BY <2>2 DEF Active, Missed, Interrupted, Track
  <2>4. QED
    BY <2>1, <2>2, <2>3
<1>5. /\ OpenAlarms = {a \in T \X Rules : a[2] \in A[a[1]]}
      /\ OpenAlarms' = {a \in U \X Rules : a[2] \in B[a[1]]}
      /\ started' = {a \in shown \X Rules : a[2] \in S[a[1]]}
      /\ ended' = {a \in X \X Rules : a[2] \in A[a[1]]}
                  \union {a \in shown \X Rules : a[2] \in E[a[1]]}
      /\ DOMAIN eligible' = shown
  <2>1. \A p \in T : A[p] = Active(tracks[p])
    BY <1>1 DEF TrackAt
  <2>2. \A p \in U : B[p] = Active(tracks'[p])
    BY <1>1
  <2>3. OpenAlarms = {a \in T \X Rules : a[2] \in A[a[1]]}
    BY <2>1 DEF OpenAlarms
  <2>4. OpenAlarms' = {a \in U \X Rules : a[2] \in B[a[1]]}
    BY <2>2 DEF OpenAlarms
  <2>5. DOMAIN sight = shown /\ shown \subseteq Person
    OBVIOUS
  <2>6. started' = {a \in shown \X Rules : a[2] \in RuleStarts(TrackAt(a[1]), sight[a[1]])}
    BY <2>5 DEF ProcessFrame
  <2>7. ended' = {a \in X \X Rules : a[2] \in Active(tracks[a[1]])}
          \union {a \in shown \X Rules : a[2] \in RuleEnds(TrackAt(a[1]), sight[a[1]])}
    BY <2>5 DEF ProcessFrame, EndsByExpiry
  <2>8. started' = {a \in shown \X Rules : a[2] \in S[a[1]]}
    BY <2>5, <2>6
  <2>9. ended' = {a \in X \X Rules : a[2] \in A[a[1]]}
          \union {a \in shown \X Rules : a[2] \in E[a[1]]}
    BY <1>1, <2>1, <2>5, <2>7
  <2>10. DOMAIN eligible' = shown
    BY <2>5 DEF ProcessFrame
  <2>11. QED
    BY <2>3, <2>4, <2>8, <2>9, <2>10
<1> HIDE DEF A, B, S, E, T, U, X
<1>6. /\ started' \in SUBSET (shown \X Rules)
      /\ ended' \in SUBSET OpenAlarms
      /\ started' \intersect (OpenAlarms \ ended') = {}
      /\ OpenAlarms' = (OpenAlarms \ ended') \union started'
      /\ started' \intersect ended' = {}
  BY <1>0, <1>1, <1>2, <1>3, <1>4, <1>5, Lift
<1>7. ZoneLedger!Next
  <2>1. ZoneLedger!Report(shown, started', ended')
    BY <1>5, <1>6 DEF ZoneLedger!Report
  <2>2. shown \in SUBSET Person
    OBVIOUS
  <2>3. QED
    BY <1>6, <2>1, <2>2 DEF ZoneLedger!Next, ZoneLedger!Report
<1>8. QED
  BY <1>6, <1>7 DEF ZoneLedger!SettledNext

LEMMA FenceLedgerFrame ==
  ASSUME IInv, NEW elapsed \in 1 .. MaxElapsed, NEW shown \in SUBSET Person,
         NEW sight \in [shown -> Sightings], ProcessFrame(elapsed, sight)
  PROVE  FenceLedger!SettledNext
<1> DEFINE absent == DOMAIN tracks \ shown
           X == Expired(absent, elapsed)
           A == [p \in Person |-> StageOf(TrackAt(p))]
           B == [p \in Person |-> StageOf(tracks'[p])]
           S == [p \in Person |-> Staged(TrackAt(p), sight[p])]
           E == [p \in Person |-> Unstaged(TrackAt(p), sight[p])]
           T == DOMAIN tracks
           U == DOMAIN tracks'
<1>0. /\ U = shown \union ((T \ shown) \ X)
      /\ \A p \in shown : tracks'[p] = Seen(TrackAt(p), sight[p])
      /\ \A p \in U \ shown : tracks'[p] = Missed(tracks[p], elapsed)
  BY FrameTracks
<1>1. X \subseteq T \ shown /\ T \subseteq Person /\ U \subseteq Person
  BY <1>0 DEF Expired, IInv, TypeOK
<1>2. \A p \in shown \ T : A[p] = {}
  BY DEF TrackAt, StageOf, Reported, NewTrack, NewRule
<1>3. ASSUME NEW p \in shown
      PROVE  /\ S[p] \intersect A[p] = {}
             /\ E[p] \subseteq A[p]
             /\ S[p] \intersect E[p] = {}
             /\ B[p] = (A[p] \ E[p]) \union S[p]
  <2>1. sight[p] \in Sighting /\ TrackAt(p) \in Track
    BY SightingType, TrackAtType DEF IInv
  <2>2. tracks'[p] = Seen(TrackAt(p), sight[p])
    BY <1>0
  <2>3. /\ A[p] = StageOf(TrackAt(p))
        /\ B[p] = StageOf(Seen(TrackAt(p), sight[p]))
        /\ S[p] = Staged(TrackAt(p), sight[p])
        /\ E[p] = Unstaged(TrackAt(p), sight[p])
    BY <2>2
  <2>4. QED
    BY <2>1, <2>3, StageEvents
<1>4. ASSUME NEW p \in U \ shown PROVE B[p] = A[p]
  <2>1. tracks'[p] = Missed(tracks[p], elapsed) /\ p \in DOMAIN tracks /\ p \in Person
    BY <1>0, <1>1
  <2>2. tracks[p] \in Track /\ TrackAt(p) = tracks[p]
    BY <2>1 DEF IInv, TypeOK, TrackAt
  <2>3. StageOf(Missed(tracks[p], elapsed)) = StageOf(tracks[p])
    BY <2>2 DEF StageOf, Reported, Missed, Interrupted, Track
  <2>4. QED
    BY <2>1, <2>2, <2>3
<1>5. /\ OpenStages = {a \in T \X Reported : a[2] \in A[a[1]]}
      /\ OpenStages' = {a \in U \X Reported : a[2] \in B[a[1]]}
      /\ fenceStarted' = {a \in shown \X Reported : a[2] \in S[a[1]]}
      /\ fenceEnded' = {a \in X \X Reported : a[2] \in A[a[1]]}
                  \union {a \in shown \X Reported : a[2] \in E[a[1]]}
      /\ DOMAIN eligible' = shown
  <2>1. \A p \in T : A[p] = StageOf(tracks[p])
    BY <1>1 DEF TrackAt
  <2>2. \A p \in U : B[p] = StageOf(tracks'[p])
    BY <1>1
  <2>3. OpenStages = {a \in T \X Reported : a[2] \in A[a[1]]}
    BY <2>1 DEF OpenStages
  <2>4. OpenStages' = {a \in U \X Reported : a[2] \in B[a[1]]}
    BY <2>2 DEF OpenStages
  <2>5. DOMAIN sight = shown /\ shown \subseteq Person
    OBVIOUS
  <2>6. fenceStarted' = {a \in shown \X Reported : a[2] \in Staged(TrackAt(a[1]), sight[a[1]])}
    BY <2>5 DEF ProcessFrame
  <2>7. fenceEnded' = {a \in X \X Reported : a[2] \in StageOf(tracks[a[1]])}
          \union {a \in shown \X Reported : a[2] \in Unstaged(TrackAt(a[1]), sight[a[1]])}
    BY <2>5 DEF ProcessFrame, FenceEndsByExpiry
  <2>8. fenceStarted' = {a \in shown \X Reported : a[2] \in S[a[1]]}
    BY <2>5, <2>6
  <2>9. fenceEnded' = {a \in X \X Reported : a[2] \in A[a[1]]}
          \union {a \in shown \X Reported : a[2] \in E[a[1]]}
    BY <1>1, <2>1, <2>5, <2>7
  <2>10. DOMAIN eligible' = shown
    BY <2>5 DEF ProcessFrame
  <2>11. QED
    BY <2>3, <2>4, <2>8, <2>9, <2>10
<1> HIDE DEF A, B, S, E, T, U, X
<1>6. /\ fenceStarted' \in SUBSET (shown \X Reported)
      /\ fenceEnded' \in SUBSET OpenStages
      /\ fenceStarted' \intersect (OpenStages \ fenceEnded') = {}
      /\ OpenStages' = (OpenStages \ fenceEnded') \union fenceStarted'
      /\ fenceStarted' \intersect fenceEnded' = {}
  BY <1>0, <1>1, <1>2, <1>3, <1>4, <1>5, Lift
<1>7. FenceLedger!Next
  <2>1. FenceLedger!Report(shown, fenceStarted', fenceEnded')
    BY <1>5, <1>6 DEF FenceLedger!Report
  <2>2. shown \in SUBSET Person
    OBVIOUS
  <2>3. QED
    BY <1>6, <2>1, <2>2 DEF FenceLedger!Next, FenceLedger!Report
<1>8. QED
  BY <1>6, <1>7 DEF FenceLedger!SettledNext

LEMMA InitLedgers == Init => ZoneLedger!Init /\ FenceLedger!Init
  BY DEF Init, ZoneLedger!Init, FenceLedger!Init, OpenAlarms, OpenStages

LEMMA StepLedgers ==
  IInv /\ [Next]_vars
    => /\ [ZoneLedger!SettledNext]_ZoneLedger!ledgerVars
       /\ [FenceLedger!SettledNext]_FenceLedger!ledgerVars
<1>1. CASE UNCHANGED vars
  BY <1>1 DEF vars, ZoneLedger!ledgerVars, FenceLedger!ledgerVars,
                 OpenAlarms, OpenStages
<1>2. ASSUME IInv, Next
      PROVE  ZoneLedger!SettledNext /\ FenceLedger!SettledNext
  BY <1>2, ZoneLedgerFrame, FenceLedgerFrame DEF Next
<1>3. QED
  BY <1>1, <1>2

\* The safety events implement the abstract ledger, with the active alarms as
\* the open ones.
THEOREM ZoneImplementsLedger == Spec => ZoneEpisodes
  BY InitLedgers, StepLedgers, Invariance, PTL
     DEF Spec, ZoneEpisodes, ZoneLedger!SettledSpec

\* So do the fence events, with the stages on display as the open ones.
THEOREM FenceImplementsLedger == Spec => FenceEpisodes
  BY InitLedgers, StepLedgers, Invariance, PTL
     DEF Spec, FenceEpisodes, FenceLedger!SettledSpec

-----------------------------------------------------------------------------
(* The evidence behind an alarm of the restricted zone.                    *)

\* A climb is never qualified by more than the record holds.
ClimbRecorded(t, n) ==
  /\ t.climb.active => n >= ClimbEnter
  /\ t.climb.seen = "yes" => t.climb.streak <= n
  /\ t.climb.active \/ t.climb.seen = "yes" => Fenced

\* Neither is the exit run of an open alarm.
AwayRecorded(t, n) ==
  t.zone.active /\ t.zone.seen = "no" => t.zone.streak <= n

Recorded ==
  /\ climbs \in [Person -> 0 .. ClimbEnter]
  /\ away \in [Person -> 0 .. ZoneExit]
  /\ \A p \in DOMAIN tracks : /\ ClimbRecorded(tracks[p], climbs[p])
                              /\ AwayRecorded(tracks[p], away[p])

HIInv == IInv /\ Recorded /\ EveryBreachHasItsOwnClimb /\ EndsRestOnSightings

LEMMA SaturatingType ==
  ASSUME NEW top \in Nat, NEW n \in 0 .. top
  PROVE  Saturating(n, top) \in 0 .. top /\ Saturating(n, top) >= n
  BY DEF Saturating

\* One sighting: the climb that results is on the record.
LEMMA ClimbStep ==
  ASSUME Fenced, NEW t \in Track, NEW s \in Sighting, NEW n \in 0 .. ClimbEnter,
         ClimbRecorded(t, n), PoseValid(s)
  PROVE  LET m == IF s.climb = "yes" THEN Saturating(n, ClimbEnter) ELSE n
         IN  /\ Climb(t, s).active => m >= ClimbEnter
             /\ Climb(t, s).seen = "yes" => Climb(t, s).streak <= m
<1>1. ClimbEnter \in Nat \ {0} /\ t.climb \in RuleWithin(Longest(ClimbEnter, ClimbExit))
  BY ZoneAssumption DEF Track
<1>2. t.climb.streak \in Nat
  BY <1>1, ZoneAssumption DEF RuleWithin, Longest
<1>3. CASE s.climb = "yes"
  BY <1>1, <1>2, <1>3 DEF Climb, Debounced, Starts, Ends, Run, Saturating,
                          ClimbRecorded, RuleWithin
<1>4. CASE s.climb = "no"
  BY <1>1, <1>2, <1>4 DEF Climb, Debounced, Starts, Ends, Run, ClimbRecorded,
                          RuleWithin
<1>5. CASE s.climb = "unknown"
  BY <1>5 DEF Climb, Debounced, ClimbRecorded
<1>6. QED
  BY <1>3, <1>4, <1>5 DEF Sighting, Observation

\* One sighting: the exit run that results is on the record.
LEMMA AwayStep ==
  ASSUME NEW t \in Track, NEW s \in Sighting, NEW n \in 0 .. ZoneExit,
         AwayRecorded(t, n), s.eligible
  PROVE  LET m == CASE s.zone = "yes" -> 0
                    [] s.zone = "no" -> Saturating(n, ZoneExit)
                    [] s.zone = "unknown" -> n
         IN  /\ ZoneRule(t, s).active /\ ZoneRule(t, s).seen = "no"
                  => ZoneRule(t, s).streak <= m
             /\ Zone \in RuleEnds(t, s) => m >= ZoneExit
<1>1. ZoneExit \in Nat \ {0} /\ t.zone \in RuleWithin(Longest(ZoneEnter, ZoneExit))
  BY ZoneAssumption DEF Track
<1>2. t.zone.streak \in Nat
  BY <1>1, ZoneAssumption DEF RuleWithin, Longest
<1>3. t.zone.active => RawZone(t, s) = s.zone
  BY DEF RawZone
<1>4. Zone \in RuleEnds(t, s) =>
        t.zone.active /\ Ends(t.zone, RawZone(t, s), ZoneExit)
  BY DEF RuleEnds, Rules, Zone, Walkway
<1>5. ZoneRule(t, s) = Debounced(t.zone, RawZone(t, s), ZoneEnter, ZoneExit)
  BY DEF ZoneRule
<1>6. CASE ~t.zone.active
  <2>1. ZoneRule(t, s).active => RawZone(t, s) = "yes"
    BY <1>1, <1>5, <1>6 DEF Debounced, Starts, RuleWithin
  <2>2. ZoneRule(t, s).active => ZoneRule(t, s).seen # "no"
    BY <1>5, <1>6, <2>1 DEF Debounced
  <2>3. QED
    BY <1>4, <1>6, <2>2
<1>7. CASE t.zone.active /\ s.zone = "yes"
  BY <1>3, <1>4, <1>5, <1>7 DEF Debounced, Ends
<1>8. CASE t.zone.active /\ s.zone = "no"
  BY <1>1, <1>2, <1>3, <1>4, <1>5, <1>8
     DEF Debounced, Ends, Run, AwayRecorded, Saturating, RuleWithin
<1>9. CASE t.zone.active /\ s.zone = "unknown"
  BY <1>3, <1>4, <1>5, <1>9 DEF Debounced, Ends, AwayRecorded
<1>10. QED
  BY <1>6, <1>7, <1>8, <1>9 DEF Sighting, Observation

\* One person of the frame.
LEMMA RecordShown ==
  ASSUME IInv, Recorded, NEW sight, NEW p \in Person, p \in DOMAIN sight,
         sight[p] \in Sighting
  PROVE  /\ Climbs(p, sight) \in 0 .. ClimbEnter
         /\ Away(p, sight) \in 0 .. ZoneExit
         /\ ClimbRecorded(Seen(TrackAt(p), sight[p]), Climbs(p, sight))
         /\ AwayRecorded(Seen(TrackAt(p), sight[p]), Away(p, sight))
         /\ Fenced /\ Zone \in RuleStarts(TrackAt(p), sight[p])
              => Climbs(p, sight) >= ClimbEnter
         /\ sight[p].eligible /\ Zone \in RuleEnds(TrackAt(p), sight[p])
              => Away(p, sight) >= ZoneExit
<1> DEFINE t == TrackAt(p)
           s == sight[p]
           n == IF p \notin DOMAIN tracks \/ TrackAt(p).zone.active THEN 0
                ELSE climbs[p]
           c == Climbs(p, sight)
           a == Away(p, sight)
<1>1. ClimbEnter \in Nat \ {0} /\ ZoneExit \in Nat \ {0}
  BY ZoneAssumption
<1>2. t \in Track /\ Truthful(t)
  BY TrackAtType, TrackAtTruthful DEF IInv
<1>3. n \in 0 .. ClimbEnter /\ away[p] \in 0 .. ZoneExit
  BY <1>1 DEF Recorded
<1>4. ClimbRecorded(t, n)
  <2>1. CASE p \notin DOMAIN tracks
    BY <2>1 DEF TrackAt, NewTrack, NewRule, ClimbRecorded
  <2>2. CASE p \in DOMAIN tracks /\ ~t.zone.active
    BY <2>2 DEF TrackAt, Recorded
  <2>3. CASE p \in DOMAIN tracks /\ t.zone.active
    <3>1. CASE Fenced
      BY <1>2, <2>3, <3>1 DEF Truthful, NewRule, ClimbRecorded
    <3>2. CASE ~Fenced
      BY <2>3, <3>2 DEF TrackAt, Recorded, ClimbRecorded
    <3>3. QED
      BY <3>1, <3>2
  <2>4. QED
    BY <2>1, <2>2, <2>3
<1>5. AwayRecorded(t, away[p])
  BY DEF TrackAt, NewTrack, NewRule, Recorded, AwayRecorded
<1>6. c = IF ~s.eligible THEN 0
          ELSE IF PoseValid(s) /\ s.climb = "yes" THEN Saturating(n, ClimbEnter)
          ELSE n
  BY DEF Climbs
<1>7. a = CASE s.zone = "yes" -> 0
            [] s.zone = "no" -> Saturating(away[p], ZoneExit)
            [] s.zone = "unknown" -> away[p]
  BY DEF Away
<1> HIDE DEF n, c, a, t
<1>8. c \in 0 .. ClimbEnter
  BY <1>1, <1>3, <1>6, SaturatingType
<1>9. a \in 0 .. ZoneExit
  BY <1>1, <1>3, <1>7, SaturatingType DEF Sighting, Observation
<1>10. Seen(t, s).climb = ClimbRule(t, s) /\ Seen(t, s).zone = ZoneRule(t, s)
  BY DEF Seen
<1>11. PoseValid(s) =>
         /\ Climb(t, s).active => c >= ClimbEnter
         /\ Climb(t, s).seen = "yes" => Climb(t, s).streak <= c
  <2> SUFFICES ASSUME PoseValid(s)
               PROVE  /\ Climb(t, s).active => c >= ClimbEnter
                      /\ Climb(t, s).seen = "yes" => Climb(t, s).streak <= c
    OBVIOUS
  <2>1. c = IF s.climb = "yes" THEN Saturating(n, ClimbEnter) ELSE n
    BY <1>6 DEF PoseValid
  <2>2. Fenced
    BY DEF PoseValid
  <2>3. QED
    BY <1>2, <1>3, <1>4, <2>1, <2>2, ClimbStep
<1>12. ClimbRecorded(Seen(t, s), c)
  <2>1. CASE PoseValid(s)
    <3>1. ClimbRule(t, s) = NewRule \/ ClimbRule(t, s) = Climb(t, s)
      BY <2>1 DEF ClimbRule, PoseValid
    <3>2. QED
      BY <1>10, <1>11, <2>1, <3>1 DEF ClimbRecorded, NewRule, PoseValid
  <2>2. CASE ~PoseValid(s) /\ s.eligible
    <3>1. ClimbRule(t, s) = t.climb /\ c = n
      BY <1>6, <2>2 DEF ClimbRule, Climb
    <3>2. QED
      BY <1>4, <1>10, <3>1 DEF ClimbRecorded
  <2>3. CASE ~s.eligible /\ Fenced
    BY <1>10, <2>3 DEF ClimbRecorded, ClimbRule
  <2>4. CASE ~s.eligible /\ ~Fenced
    <3>1. ClimbRule(t, s) = t.climb
      BY <2>4 DEF ClimbRule, Climb, PoseValid
    <3>2. QED
      BY <1>4, <1>10, <2>4, <3>1 DEF ClimbRecorded
  <2>5. QED
    BY <2>1, <2>2, <2>3, <2>4
<1>13. CASE s.eligible
  <2>1. /\ ZoneRule(t, s).active /\ ZoneRule(t, s).seen = "no"
             => ZoneRule(t, s).streak <= a
        /\ Zone \in RuleEnds(t, s) => a >= ZoneExit
    BY <1>2, <1>3, <1>5, <1>7, <1>13, AwayStep
  <2>2. Fenced /\ Zone \in RuleStarts(t, s) => c >= ClimbEnter
    <3>1. Zone \in RuleStarts(t, s) =>
            ~t.zone.active /\ RawZone(t, s) = "yes"
      BY DEF RuleStarts, Starts, Rules, Zone, Walkway
    <3>2. Fenced /\ ~t.zone.active /\ RawZone(t, s) = "yes" =>
            PoseValid(s) /\ Climb(t, s).active
      BY <1>13 DEF RawZone, PoseValid
    <3>3. QED
      BY <1>11, <3>1, <3>2
  <2>3. QED
    BY <1>8, <1>9, <1>10, <1>12, <2>1, <2>2 DEF AwayRecorded, t, s, c, a
<1>14. CASE ~s.eligible
  <2>1. ~ZoneRule(t, s).active
    <3>1. t.zone.active \in BOOLEAN
      BY <1>2 DEF Track, RuleWithin
    <3>2. ZoneRule(t, s) = Suppressed(t.zone, ZoneEnter, ZoneExit)
      BY <1>14 DEF ZoneRule
    <3>3. QED
      BY <3>1, <3>2, SuppressedActive
  <2>2. Zone \notin RuleStarts(t, s)
    BY <1>14 DEF RuleStarts
  <2>3. QED
    BY <1>8, <1>9, <1>10, <1>12, <1>14, <2>1, <2>2 DEF AwayRecorded, t, s, c, a
<1>15. QED
  BY <1>13, <1>14

LEMMA InitHIInv == HInit => HIInv
<1> SUFFICES ASSUME HInit PROVE HIInv
  OBVIOUS
<1>1. IInv
  BY InitIInv DEF HInit
<1>2. Recorded
  BY ZoneAssumption DEF HInit, Init, Recorded
<1>3. EveryBreachHasItsOwnClimb /\ EndsRestOnSightings
  BY DEF HInit, Init, EveryBreachHasItsOwnClimb, EndsRestOnSightings
<1>4. QED
  BY <1>1, <1>2, <1>3 DEF HIInv

LEMMA FrameHIInv ==
  ASSUME HIInv, NEW elapsed \in 1 .. MaxElapsed, NEW shown \in SUBSET Person,
         NEW sight \in [shown -> Sightings], ProcessFrame(elapsed, sight),
         climbs' = [p \in Person |-> Climbs(p, sight)],
         away' = [p \in Person |-> Away(p, sight)]
  PROVE  HIInv'
<1>1. IInv /\ Recorded /\ IInv'
  BY FrameIInv DEF HIInv
<1>2. /\ DOMAIN tracks' = shown \union
              ((DOMAIN tracks \ shown)
                 \ Expired(DOMAIN tracks \ shown, elapsed))
      /\ \A p \in shown : tracks'[p] = Seen(TrackAt(p), sight[p])
      /\ \A p \in DOMAIN tracks' \ shown :
           tracks'[p] = Missed(tracks[p], elapsed)
  BY FrameTracks
<1>3. DOMAIN sight = shown /\ DOMAIN tracks' \subseteq Person
  BY <1>1 DEF IInv, TypeOK
<1>4. ASSUME NEW p \in shown
      PROVE  /\ climbs'[p] \in 0 .. ClimbEnter
             /\ away'[p] \in 0 .. ZoneExit
             /\ ClimbRecorded(tracks'[p], climbs'[p])
             /\ AwayRecorded(tracks'[p], away'[p])
             /\ Fenced /\ Zone \in RuleStarts(TrackAt(p), sight[p])
                  => climbs'[p] >= ClimbEnter
             /\ sight[p].eligible /\ Zone \in RuleEnds(TrackAt(p), sight[p])
                  => away'[p] >= ZoneExit
  <2>1. /\ p \in Person /\ sight[p] \in Sighting
        /\ tracks'[p] = Seen(TrackAt(p), sight[p])
        /\ climbs'[p] = Climbs(p, sight)
        /\ away'[p] = Away(p, sight)
    BY <1>2, SightingType
  <2>2. QED
    BY <1>1, <1>3, <2>1, RecordShown
<1>5. ASSUME NEW p \in Person \ shown
      PROVE  /\ climbs'[p] = IF p \in DOMAIN tracks' THEN climbs[p] ELSE 0
             /\ away'[p] = 0
  BY <1>3 DEF Climbs, Away
<1>6. ASSUME NEW p \in DOMAIN tracks' \ shown
      PROVE  /\ ClimbRecorded(tracks'[p], climbs'[p])
             /\ AwayRecorded(tracks'[p], away'[p])
  <2>1. /\ p \in DOMAIN tracks /\ p \in Person
        /\ tracks'[p] = Missed(tracks[p], elapsed)
        /\ climbs'[p] = climbs[p]
    BY <1>2, <1>3, <1>5
  <2>2. ClimbRecorded(tracks[p], climbs[p]) /\ tracks[p] \in Track
    BY <1>1, <2>1 DEF Recorded, IInv, TypeOK
  <2>3. /\ Missed(tracks[p], elapsed).climb = tracks[p].climb
        /\ Missed(tracks[p], elapsed).zone.seen = "none"
    BY <2>2 DEF Missed, Interrupted, Track
  <2>4. QED
    BY <2>1, <2>2, <2>3 DEF ClimbRecorded, AwayRecorded
<1>7. Recorded'
  <2>1. \A p \in Person : climbs'[p] \in 0 .. ClimbEnter /\ away'[p] \in 0 .. ZoneExit
    <3>1. ClimbEnter \in Nat /\ ZoneExit \in Nat
      BY ZoneAssumption
    <3>2. ASSUME NEW p \in Person \ shown
          PROVE  climbs'[p] \in 0 .. ClimbEnter /\ away'[p] \in 0 .. ZoneExit
      <4>1. climbs[p] \in 0 .. ClimbEnter
        BY <1>1 DEF Recorded
      <4>2. QED
        BY <1>5, <3>1, <4>1
    <3>3. QED
      BY <1>4, <3>2
  <2>2. /\ climbs' = [p \in Person |-> climbs'[p]]
        /\ away' = [p \in Person |-> away'[p]]
    OBVIOUS
  <2>3. climbs' \in [Person -> 0 .. ClimbEnter] /\ away' \in [Person -> 0 .. ZoneExit]
    BY <2>1, <2>2
  <2>4. QED
    BY <1>4, <1>6, <2>3 DEF Recorded
<1>8. EveryBreachHasItsOwnClimb'
  <2>1. ASSUME NEW p, <<p, Zone>> \in started'
        PROVE  p \in shown /\ Zone \in RuleStarts(TrackAt(p), sight[p])
    BY <1>3, <2>1 DEF ProcessFrame
  <2>2. QED
    BY <1>4, <2>1 DEF EveryBreachHasItsOwnClimb
<1>9. EndsRestOnSightings'
  <2>1. DOMAIN eligible' = shown /\ \A p \in shown : eligible'[p] = sight[p].eligible
    BY <1>3 DEF ProcessFrame
  <2>2. ASSUME NEW p \in shown, <<p, Zone>> \in ended'
        PROVE  Zone \in RuleEnds(TrackAt(p), sight[p])
    BY <1>3, <2>2 DEF ProcessFrame, EndsByExpiry, Expired
  <2>3. QED
    BY <1>4, <2>1, <2>2 DEF EndsRestOnSightings
<1>10. QED
  BY <1>1, <1>7, <1>8, <1>9 DEF HIInv

LEMMA NextHIInv == HIInv /\ [HNext]_hvars => HIInv'
<1>1. ASSUME HIInv, UNCHANGED hvars PROVE HIInv'
  <2>1. IInv'
    BY <1>1, NextIInv DEF HIInv, hvars
  <2>2. Recorded'
    BY <1>1 DEF HIInv, Recorded, hvars, vars
  <2>3. EveryBreachHasItsOwnClimb' /\ EndsRestOnSightings'
    BY <1>1 DEF HIInv, EveryBreachHasItsOwnClimb, EndsRestOnSightings, hvars, vars
  <2>4. QED
    BY <2>1, <2>2, <2>3 DEF HIInv
<1>2. ASSUME HIInv, HNext PROVE HIInv'
  BY <1>2, FrameHIInv DEF HNext
<1>3. QED
  BY <1>1, <1>2

\* In fence mode a restricted alarm opens only after climb_enter_frames climbing
\* sightings of its own, for every threshold.
THEOREM BreachesAreClimbed == HSpec => []EveryBreachHasItsOwnClimb
  BY InitHIInv, NextHIInv, PTL DEF HSpec, HIInv

\* An alarm of an eligible person in view ends only after an uninterrupted run of
\* sightings outside the zone, for every threshold and anchor.
THEOREM EndsAreSeen == HSpec => []EndsRestOnSightings
  BY InitHIInv, NextHIInv, PTL DEF HSpec, HIInv
=============================================================================
