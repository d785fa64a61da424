--------------------------- MODULE PersonZoneRules ---------------------------
(***************************************************************************)
(* PersonZoneRuleEngine of content/person_zone_rules.py: tracked persons   *)
(* against restricted zones, safe walkways and a fence that bounds the     *)
(* restricted zone.                                                        *)
(*                                                                         *)
(* A rule turns an observation per frame into an alarm with a debounce; in *)
(* fence mode a second debounce qualifies climbing, an alarm of the        *)
(* restricted zone (a breach) can only open from it, and the display shows *)
(* one stage per person: clear, approach, climbing or breach.              *)
(*                                                                         *)
(* Geometry and pose are abstracted to their outcome: whether the anchor   *)
(* of the person violates a rule ("yes", "no", or "unknown" when the pose  *)
(* does not tell), whether the pose shows a climb, and whether it touches  *)
(* the fence.  Streaks are compared with one threshold each and saturate   *)
(* there.  A person that is not eligible (the operator of a vehicle) is    *)
(* observed but never alarmed.                                             *)
(***************************************************************************)
EXTENDS Integers

CONSTANTS
  Person,               \* person track ids
  Anchor,               \* what decides the restricted zone
  ZoneEnter, ZoneExit,  \* restricted_* frames; breach_* frames in fence mode
  WalkEnter, WalkExit,  \* walkway_enter_frames, walkway_exit_frames
  ClimbEnter, ClimbExit,\* climb_enter_frames, climb_exit_frames
  TrackTtl,             \* track_ttl_frames
  MaxElapsed            \* bound: the largest step of the frame index

ASSUME ZoneAssumption ==
  /\ Anchor \in {"footpoint", "pose", "fence"}
  /\ {ZoneEnter, ZoneExit, WalkEnter, WalkExit, ClimbEnter, ClimbExit,
      TrackTtl, MaxElapsed} \subseteq Nat \ {0}

VARIABLES
  tracks,           \* person id -> its _TrackState
  eligible,         \* person of the last frame -> zone_alert_eligible
  started,          \* safety_events of the last frame: alarms started
  ended,            \* and alarms ended
  fenceStarted,     \* fence_events of the last frame: stages started
  fenceEnded        \* and stages ended

vars == <<tracks, eligible, started, ended, fenceStarted, fenceEnded>>

-----------------------------------------------------------------------------
Zone == "restricted_zone"
Walkway == "safe_walkway"
Rules == {Zone, Walkway}
Fenced == Anchor = "fence"

NewRule == [active |-> FALSE, seen |-> "none", streak |-> 0]

NewTrack == [missed |-> 0, zone |-> NewRule, walk |-> NewRule,
             climb |-> NewRule, stage |-> "clear"]

TrackAt(p) == IF p \in DOMAIN tracks THEN tracks[p] ELSE NewTrack

\* What one frame can show of a person.
Observation == {"yes", "no", "unknown"}

Hidden == [eligible |-> FALSE, zone |-> "no", walk |-> "no",
           climb |-> "unknown", touch |-> FALSE]

Sightings ==
  {Hidden} \union
  [eligible : {TRUE},
   zone : IF Anchor = "footpoint" THEN {"yes", "no"} ELSE Observation,
   walk : {"yes", "no"},
   climb : IF Fenced THEN Observation ELSE {"unknown"},
   touch : IF Fenced THEN BOOLEAN ELSE {FALSE}]

-----------------------------------------------------------------------------
(* _update_rule and update_climb: the same debounce.                       *)
Run(r, obs, threshold) ==
  IF r.seen # obs THEN 1
  ELSE IF r.streak < threshold THEN r.streak + 1 ELSE r.streak

Starts(r, obs, enter) == ~r.active /\ obs = "yes" /\ Run(r, obs, enter) >= enter

Ends(r, obs, exit) == r.active /\ obs = "no" /\ Run(r, obs, exit) >= exit

Debounced(r, obs, enter, exit) ==
  IF obs = "unknown" THEN r
  ELSE [active |-> (r.active \/ Starts(r, obs, enter)) /\ ~Ends(r, obs, exit),
        seen |-> obs,
        streak |-> Run(r, obs, IF obs = "yes" THEN enter ELSE exit)]

\* An alarm of a person that stops being eligible is closed at once.
Suppressed(r, enter, exit) ==
  IF r.active THEN [active |-> FALSE, seen |-> "no", streak |-> 1]
  ELSE Debounced(r, "no", enter, exit)

\* Mutant: the frames a person is missing do not break its streaks.
Uninterrupted(r) == r

Interrupted(r) == [active |-> r.active, seen |-> "none", streak |-> 0]

-----------------------------------------------------------------------------
(* One person of the frame.                                                *)

PoseValid(s) == Fenced /\ s.eligible /\ s.zone # "unknown"

\* _restricted_fence_rule qualifies climbing before it looks at the breach.
Climb(t, s) ==
  IF PoseValid(s) THEN Debounced(t.climb, s.climb, ClimbEnter, ClimbExit)
  ELSE t.climb

\* Mutant: a breach may open without a qualified climb.
CoreAlone(t, s) == s.zone

\* A breach opens from a climb only, and stays open by itself.
RawZone(t, s) ==
  IF PoseValid(s) /\ s.zone = "yes" /\ ~Climb(t, s).active /\ ~t.zone.active
  THEN "no" ELSE s.zone

ZoneRule(t, s) ==
  IF s.eligible THEN Debounced(t.zone, RawZone(t, s), ZoneEnter, ZoneExit)
  ELSE Suppressed(t.zone, ZoneEnter, ZoneExit)

WalkRule(t, s) ==
  IF s.eligible THEN Debounced(t.walk, s.walk, WalkEnter, WalkExit)
  ELSE Suppressed(t.walk, WalkEnter, WalkExit)

ClimbRule(t, s) ==
  IF Fenced /\ ~s.eligible THEN [active |-> FALSE, seen |-> "no", streak |-> 1]
  ELSE IF PoseValid(s) /\ ZoneRule(t, s).active THEN NewRule
  ELSE Climb(t, s)

\* Mutant: the stage of a suppressed person stays on display.
StageUnsuppressed(t, s) ==
  IF ~PoseValid(s) THEN t.stage
  ELSE IF ZoneRule(t, s).active THEN "breach"
  ELSE IF Climb(t, s).active THEN "climbing"
  ELSE IF s.touch THEN "approach"
  ELSE "clear"

Stage(t, s) ==
  IF Fenced /\ ~s.eligible THEN "clear"
  ELSE IF ~PoseValid(s) THEN t.stage
  ELSE IF ZoneRule(t, s).active THEN "breach"
  ELSE IF Climb(t, s).active THEN "climbing"
  ELSE IF s.touch THEN "approach"
  ELSE "clear"

Seen(t, s) == [missed |-> 0, zone |-> ZoneRule(t, s), walk |-> WalkRule(t, s),
               climb |-> ClimbRule(t, s), stage |-> Stage(t, s)]

Missed(t, elapsed) ==
  [t EXCEPT !.missed = @ + elapsed, !.zone = Interrupted(@),
            !.walk = Interrupted(@)]

-----------------------------------------------------------------------------
(* The events a person contributes to a frame.                             *)

RuleStarts(t, s) ==
  {k \in Rules :
     /\ s.eligible
     /\ \/ k = Zone /\ Starts(t.zone, RawZone(t, s), ZoneEnter)
        \/ k = Walkway /\ Starts(t.walk, s.walk, WalkEnter)}

\* Mutant: the end of a suppressed person's alarm is not reported.
RuleEndsUnsuppressed(t, s) ==
  {k \in Rules :
     /\ s.eligible
     /\ \/ k = Zone /\ Ends(t.zone, RawZone(t, s), ZoneExit)
        \/ k = Walkway /\ Ends(t.walk, s.walk, WalkExit)}

RuleEnds(t, s) ==
  {k \in Rules :
     \/ /\ k = Zone
        /\ t.zone.active
        /\ s.eligible => Ends(t.zone, RawZone(t, s), ZoneExit)
     \/ /\ k = Walkway
        /\ t.walk.active
        /\ s.eligible => Ends(t.walk, s.walk, WalkExit)}

Active(t) == {k \in Rules : \/ k = Zone /\ t.zone.active
                            \/ k = Walkway /\ t.walk.active}

Reported == {"approach", "climbing"}

StageOf(t) == Reported \intersect {t.stage}

Staged(t, s) == Reported \intersect ({Stage(t, s)} \ {t.stage})

Unstaged(t, s) == Reported \intersect ({t.stage} \ {Stage(t, s)})

-----------------------------------------------------------------------------
Init ==
  /\ tracks = [p \in {} |-> NewTrack]
  /\ eligible = [p \in {} |-> TRUE]
  /\ started = {}
  /\ ended = {}
  /\ fenceStarted = {}
  /\ fenceEnded = {}

\* Mutant: the frames elapsed since the last one are not counted.
ExpiredLate(absent, elapsed) == {p \in absent : tracks[p].missed > TrackTtl}

Expired(absent, elapsed) ==
  {p \in absent : tracks[p].missed + elapsed > TrackTtl}

\* Mutant: an expiring track takes its open stage along in silence.
NoFenceEndsByExpiry(absent, elapsed) == {}

FenceEndsByExpiry(absent, elapsed) ==
  {a \in Expired(absent, elapsed) \X Reported : a[2] \in StageOf(tracks[a[1]])}

\* Mutant: an expiring track takes its open alarms along in silence.
NoEndsByExpiry(absent, elapsed) == {}

EndsByExpiry(absent, elapsed) ==
  {a \in Expired(absent, elapsed) \X Rules : a[2] \in Active(tracks[a[1]])}

\* process_frame: first the tracks of absent persons, then the persons shown.
ProcessFrame(elapsed, sight) ==
  LET shown == DOMAIN sight
      absent == DOMAIN tracks \ shown
      kept == absent \ Expired(absent, elapsed)
  IN  /\ tracks' = [p \in shown \union kept |->
                      IF p \in shown THEN Seen(TrackAt(p), sight[p])
                      ELSE Missed(tracks[p], elapsed)]
      /\ eligible' = [p \in shown |-> sight[p].eligible]
      /\ started' = {a \in shown \X Rules :
                      a[2] \in RuleStarts(TrackAt(a[1]), sight[a[1]])}
      /\ ended' = EndsByExpiry(absent, elapsed)
           \union {a \in shown \X Rules :
                     a[2] \in RuleEnds(TrackAt(a[1]), sight[a[1]])}
      /\ fenceStarted' = {a \in shown \X Reported :
                           a[2] \in Staged(TrackAt(a[1]), sight[a[1]])}
      /\ fenceEnded' = FenceEndsByExpiry(absent, elapsed)
           \union {a \in shown \X Reported :
                     a[2] \in Unstaged(TrackAt(a[1]), sight[a[1]])}

Next ==
  \E elapsed \in 1 .. MaxElapsed, shown \in SUBSET Person :
    \E sight \in [shown -> Sightings] : ProcessFrame(elapsed, sight)

Spec == Init /\ [][Next]_vars

-----------------------------------------------------------------------------
RuleWithin(n) == [active : BOOLEAN, seen : {"none", "yes", "no"}, streak : 0 .. n]

Longest(m, n) == IF m > n THEN m ELSE n

Track == [missed : 0 .. TrackTtl,
          zone : RuleWithin(Longest(ZoneEnter, ZoneExit)),
          walk : RuleWithin(Longest(WalkEnter, WalkExit)),
          climb : RuleWithin(Longest(ClimbEnter, ClimbExit)),
          stage : {"clear", "approach", "climbing", "breach"}]

\* The table holds well-formed tracks of persons within the ttl, and the
\* persons shown by the last frame have one.
TypeOK ==
  /\ DOMAIN tracks \subseteq Person
  /\ \A p \in DOMAIN tracks : tracks[p] \in Track
  /\ DOMAIN eligible \subseteq DOMAIN tracks
  /\ \A p \in DOMAIN eligible : eligible[p] \in BOOLEAN

OpenAlarms ==
  {a \in (DOMAIN tracks) \X Rules : a[2] \in Active(tracks[a[1]])}

OpenStages ==
  {a \in (DOMAIN tracks) \X Reported : a[2] \in StageOf(tracks[a[1]])}

\* The zone and walkway alarms reported as started and ended pair up with the
\* alarms that are active, through debounce, suppression, gaps and expiry.
ZoneLedger == INSTANCE AlarmLedger
  WITH Entity <- Person, Kind <- Rules,
       seen <- DOMAIN eligible,
       open <- OpenAlarms

ZoneEpisodes == ZoneLedger!SettledSpec

\* The same of the fence events: every approach and climb attempt is started
\* once and ended once, also when the person jumps between stages, is
\* suppressed, or vanishes.
FenceLedger == INSTANCE AlarmLedger
  WITH Entity <- Person, Kind <- Reported,
       seen <- DOMAIN eligible,
       open <- OpenStages,
       started <- fenceStarted, ended <- fenceEnded

FenceEpisodes == FenceLedger!SettledSpec

\* The stage on display is the state behind it, after any mix of unknown poses,
\* gaps and suppression: breach exactly while the restricted alarm is open,
\* climbing exactly while a climb is qualified, and never a qualified climb
\* left over behind an open breach.
StageTellsTheState ==
  \A p \in DOMAIN tracks :
    Fenced => /\ tracks[p].stage = "breach" <=> tracks[p].zone.active
              /\ tracks[p].stage = "climbing" <=> tracks[p].climb.active
              /\ tracks[p].zone.active => tracks[p].climb = NewRule
=============================================================================
