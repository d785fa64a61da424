-------------------------- MODULE PersonZoneHistory --------------------------
(***************************************************************************)
(* PersonZoneRules with a record of what the frames showed of each person, *)
(* kept without the engine's streaks, to state which evidence an alarm of  *)
(* the restricted zone rests on.                                           *)
(***************************************************************************)
EXTENDS PersonZoneRules

VARIABLES
  climbs,           \* climbing sightings since an alarm, suppression or expiry
  away              \* consecutive sightings outside the restricted zone

hvars == <<vars, climbs, away>>

Saturating(n, top) == IF n < top THEN n + 1 ELSE n

HInit ==
  /\ Init
  /\ climbs = [p \in Person |-> 0]
  /\ away = [p \in Person |-> 0]

\* Climbing seen while the restricted alarm is open counts for no later alarm.
Climbs(p, sight) ==
  LET before == IF p \notin DOMAIN tracks \/ TrackAt(p).zone.active THEN 0
                ELSE climbs[p]
  IN  IF p \notin DOMAIN sight THEN IF p \in DOMAIN tracks' THEN climbs[p] ELSE 0
      ELSE IF ~sight[p].eligible THEN 0
      ELSE IF PoseValid(sight[p]) /\ sight[p].climb = "yes"
           THEN Saturating(before, ClimbEnter)
      ELSE before

\* A frame that does not show the person breaks the run; one whose pose is
\* unknown does not.
Away(p, sight) ==
  IF p \notin DOMAIN sight THEN 0
  ELSE CASE sight[p].zone = "yes" -> 0
         [] sight[p].zone = "no" -> Saturating(away[p], ZoneExit)
         [] sight[p].zone = "unknown" -> away[p]

HNext ==
  \E elapsed \in 1 .. MaxElapsed, shown \in SUBSET Person :
    \E sight \in [shown -> Sightings] :
      /\ ProcessFrame(elapsed, sight)
      /\ climbs' = [p \in Person |-> Climbs(p, sight)]
      /\ away' = [p \in Person |-> Away(p, sight)]

HSpec == HInit /\ [][HNext]_hvars

-----------------------------------------------------------------------------
\* "A new breach may only enter from a climb-qualified state": every fence
\* breach rests on climb_enter_frames climbing sightings of its own, none of
\* them from before an earlier breach, a suppression or an expiry.
EveryBreachHasItsOwnClimb ==
  Fenced => \A p \in Person : <<p, Zone>> \in started => climbs[p] >= ClimbEnter

\* An open restricted alarm of an eligible person in view ends only after a run
\* of sightings outside the zone that no missing frame interrupts: a person that
\* flickers at the zone's far edge keeps its alarm.
EndsRestOnSightings ==
  \A p \in DOMAIN eligible :
    eligible[p] /\ <<p, Zone>> \in ended => away[p] >= ZoneExit
=============================================================================
