-------------------------- MODULE EffectiveAlarms --------------------------
(***************************************************************************)
(* augment_person_ppe_with_tracked_vehicles of                             *)
(* content/forklift_driver_rules.py: the alarms of the person-PPE stream   *)
(* are re-derived for the people who are not driving.                      *)
(*                                                                         *)
(* The raw stream is any producer that honours AlarmLedger and changes an  *)
(* alarm at most once a frame, which PersonPpeFusion does (AlarmEpisodes   *)
(* there).  Which of the visible people may raise a PPE alert is decided   *)
(* by ForkliftDriver and is arbitrary here.                                *)
(***************************************************************************)
CONSTANTS
  Wearer,           \* person track ids
  Kind              \* "no_helmet" and "no_hi_vis"

VARIABLES
  seen,             \* the people in the last frame
  rawOpen,          \* the alarms open in the raw stream
  rawStarted,       \* the raw events of the last frame
  rawEnded,
  effectiveOpen,    \* effective_open
  effectiveStarted, \* the effective events of the last frame
  effectiveEnded,
  lastEligible      \* history: the people eligible when they were last seen

alarmVars ==
  <<seen, rawOpen, rawStarted, rawEnded, effectiveOpen, effectiveStarted,
    effectiveEnded, lastEligible>>

Raw == INSTANCE AlarmLedger
  WITH Entity <- Wearer, open <- rawOpen, started <- rawStarted,
       ended <- rawEnded

Effective == INSTANCE AlarmLedger
  WITH Entity <- Wearer, open <- effectiveOpen, started <- effectiveStarted,
       ended <- effectiveEnded

-----------------------------------------------------------------------------
AlarmsInit ==
  /\ Raw!Init
  /\ Effective!Init
  /\ lastEligible = {}

\* A visible person's alarms, emptied unless a PPE alert is eligible.
PersonAlarms(people, eligible) ==
  {a \in people \X Kind : a \in rawOpen' /\ a[1] \in eligible}

\* Mutant: a raw end is not honoured for a person who is out of sight.
DesiredIgnoringEnds(people, eligible, ends) ==
  {a \in effectiveOpen : a[1] \notin people} \union PersonAlarms(people, eligible)

\* Out of sight is unknown: the previous alarms stand, except that a raw end
\* (the person's track has expired) closes them.
Desired(people, eligible, ends) ==
  ({a \in effectiveOpen : a[1] \notin people} \union PersonAlarms(people, eligible))
    \ ends

\* Mutant: the raw start is passed on instead of the effective one.
StartedInRaw(desired) == rawStarted' \intersect desired

NewlyOpen(desired) == desired \ effectiveOpen

NewlyClosed(desired) == effectiveOpen \ desired

Frame(people, eligible, starts, ends) ==
  LET desired == Desired(people, eligible, ends)
  IN  /\ Raw!Report(people, starts, ends)
      /\ effectiveOpen' = desired
      /\ effectiveStarted' = NewlyOpen(desired)
      /\ effectiveEnded' = NewlyClosed(desired)
      /\ lastEligible' = (lastEligible \ people) \union eligible

AlarmsNext ==
  \E people \in SUBSET Wearer : \E eligible \in SUBSET people :
    \E starts \in SUBSET (people \X Kind), ends \in SUBSET rawOpen :
      /\ starts \intersect ends = {}
      /\ Frame(people, eligible, starts, ends)

AlarmsSpec == AlarmsInit /\ [][AlarmsNext]_alarmVars

-----------------------------------------------------------------------------
\* Only people raise alarms, in either stream.
AlarmsTypeOK ==
  /\ seen \subseteq Wearer
  /\ lastEligible \subseteq Wearer
  /\ rawOpen \subseteq Wearer \X Kind
  /\ effectiveOpen \subseteq Wearer \X Kind

\* "Every started event still has one ended event when driver suppression
\* activates": the effective stream honours the ledger as the raw one does.
EffectiveEpisodes == Effective!SettledSpec

\* The effective alarms are the raw alarms of the people who were not driving
\* when last seen.  Suppression loses no alarm for longer than it lasts,
\* invents none, and an alarm whose person is gone does not stay open.
EffectiveIsRawUnlessDriving ==
  effectiveOpen = {a \in rawOpen : a[1] \in lastEligible}
=============================================================================
