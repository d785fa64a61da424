------------------------ MODULE StreamStages_proofs -------------------------
(***************************************************************************)
(* Proofs about the stages between the detectors and the alarms, for any   *)
(* values of their constants: ForkliftDriver and EffectiveAlarms, the      *)
(* vehicle fallback, the native fusion, and the group StreamStages, with   *)
(* what PersonZoneRules_proofs shows of the zone rules.                    *)
(*                                                                         *)
(* Where a proof goes by induction it looks at a least counterexample:     *)
(* LeastNatural and LeastSubset.                                           *)
(***************************************************************************)
EXTENDS StreamStages, PersonZoneRules_proofs, FiniteSetTheorems, WellFoundedInduction, TLAPS

-----------------------------------------------------------------------------
(* ForkliftDriver.                                                         *)

\* The people of the log of the frame.
Logged(kind) == {e.person : e \in {x \in log : x.kind = kind}}

\* The matching is one to one, who is visited is no longer to be visited, and everything
\* is about people.
Tables ==
  /\ \A p, r \in DOMAIN match : p # r => match[p] # match[r]
  /\ DOMAIN contexts \subseteq PersonId /\ todo \intersect DOMAIN contexts = {}
  /\ DOMAIN output.contexts \subseteq PersonId /\ output.operators \subseteq PersonId
  /\ \A e \in log : e.kind \in {"started", "ended"} /\ e.person \in PersonId

\* The log accounts for the difference between the operators published last and now.
Accounts ==
  /\ Logged("ended") \subseteq output.operators
  /\ Logged("started") \intersect (output.operators \ Logged("ended")) = {}
  /\ ActiveIn(driverTracks) = (output.operators \ Logged("ended")) \union Logged("started")

\* Whoever was started in this frame was visited, is in the vehicle it is matched to, and is
\* alone there.
Settled(e) ==
  /\ e.person \in DOMAIN contexts /\ e.person \in DOMAIN match
  /\ match[e.person] = e.vehicle /\ contexts[e.person].vehicle = e.vehicle
  /\ driverTracks[e.person].vehicle = e.vehicle
  /\ Aboard(e.vehicle) = {e.person}
StartsSettled == \A e \in log : e.kind = "started" => Settled(e)

\* Why a term ends, of the log so far.
Explained(e) ==
  \/ e.reason = "track_expired"
  \/ e.reason = "exit_hysteresis_met" /\ e.person \in DOMAIN contexts
  \/ \E f \in log : f.kind = "started" /\ f.person # e.person /\ f.vehicle = e.vehicle
EndsExplained == \A e \in log : e.kind = "ended" => Explained(e)

DriversInv ==
  DriversTypeOK /\ Tables /\ Accounts /\ StartsSettled /\ EndsExplained /\ NewOperatorIsAlone

-----------------------------------------------------------------------------
LEMMA InitHolds == DriversInit => DriversInv
<1> SUFFICES ASSUME DriversInit PROVE DriversInv
  OBVIOUS
<1>1. DOMAIN Empty = {}
  BY DEF Empty
<1> USE <1>1 DEF DriversInit
<1>2. DriversTypeOK /\ Tables
  BY DEF DriversTypeOK, Tables, Known
<1>3. Accounts
  BY DEF Accounts, Logged, ActiveIn
<1>4. StartsSettled /\ EndsExplained /\ NewOperatorIsAlone
  BY DEF StartsSettled, EndsExplained, NewOperatorIsAlone, EventsOf
<1>5. QED
  BY <1>2, <1>3, <1>4 DEF DriversInv

-----------------------------------------------------------------------------
(* The beginning of a frame                                                *)

LEMMA BeginHolds ==
  ASSUME DriversInv, NEW elapsed \in 1 .. MaxFrameStep, NEW people \in SUBSET PersonId,
         NEW visible \in SUBSET Vehicle, NEW confident \in SUBSET visible,
         BeginFrame(elapsed, people, visible, confident)
  PROVE  DriversInv'
<1> USE DEF BeginFrame
<1> DEFINE kept == Unexpired(elapsed)
           gone == {r \in Known \ kept : driverTracks[r].active}
<1>1. /\ todo = {} /\ match = Empty /\ contexts = Empty /\ log = {}
      /\ Known \subseteq PersonId /\ \A p \in Known : driverTracks[p] \in DriverTrack
      /\ DOMAIN qualified \subseteq Vehicle
      /\ \A v \in DOMAIN qualified : qualified[v] \in 0 .. VehicleTtlFrames
  BY DEF DriversInv, DriversTypeOK
<1>2. ActiveIn(driverTracks) = output.operators
  BY <1>1 DEF DriversInv, Accounts, Logged
<1>3. elapsed \in Nat \ {0} /\ TtlFrames \in Nat /\ VehicleTtlFrames \in Nat
  BY ForkliftAssumption
<1>4. /\ DOMAIN driverTracks' = kept /\ kept \subseteq Known
      /\ \A p \in kept : driverTracks'[p] = [driverTracks[p] EXCEPT !.age = @ + elapsed]
      /\ \A p \in kept : driverTracks[p].age + elapsed <= TtlFrames
  BY DEF Unexpired
<1>5. \A p \in kept : /\ driverTracks'[p] \in DriverTrack
                      /\ driverTracks'[p].active = driverTracks[p].active
  BY <1>1, <1>3, <1>4 DEF DriverTrack
<1>6. /\ DOMAIN qualified' \subseteq Vehicle
      /\ \A v \in DOMAIN qualified' : qualified'[v] \in 0 .. VehicleTtlFrames
  BY <1>1, <1>3 DEF Requalify
<1>7. PICK P \in SUBSET people : match' \in [P -> visible \intersect DOMAIN qualified']
  BY DEF Matchings
<1>8. DOMAIN match' = P /\ \A p \in P : match'[p] \in Vehicle
  BY <1>7
<1>9. \A p, r \in DOMAIN match' : p # r => match'[p] # match'[r]
  BY DEF Matchings
<1>10. DOMAIN contexts' = {} /\ begun' = TRUE
  BY DEF Empty
<1>11. DriversTypeOK'
  BY <1>1, <1>4, <1>5, <1>6, <1>8, <1>10 DEF DriversTypeOK, Known
<1>12. \A e \in log' : /\ e.kind = "ended" /\ e.reason = "track_expired" /\ e.person \in gone
  BY DEF Expiry, Event
<1>13. Logged("started")' = {} /\ Logged("ended")' = gone
  <2>1. Logged("started")' = {}
    BY <1>12 DEF Logged
  <2>2. \A p \in gone : Event("ended", p, driverTracks[p].vehicle, "track_expired") \in log'
    BY DEF Expiry
  <2>3. ASSUME NEW p \in gone PROVE p \in Logged("ended")'
    <3>1. PICK e \in log' : e = Event("ended", p, driverTracks[p].vehicle, "track_expired")
      BY <2>2
    <3>2. e.kind = "ended" /\ e.person = p
      BY <3>1 DEF Event
    <3>3. QED
      BY <3>2 DEF Logged
  <2>4. QED
    BY <1>12, <2>1, <2>3 DEF Logged
<1>14. Tables'
  BY <1>1, <1>9, <1>10, <1>12 DEF DriversInv, Tables
<1>15. Accounts'
  <2>1. ActiveIn(driverTracks') = ActiveIn(driverTracks) \ gone
    BY <1>4, <1>5 DEF ActiveIn, Known
  <2>2. gone \subseteq ActiveIn(driverTracks)
    BY DEF ActiveIn, Known
  <2>3. QED
    BY <1>2, <1>13, <2>1, <2>2 DEF Accounts
<1>16. StartsSettled' /\ EndsExplained'
  BY <1>12 DEF StartsSettled, EndsExplained, Explained
<1>17. NewOperatorIsAlone'
  BY <1>10 DEF NewOperatorIsAlone
<1>18. QED
  BY <1>11, <1>14, <1>15, <1>16, <1>17 DEF DriversInv

-----------------------------------------------------------------------------
(* The visits                                                              *)

LEMMA DriverAtType ==
  ASSUME DriversTypeOK, NEW p
  PROVE  DriverAt(p) \in DriverTrack /\ (DriverAt(p).active => p \in Known)
<1>1. NewDriver \in DriverTrack /\ ~NewDriver.active
  BY ForkliftAssumption DEF NewDriver, DriverTrack
<1>2. QED
  BY <1>1 DEF DriverAt, DriversTypeOK

LEMMA LongerType ==
  ASSUME NEW threshold \in Nat \ {0}, NEW n \in 0 .. threshold
  PROVE  Longer(n, threshold) \in 0 .. threshold
  BY DEF Longer

\* What every visit leaves, whatever it decides.
LEMMA LeaveFacts ==
  ASSUME DriversInv, NEW p \in todo, NEW t \in DriverTrack, NEW others,
         \A r \in Known : others[r] \in DriverTrack,
         NEW events, \A e \in events : e.kind \in {"started", "ended"} /\ e.person \in PersonId,
         Leave(p, t, others, events)
  PROVE  /\ DOMAIN driverTracks' = Known \union {p} /\ driverTracks'[p] = t
         /\ \A r \in Known \ {p} : driverTracks'[r] = others[r]
         /\ DOMAIN contexts' = DOMAIN contexts \union {p} /\ p \notin DOMAIN contexts
         /\ \A r \in DOMAIN contexts : contexts'[r] = contexts[r]
         /\ p \in DOMAIN match => contexts'[p].vehicle = match[p]
         /\ begun' /\ DriversTypeOK' /\ Tables' /\ NewOperatorIsAlone'
<1> USE DEF Leave
<1>1. p \in PersonId /\ p \notin DOMAIN contexts /\ begun
  BY DEF DriversInv, DriversTypeOK, Tables
<1>2. /\ DOMAIN driverTracks' = Known \union {p} /\ driverTracks'[p] = t
      /\ \A r \in Known \ {p} : driverTracks'[r] = others[r]
  OBVIOUS
<1>3. /\ DOMAIN contexts' = DOMAIN contexts \union {p}
      /\ \A r \in DOMAIN contexts : contexts'[r] = contexts[r]
  BY <1>1
<1>4. p \in DOMAIN match => contexts'[p].vehicle = match[p]
  OBVIOUS
<1>5. DriversTypeOK'
  BY <1>1, <1>2 DEF DriversInv, DriversTypeOK, Known
<1>6. Tables'
  BY <1>1, <1>3 DEF DriversInv, Tables
<1>7. NewOperatorIsAlone'
  BY <1>1 DEF NewOperatorIsAlone
<1>8. QED
  BY <1>1, <1>2, <1>3, <1>4, <1>5, <1>6, <1>7

\* What was said of the log before a visit stays true after it.
LEMMA EndsStay ==
  ASSUME EndsExplained, log \subseteq log', DOMAIN contexts \subseteq DOMAIN contexts',
         \A e \in log' \ log : e.kind = "ended" => Explained(e)'
  PROVE  EndsExplained'
  BY DEF EndsExplained, Explained

\* A visit that reports nothing: the person stays an operator or stays none, and an operator
\* is where it is matched, or where it was.
LEMMA QuietHolds ==
  ASSUME DriversInv, NEW p \in todo, NEW t \in DriverTrack, Leave(p, t, driverTracks, {}),
         t.active = DriverAt(p).active,
         t.active => t.vehicle = IF p \in DOMAIN match THEN match[p] ELSE DriverAt(p).vehicle
  PROVE  DriversInv'
<1>1. \A r \in Known : driverTracks[r] \in DriverTrack
  BY DEF DriversInv, DriversTypeOK
<1>2. /\ DOMAIN driverTracks' = Known \union {p} /\ driverTracks'[p] = t
      /\ \A r \in Known \ {p} : driverTracks'[r] = driverTracks[r]
      /\ DOMAIN contexts' = DOMAIN contexts \union {p} /\ p \notin DOMAIN contexts
      /\ \A r \in DOMAIN contexts : contexts'[r] = contexts[r]
      /\ DriversTypeOK' /\ Tables' /\ NewOperatorIsAlone'
  <2>1. \A e \in {} : e.kind \in {"started", "ended"} /\ e.person \in PersonId
    OBVIOUS
  <2> DEFINE others == driverTracks
             events == {}
  <2>2. Leave(p, t, others, events) /\ \A r \in Known : others[r] \in DriverTrack
    BY <1>1
  <2>3. \A e \in events : e.kind \in {"started", "ended"} /\ e.person \in PersonId
    BY <2>1
  <2> HIDE DEF others, events
  <2>4. /\ DOMAIN driverTracks' = Known \union {p} /\ driverTracks'[p] = t
        /\ \A r \in Known \ {p} : driverTracks'[r] = others[r]
        /\ DOMAIN contexts' = DOMAIN contexts \union {p} /\ p \notin DOMAIN contexts
        /\ \A r \in DOMAIN contexts : contexts'[r] = contexts[r]
        /\ DriversTypeOK' /\ Tables' /\ NewOperatorIsAlone'
    BY <2>2, <2>3, LeaveFacts
  <2> QED
    BY <2>4 DEF others
<1>3. log' = log /\ UNCHANGED <<match, output>>
  BY DEF Leave
<1>4. t.active => p \in Known /\ driverTracks[p].active /\ DriverAt(p) = driverTracks[p]
  BY DriverAtType DEF DriversInv, DriverAt
<1>5. p \in Known /\ driverTracks[p].active => t.active
  BY DEF DriverAt
<1>6. ActiveIn(driverTracks') = ActiveIn(driverTracks)
  BY <1>2, <1>4, <1>5 DEF ActiveIn, Known
<1>7. Accounts'
  BY <1>3, <1>6 DEF DriversInv, Accounts, Logged
<1>8. StartsSettled'
  <2> SUFFICES ASSUME NEW e \in log, e.kind = "started"
               PROVE  Settled(e)'
    BY <1>3 DEF StartsSettled
  <2>1. Settled(e)
    BY DEF DriversInv, StartsSettled
  <2>2. e.person # p
    BY <1>2, <2>1 DEF Settled
  <2>3. e.person \in Known /\ driverTracks[e.person].active
    BY <2>1 DEF Settled, Aboard, ActiveIn, Known
  <2>4. ~(t.active /\ t.vehicle = e.vehicle)
    <3>1. CASE p \in DOMAIN match
      BY <2>1, <2>2, <3>1 DEF DriversInv, Tables, Settled
    <3>2. CASE p \notin DOMAIN match
      BY <1>4, <2>1, <2>2, <3>2 DEF Settled, Aboard, ActiveIn, Known
    <3>3. QED
      BY <3>1, <3>2
  <2>5. Aboard(e.vehicle)' = Aboard(e.vehicle)
    <3>1. p \notin Aboard(e.vehicle)
      BY <2>1, <2>2 DEF Settled
    <3>2. p \notin Aboard(e.vehicle)'
      BY <1>2, <2>4 DEF Aboard, ActiveIn
    <3>3. \A r \in Known \ {p} : driverTracks'[r].vehicle = driverTracks[r].vehicle
      BY <1>2
    <3>4. Aboard(e.vehicle)' \ {p} = Aboard(e.vehicle) \ {p}
      <4>1. Aboard(e.vehicle) = {r \in ActiveIn(driverTracks) : driverTracks[r].vehicle = e.vehicle}
        BY DEF Aboard
      <4>2. Aboard(e.vehicle)' = {r \in ActiveIn(driverTracks) : driverTracks'[r].vehicle = e.vehicle}
        BY <1>6 DEF Aboard
      <4>3. ActiveIn(driverTracks) \subseteq Known
        BY DEF ActiveIn, Known
      <4>4. QED
        BY <3>3, <4>1, <4>2, <4>3
    <3>5. QED
      BY <3>1, <3>2, <3>4
  <2>6. QED
    BY <1>2, <1>3, <2>1, <2>2, <2>3, <2>5 DEF Settled
<1>9. EndsExplained'
  BY <1>2, <1>3, EndsStay DEF DriversInv
<1>10. QED
  BY <1>2, <1>7, <1>8, <1>9 DEF DriversInv

LEMMA MatchedFacts ==
  ASSUME DriversInv, NEW p \in todo, p \in DOMAIN match
  PROVE  /\ Matched(p) \in DriverTrack /\ Matched(p).active = DriverAt(p).active
         /\ Matched(p).vehicle = match[p]
<1>1. DriverAt(p) \in DriverTrack /\ match[p] \in Vehicle
  BY DriverAtType DEF DriversInv, DriversTypeOK
<1>2. Longer(DriverAt(p).enter, EnterFrames) \in 0 .. EnterFrames
  BY <1>1, LongerType, ForkliftAssumption DEF DriverTrack
<1>3. 0 \in 0 .. ExitFrames /\ 0 \in 0 .. TtlFrames
  BY ForkliftAssumption
<1>4. QED
  BY <1>1, <1>2, <1>3 DEF Matched, DriverTrack

LEMMA UnmatchedFacts ==
  ASSUME DriversInv, NEW p \in todo
  PROVE  /\ Unmatched(p) \in DriverTrack /\ Unmatched(p).active = DriverAt(p).active
         /\ Unmatched(p).vehicle = DriverAt(p).vehicle
<1>1. DriverAt(p) \in DriverTrack
  BY DriverAtType DEF DriversInv
<1>2. Longer(DriverAt(p).exit, ExitFrames) \in 0 .. ExitFrames
  BY <1>1, LongerType, ForkliftAssumption DEF DriverTrack
<1>3. 0 \in 0 .. EnterFrames /\ 0 \in 0 .. TtlFrames
  BY ForkliftAssumption
<1>4. QED
  BY <1>1, <1>2, <1>3 DEF Unmatched, DriverTrack

LEMMA ClearedFacts ==
  ASSUME NEW t \in DriverTrack
  PROVE  Cleared(t) \in DriverTrack /\ ~Cleared(t).active
<1>1. 0 \in 0 .. EnterFrames /\ 0 \in 0 .. ExitFrames
  BY ForkliftAssumption
<1>2. QED
  BY <1>1 DEF Cleared, DriverTrack

LEMMA VisitMatchedHolds ==
  ASSUME DriversInv, NEW p \in todo, VisitMatched(p)
  PROVE  DriversInv'
  BY MatchedFacts, QuietHolds DEF VisitMatched

LEMMA VisitHoldHolds ==
  ASSUME DriversInv, NEW p \in todo, VisitHold(p)
  PROVE  DriversInv'
  BY UnmatchedFacts, QuietHolds DEF VisitHold

LEMMA VisitPedestrianHolds ==
  ASSUME DriversInv, NEW p \in todo, VisitPedestrian(p)
  PROVE  DriversInv'
<1>1. [DriverAt(p) EXCEPT !.age = 0] \in DriverTrack
  BY DriverAtType, ForkliftAssumption DEF DriversInv, DriverTrack
<1>2. ~DriverAt(p).active /\ DriverAt(p).active \in BOOLEAN
  BY DriverAtType DEF DriversInv, VisitPedestrian, DriverTrack
<1>3. Cleared([DriverAt(p) EXCEPT !.age = 0]) \in DriverTrack
      /\ Cleared([DriverAt(p) EXCEPT !.age = 0]).active = DriverAt(p).active
      /\ ~Cleared([DriverAt(p) EXCEPT !.age = 0]).active
  BY <1>1, <1>2, ClearedFacts DEF DriverTrack
<1>4. QED
  BY <1>3, QuietHolds DEF VisitPedestrian

\* The people of a log that has grown.
LEMMA LoggedGrows ==
  ASSUME NEW events, log' = log \union events, NEW kind
  PROVE  Logged(kind)' = Logged(kind) \union {e.person : e \in {x \in events : x.kind = kind}}
  BY DEF Logged

\* An operator who was not started in this frame was published by the last one.
LEMMA StartedFacts ==
  ASSUME DriversInv
  PROVE  /\ Logged("started") \subseteq DOMAIN contexts
         /\ \A r \in Logged("started") : r \in DOMAIN match /\ driverTracks[r].vehicle = match[r]
  BY DEF DriversInv, StartsSettled, Settled, Logged

LEMMA VisitExitHolds ==
  ASSUME DriversInv, NEW p \in todo, VisitExit(p)
  PROVE  DriversInv'
<1>1. PICK t, event : /\ t = Cleared(Unmatched(p))
                      /\ event = Event("ended", p, DriverAt(p).vehicle, "exit_hysteresis_met")
  OBVIOUS
<1>2. t \in DriverTrack /\ ~t.active
  BY <1>1, UnmatchedFacts, ClearedFacts
<1>3. /\ event.kind = "ended" /\ event.person = p /\ event.reason = "exit_hysteresis_met"
      /\ p \in PersonId
  BY <1>1 DEF Event, DriversInv, DriversTypeOK
<1>4. PICK events : events = {event}
  OBVIOUS
<1>5. Leave(p, t, driverTracks, events) /\ DriverAt(p).active
  BY <1>1, <1>4 DEF VisitExit
<1>6. /\ log' = log \union events /\ events = {event} /\ UNCHANGED <<match, output>>
      /\ \A e \in events : e.kind \in {"started", "ended"} /\ e.person \in PersonId
  BY <1>4, <1>3, <1>5 DEF Leave
<1>7. \A r \in Known : driverTracks[r] \in DriverTrack
  BY DEF DriversInv, DriversTypeOK
<1>8. /\ DOMAIN driverTracks' = Known \union {p} /\ driverTracks'[p] = t
      /\ \A r \in Known \ {p} : driverTracks'[r] = driverTracks[r]
      /\ DOMAIN contexts' = DOMAIN contexts \union {p} /\ p \notin DOMAIN contexts
      /\ \A r \in DOMAIN contexts : contexts'[r] = contexts[r]
      /\ DriversTypeOK' /\ Tables' /\ NewOperatorIsAlone'
  BY <1>2, <1>5, <1>6, <1>7, LeaveFacts
<1>9. p \in ActiveIn(driverTracks)
  BY <1>5, DriverAtType DEF DriversInv, DriverAt, ActiveIn, Known
<1>10. ActiveIn(driverTracks') = ActiveIn(driverTracks) \ {p}
  BY <1>2, <1>8 DEF ActiveIn, Known
<1>11. Accounts'
  <2>1. Logged("ended")' = Logged("ended") \union {p}
    <3>1. {e.person : e \in {x \in events : x.kind = "ended"}} = {p}
      BY <1>3, <1>6
    <3>2. QED
      BY <1>6, <3>1, LoggedGrows
  <2>2. Logged("started")' = Logged("started")
    <3>1. {e.person : e \in {x \in events : x.kind = "started"}} = {}
      BY <1>3, <1>6
    <3>2. Logged("started")' = Logged("started") \union {}
      BY <1>6, <3>1, LoggedGrows
    <3>3. QED
      BY <3>2
  <2>3. p \notin Logged("started")
    BY <1>8, StartedFacts
  <2>4. QED
    BY <1>6, <1>9, <1>10, <2>1, <2>2, <2>3 DEF DriversInv, Accounts
<1>12. StartsSettled'
  <2> SUFFICES ASSUME NEW e \in log, e.kind = "started"
               PROVE  Settled(e)'
    BY <1>3, <1>6 DEF StartsSettled
  <2>1. Settled(e) /\ e.person # p
    BY <1>8 DEF DriversInv, StartsSettled, Settled
  <2>2. e.person \in ActiveIn(driverTracks)
    BY <2>1 DEF Settled, Aboard
  <2>3. \A r \in ActiveIn(driverTracks') : driverTracks'[r] = driverTracks[r]
    BY <1>8, <1>10 DEF ActiveIn, Known
  <2>4. Aboard(e.vehicle)' = Aboard(e.vehicle)
    <3>1. p \notin Aboard(e.vehicle)
      BY <2>1 DEF Settled
    <3>2. QED
      BY <1>10, <2>3, <3>1 DEF Aboard
  <2>5. QED
    BY <1>6, <1>8, <1>10, <2>1, <2>2, <2>3, <2>4 DEF Settled
<1>13. EndsExplained'
  <2>1. Explained(event)'
    BY <1>3, <1>8 DEF Explained
  <2>2. QED
    BY <1>6, <1>8, <2>1, EndsStay DEF DriversInv
<1>14. QED
  BY <1>8, <1>11, <1>12, <1>13 DEF DriversInv

LEMMA VisitEnterHolds ==
  ASSUME DriversInv, NEW p \in todo, VisitEnter(p)
  PROVE  DriversInv'
<1>1. PICK t, D, start, ends :
        /\ t = [Matched(p) EXCEPT !.active = TRUE]
        /\ D = Displaced(p)
        /\ start = Event("started", p, match[p], "enter_hysteresis_met")
        /\ ends = {Event("ended", r, match[p], "operator_track_reassigned") : r \in D}
  OBVIOUS
<1>2. PICK events : events = ends \union {start}
  OBVIOUS
<1>3. p \in DOMAIN match /\ ~DriverAt(p).active
  BY MatchedFacts DEF VisitEnter
<1>4. t \in DriverTrack /\ t.active /\ t.vehicle = match[p]
  BY <1>1, <1>3, MatchedFacts DEF DriverTrack
<1>5. /\ start.kind = "started" /\ start.person = p /\ start.vehicle = match[p]
      /\ \A e \in ends : e.kind = "ended" /\ e.person \in D /\ e.vehicle = match[p]
      /\ \A r \in D : \E e \in ends : e.person = r
  <2>1. start.kind = "started" /\ start.person = p /\ start.vehicle = match[p]
    BY <1>1 DEF Event
  <2>2. \A e \in ends : e.kind = "ended" /\ e.person \in D /\ e.vehicle = match[p]
    BY <1>1 DEF Event
  <2>3. ASSUME NEW r \in D PROVE \E e \in ends : e.person = r
    <3>1. PICK e \in ends : e = Event("ended", r, match[p], "operator_track_reassigned")
      BY <1>1
    <3>2. QED
      BY <3>1 DEF Event
  <2>4. QED
    BY <2>1, <2>2, <2>3
<1>6. Leave(p, t, OthersAfterEntry(p), events)
  BY <1>1, <1>2 DEF VisitEnter
<1>7. /\ log' = log \union events /\ UNCHANGED <<match, output>>
      /\ events = ends \union {start}
  BY <1>2, <1>6 DEF Leave
<1>8. D = {r \in ActiveIn(driverTracks) \ {p} : driverTracks[r].vehicle = match[p]}
  BY <1>1 DEF Displaced, ActiveIn, Known
<1>9. /\ \A r \in Known : OthersAfterEntry(p)[r] \in DriverTrack
      /\ \A r \in Known \ D : OthersAfterEntry(p)[r] = driverTracks[r]
      /\ \A r \in D : r \in Known /\ ~OthersAfterEntry(p)[r].active
  <2>1. \A r \in Known : Cleared(driverTracks[r]) \in DriverTrack
                         /\ ~Cleared(driverTracks[r]).active
    BY ClearedFacts DEF DriversInv, DriversTypeOK
  <2>2. \A r \in Known : driverTracks[r] \in DriverTrack
    BY DEF DriversInv, DriversTypeOK
  <2>3. D = Displaced(p) /\ D \subseteq Known
    BY <1>1 DEF Displaced
  <2>4. QED
    BY <2>1, <2>2, <2>3 DEF OthersAfterEntry
<1>10. \A e \in events : e.kind \in {"started", "ended"} /\ e.person \in PersonId
  <2>1. p \in PersonId /\ D \subseteq PersonId
    BY <1>9 DEF DriversInv, DriversTypeOK
  <2>2. QED
    BY <1>5, <1>7, <2>1
<1>11. /\ DOMAIN driverTracks' = Known \union {p} /\ driverTracks'[p] = t
       /\ \A r \in Known \ {p} : driverTracks'[r] = OthersAfterEntry(p)[r]
       /\ DOMAIN contexts' = DOMAIN contexts \union {p} /\ p \notin DOMAIN contexts
       /\ \A r \in DOMAIN contexts : contexts'[r] = contexts[r]
       /\ contexts'[p].vehicle = match[p]
       /\ DriversTypeOK' /\ Tables' /\ NewOperatorIsAlone'
  BY <1>3, <1>4, <1>6, <1>9, <1>10, LeaveFacts
<1>12. p \notin ActiveIn(driverTracks) /\ p \notin D
  BY <1>3, <1>8 DEF DriverAt, ActiveIn, Known
<1>13. ActiveIn(driverTracks') = (ActiveIn(driverTracks) \ D) \union {p}
  BY <1>4, <1>8, <1>9, <1>11, <1>12 DEF ActiveIn, Known
<1>14. \A r \in ActiveIn(driverTracks) \ D : driverTracks'[r] = driverTracks[r]
  BY <1>9, <1>11, <1>12 DEF ActiveIn, Known
<1>15. p \notin Logged("started") /\ D \intersect Logged("started") = {}
  <2>1. p \notin Logged("started")
    BY <1>11, StartedFacts
  <2>2. ASSUME NEW r \in Logged("started") PROVE r \notin D
    <3>1. r \in DOMAIN match /\ driverTracks[r].vehicle = match[r] /\ r # p
      BY <2>1, StartedFacts
    <3>2. QED
      BY <1>3, <1>8, <3>1 DEF DriversInv, Tables
  <2>3. QED
    BY <2>1, <2>2
<1>16. Accounts'
  <2>1. Logged("ended")' = Logged("ended") \union D
    <3>1. {e.person : e \in {x \in events : x.kind = "ended"}} = D
      BY <1>5, <1>7
    <3>2. QED
      BY <1>7, <3>1, LoggedGrows
  <2>2. Logged("started")' = Logged("started") \union {p}
    <3>1. {e.person : e \in {x \in events : x.kind = "started"}} = {p}
      BY <1>5, <1>7
    <3>2. QED
      BY <1>7, <3>1, LoggedGrows
  <2>3. D \subseteq ActiveIn(driverTracks)
    BY <1>8
  <2>4. QED
    BY <1>7, <1>12, <1>13, <1>15, <2>1, <2>2, <2>3 DEF DriversInv, Accounts
<1>17. StartsSettled'
  <2>1. Settled(start)'
    <3>1. Aboard(match[p])' = {p}
      <4>1. \A r \in ActiveIn(driverTracks) \ D : r # p => driverTracks'[r].vehicle # match[p]
        BY <1>8, <1>14
      <4>2. QED
        BY <1>4, <1>7, <1>11, <1>12, <1>13, <4>1 DEF Aboard
    <3>2. QED
      BY <1>3, <1>4, <1>5, <1>7, <1>11, <3>1 DEF Settled
  <2>2. ASSUME NEW e \in log, e.kind = "started"
        PROVE  Settled(e)'
    <3>1. Settled(e)
      BY <2>2 DEF DriversInv, StartsSettled
    <3>2. e.person \in Logged("started") /\ e.person # p /\ e.person \notin D
      BY <1>15, <2>2 DEF Logged
    <3>3. e.vehicle # match[p]
      BY <1>3, <3>1, <3>2 DEF Settled, DriversInv, Tables
    <3>4. e.person \in ActiveIn(driverTracks) \ D
      BY <3>1, <3>2 DEF Settled, Aboard
    <3>5. Aboard(e.vehicle)' = Aboard(e.vehicle)
      <4>1. Aboard(e.vehicle) \intersect D = {}
        BY <3>1, <3>2 DEF Settled
      <4>2. QED
        BY <1>4, <1>11, <1>12, <1>13, <1>14, <3>3, <4>1 DEF Aboard
    <3>6. QED
      BY <1>7, <1>11, <1>14, <3>1, <3>4, <3>5 DEF Settled
  <2>3. ASSUME NEW e \in log', e.kind = "started"
        PROVE  e = start \/ e \in log
    BY <1>5, <1>7, <2>3
  <2>4. QED
    BY <2>1, <2>2, <2>3 DEF StartsSettled
<1>18. EndsExplained'
  <2>1. ASSUME NEW e \in ends PROVE Explained(e)'
    <3>1. start \in log' /\ e.person # p
      BY <1>5, <1>7, <1>12
    <3>2. QED
      BY <1>5, <3>1 DEF Explained
  <2>2. \A e \in log' \ log : e.kind = "ended" => Explained(e)'
    BY <1>5, <1>7, <2>1
  <2>3. QED
    BY <1>7, <1>11, <2>2, EndsStay DEF DriversInv
<1>19. QED
  BY <1>11, <1>16, <1>17, <1>18 DEF DriversInv

-----------------------------------------------------------------------------
(* The end of a frame, and what it publishes                               *)

\* The frame publishes its own log.
LEMMA Published ==
  ASSUME EndFrame
  PROVE  /\ output'.operators = ActiveIn(driverTracks) /\ output'.contexts = contexts
         /\ output'.events = log /\ UNCHANGED driverTracks
         /\ \A kind : EventsOf(kind)' = Logged(kind)
  BY DEF EndFrame, EventsOf, Logged

LEMMA EndFrameHolds ==
  ASSUME DriversInv, EndFrame
  PROVE  DriversInv'
<1> USE DEF EndFrame
<1>1. DOMAIN Empty = {}
  BY DEF Empty
<1>2. DriversTypeOK'
  BY <1>1 DEF DriversInv, DriversTypeOK, Known
<1>3. Tables'
  <2>1. ActiveIn(driverTracks) \subseteq PersonId
    BY DEF DriversInv, DriversTypeOK, ActiveIn, Known
  <2>2. QED
    BY <1>1, <2>1, Published DEF DriversInv, Tables
<1>4. Accounts'
  <2>1. Logged("started")' = {} /\ Logged("ended")' = {}
    BY DEF Logged
  <2>2. QED
    BY <2>1, Published DEF Accounts
<1>5. StartsSettled' /\ EndsExplained'
  BY DEF StartsSettled, EndsExplained
<1>6. NewOperatorIsAlone'
  <2> SUFFICES ASSUME NEW p \in Logged("started")
               PROVE  Aboard(driverTracks[p].vehicle) = {p}
    BY Published DEF NewOperatorIsAlone, Aboard
  <2>1. PICK e \in log : e.kind = "started" /\ e.person = p
    BY DEF Logged
  <2>2. QED
    BY <2>1 DEF DriversInv, StartsSettled, Settled
<1>7. QED
  BY <1>2, <1>3, <1>4, <1>5, <1>6 DEF DriversInv

LEMMA NextHolds == DriversInv /\ [DriversNext]_driverVars => DriversInv'
<1> SUFFICES ASSUME DriversInv, [DriversNext]_driverVars
             PROVE  DriversInv'
  OBVIOUS
<1>1. CASE Begin
  BY <1>1, BeginHolds DEF Begin
<1>2. ASSUME NEW p \in todo, Visit(p)
      PROVE  DriversInv'
  BY <1>2, VisitMatchedHolds, VisitEnterHolds, VisitHoldHolds, VisitExitHolds,
     VisitPedestrianHolds DEF Visit
<1>3. CASE EndFrame
  BY <1>3, EndFrameHolds
<1>4. CASE UNCHANGED driverVars
  BY <1>4 DEF driverVars, DriversInv, DriversTypeOK, Known, Tables, Accounts, Logged, ActiveIn, StartsSettled,
     Settled, Aboard, EndsExplained, Explained, NewOperatorIsAlone, EventsOf
<1>5. QED
  BY <1>1, <1>2, <1>3, <1>4 DEF DriversNext

\* Only the end of a frame publishes.
LEMMA OutputChanges ==
  ASSUME [DriversNext]_driverVars
  PROVE  EndFrame \/ UNCHANGED output
  BY DEF DriversNext, driverVars, Begin, BeginFrame, Visit, VisitMatched, VisitEnter, VisitHold,
         VisitExit, VisitPedestrian, Leave

\* What is published at the end of a frame is a frame of the ledger.
LEMMA LedgerStep ==
  ASSUME DriversInv, [DriversNext]_driverVars
  PROVE  [Ledger!Next]_(Ledger!ledgerVars)
<1>1. CASE UNCHANGED output
  BY <1>1 DEF Ledger!ledgerVars, EventsOf
<1>2. CASE EndFrame
  <2> DEFINE V == DOMAIN contexts
             S == Logged("started") \X Operating
             E == Logged("ended") \X Operating
             before == output.operators \X Operating
  <2>1. /\ V \in SUBSET PersonId /\ S \in SUBSET (V \X Operating) /\ E \in SUBSET before
        /\ S \intersect (before \ E) = {}
    BY StartedFacts DEF DriversInv, Tables, Accounts
  <2>2. /\ DOMAIN output'.contexts = V /\ EventsOf("started")' \X Operating = S
        /\ EventsOf("ended")' \X Operating = E
    BY <1>2, Published
  <2>3. output'.operators \X Operating = (before \ E) \union S
    <3>1. output'.operators = (output.operators \ Logged("ended")) \union Logged("started")
      BY <1>2, Published DEF DriversInv, Accounts
    <3>2. QED
      BY <3>1
  <2>4. Ledger!Report(V, S, E)
    BY <2>1, <2>2, <2>3 DEF Ledger!Report
  <2>5. QED
    BY <2>1, <2>4 DEF Ledger!Next
<1>3. QED
  BY <1>1, <1>2, OutputChanges

\* One frame changes the operators for the reasons that the docstring of the module lists.
ReasonsOfFrame ==
  /\ \A p \in output'.operators \ output.operators :
       /\ p \in DOMAIN output'.contexts
       /\ output'.contexts[p].vehicle \in Vehicle
  /\ \A p \in output.operators \ output'.operators :
       \E e \in output'.events :
         /\ e.kind = "ended" /\ e.person = p
         /\ \/ e.reason = "track_expired"
            \/ e.reason = "exit_hysteresis_met" /\ p \in DOMAIN output'.contexts
            \/ \E f \in output'.events :
                 f.kind = "started" /\ f.person # p /\ f.vehicle = e.vehicle

LEMMA ReasonStep ==
  ASSUME DriversInv, [DriversNext]_driverVars
  PROVE  [ReasonsOfFrame]_output
<1> SUFFICES ASSUME EndFrame PROVE ReasonsOfFrame
  BY OutputChanges
<1>1. output'.operators = (output.operators \ Logged("ended")) \union Logged("started")
  BY Published DEF DriversInv, Accounts
<1>2. ASSUME NEW p \in output'.operators \ output.operators
      PROVE  p \in DOMAIN output'.contexts /\ output'.contexts[p].vehicle \in Vehicle
  <2>1. PICK e \in log : e.kind = "started" /\ e.person = p
    BY <1>1, <1>2 DEF Logged
  <2>2. Settled(e) /\ match[p] \in Vehicle
    BY <2>1 DEF DriversInv, StartsSettled, Settled, DriversTypeOK
  <2>3. QED
    BY <2>1, <2>2, Published DEF Settled
<1>3. ASSUME NEW p \in output.operators \ output'.operators
      PROVE  \E e \in log : e.kind = "ended" /\ e.person = p /\ Explained(e)
  <2>1. PICK e \in log : e.kind = "ended" /\ e.person = p
    BY <1>1, <1>3 DEF Logged
  <2>2. QED
    BY <2>1 DEF DriversInv, EndsExplained
<1>4. QED
  BY <1>2, <1>3, Published DEF ReasonsOfFrame, Explained

-----------------------------------------------------------------------------
(* The theorems                                                            *)

LEMMA Correct == DriversSpec => []DriversInv
  BY InitHolds, NextHolds, PTL DEF DriversSpec

\* The tables hold well-formed tracks within their lifetimes (_expire_tracks and the visits).
THEOREM DriversTypeCorrect == DriversSpec => []DriversTypeOK
<1>1. DriversInv => DriversTypeOK
  BY DEF DriversInv
<1>2. QED
  BY <1>1, Correct, PTL

\* When a frame ends, whoever became an operator in it is the only operator of the vehicle,
\* for any number of people and vehicles (process_frame).
THEOREM NewOperatorAlone == DriversSpec => []NewOperatorIsAlone
<1>1. DriversInv => NewOperatorIsAlone
  BY DEF DriversInv
<1>2. QED
  BY <1>1, Correct, PTL

\* The transitions that the frames publish pair up with the operators that they publish.
THEOREM DriversImplementLedger == DriversSpec => SuppressionEpisodes
<1>1. DriversInit => Ledger!Init
  BY DEF DriversInit, Ledger!Init, EventsOf, Empty
<1>2. QED
  BY <1>1, Correct, LedgerStep, PTL DEF DriversSpec, SuppressionEpisodes, Ledger!Spec

\* A term begins in a vehicle that the frame shows, and ends by expiry, by an exit run of the
\* visible person or because another one is started in the vehicle.
THEOREM TermsHaveReasons == DriversSpec => TermsChangeForAReason
<1>1. TermsChangeForAReason <=> [][ReasonsOfFrame]_output
  BY DEF TermsChangeForAReason, ReasonsOfFrame
<1>2. QED
  BY <1>1, Correct, ReasonStep, PTL DEF DriversSpec

\* Both together: for any people, vehicles, alternatives, thresholds and bounds, the published
\* terms are those of an alarm ledger and none changes without its reason.
THEOREM TermsAreKept == DriversSpec => DriverTerms
  BY DriversImplementLedger, TermsHaveReasons DEF DriverTerms

-----------------------------------------------------------------------------
(* The alarms of the people who do not drive.                              *)

\* The state of the two streams that every step preserves.
AlarmsInv == AlarmsTypeOK /\ EffectiveIsRawUnlessDriving

\* Both streams start without alarms.
LEMMA AlarmsStart == AlarmsInit => AlarmsInv
  BY DEF AlarmsInit, Raw!Init, Effective!Init, AlarmsInv, AlarmsTypeOK,
         EffectiveIsRawUnlessDriving

\* One frame of AlarmsNext, with its guards spelled out.
LEMMA AlarmsFrameFacts ==
  ASSUME AlarmsNext
  PROVE  \E V, allowed \in SUBSET Wearer,
              S \in SUBSET (Wearer \X Kind), E \in SUBSET rawOpen :
             /\ allowed \subseteq V
             /\ S \subseteq V \X Kind
             /\ S \intersect E = {}
             /\ seen' = V
             /\ rawOpen' = (rawOpen \ E) \union S
             /\ rawStarted' = S
             /\ rawEnded' = E
             /\ effectiveOpen' =
                  ({a \in effectiveOpen : a[1] \notin V}
                     \union {a \in V \X Kind : a \in rawOpen' /\ a[1] \in allowed})
                  \ E
             /\ effectiveStarted' = effectiveOpen' \ effectiveOpen
             /\ effectiveEnded' = effectiveOpen \ effectiveOpen'
             /\ lastEligible' = (lastEligible \ V) \union allowed
  BY DEF AlarmsNext, Frame, Raw!Report, Desired, PersonAlarms, NewlyOpen, NewlyClosed

\* Every frame preserves the invariant.
LEMMA AlarmsStep == AlarmsInv /\ [AlarmsNext]_alarmVars => AlarmsInv'
<1> SUFFICES ASSUME AlarmsInv, [AlarmsNext]_alarmVars
             PROVE  AlarmsInv'
  OBVIOUS
<1> USE DEF AlarmsInv, AlarmsTypeOK, EffectiveIsRawUnlessDriving
<1>1. CASE UNCHANGED alarmVars
  BY <1>1 DEF alarmVars
<1>2. CASE AlarmsNext
  <2>1. PICK V \in SUBSET Wearer, allowed \in SUBSET Wearer,
             S \in SUBSET (Wearer \X Kind), E \in SUBSET rawOpen :
          /\ allowed \subseteq V
          /\ S \subseteq V \X Kind
          /\ S \intersect E = {}
          /\ seen' = V
          /\ rawOpen' = (rawOpen \ E) \union S
          /\ effectiveOpen' =
               ({a \in effectiveOpen : a[1] \notin V}
                  \union {a \in V \X Kind : a \in rawOpen' /\ a[1] \in allowed})
               \ E
          /\ lastEligible' = (lastEligible \ V) \union allowed
    BY <1>2, AlarmsFrameFacts
  <2>2. AlarmsTypeOK'
    <3>1. V \X Kind \subseteq Wearer \X Kind
      OBVIOUS
    <3>2. QED
      BY <2>1, <3>1
  <2>3. EffectiveIsRawUnlessDriving'
    <3>1. ASSUME NEW a
          PROVE  a \in effectiveOpen'
                   <=> a \in rawOpen' /\ a[1] \in lastEligible'
      <4>1. CASE a \in V \X Kind
        <5>1. a[1] \in V
          BY <4>1
        <5>2. a \in rawOpen' => a \notin E
          BY <2>1
        <5>3. QED
          BY <2>1, <4>1, <5>1, <5>2
      <4>2. CASE a \notin V \X Kind
        <5>1. a \notin S
          BY <2>1, <4>2
        <5>2. a \in rawOpen => a[1] \notin V
          BY <4>2
        <5>3. QED
          BY <2>1, <4>2, <5>1, <5>2
      <4>3. QED
        BY <4>1, <4>2
    <3>2. QED
      BY <3>1
  <2>4. QED
    BY <2>2, <2>3
<1>3. QED
  BY <1>1, <1>2

\* The invariant holds in every state.
THEOREM AlarmsInvariance == AlarmsSpec => []AlarmsInv
  BY AlarmsStart, AlarmsStep, PTL DEF AlarmsSpec

\* The effective alarms are the raw alarms of the people not driving when last
\* seen, for any people and kinds and whatever the raw stream reports.
THEOREM EffectiveIsRaw == AlarmsSpec => []EffectiveIsRawUnlessDriving
  BY AlarmsInvariance, PTL DEF AlarmsInv

\* The initial state of the effective stream is an empty ledger.
LEMMA AlarmsInitImplements == AlarmsInit => Effective!Init
  BY DEF AlarmsInit

\* Every frame reports exactly the changes of effective_open, and starts alarms
\* only for people it shows.
LEMMA AlarmsStepImplements ==
  AlarmsInv /\ [AlarmsNext]_alarmVars => [Effective!SettledNext]_Effective!ledgerVars
<1> SUFFICES ASSUME AlarmsInv, [AlarmsNext]_alarmVars
             PROVE  [Effective!SettledNext]_Effective!ledgerVars
  OBVIOUS
<1>1. CASE UNCHANGED alarmVars
  BY <1>1 DEF alarmVars, Effective!ledgerVars
<1>2. CASE AlarmsNext
  <2>1. PICK V \in SUBSET Wearer, allowed \in SUBSET Wearer,
             S \in SUBSET (Wearer \X Kind), E \in SUBSET rawOpen :
          /\ seen' = V
          /\ effectiveOpen' =
               ({a \in effectiveOpen : a[1] \notin V}
                  \union {a \in V \X Kind : a \in rawOpen' /\ a[1] \in allowed})
               \ E
          /\ effectiveStarted' = effectiveOpen' \ effectiveOpen
          /\ effectiveEnded' = effectiveOpen \ effectiveOpen'
    BY <1>2, AlarmsFrameFacts
  <2>2. effectiveStarted' \subseteq V \X Kind
    BY <2>1
  <2>3. effectiveEnded' \subseteq effectiveOpen
    BY <2>1
  <2>4. effectiveStarted' \intersect effectiveEnded' = {}
    BY <2>1
  <2>5. effectiveStarted' \intersect (effectiveOpen \ effectiveEnded') = {}
    BY <2>1
  <2>6. effectiveOpen' = (effectiveOpen \ effectiveEnded') \union effectiveStarted'
    BY <2>1
  <2>7. Effective!Report(V, effectiveStarted', effectiveEnded')
    BY <2>1, <2>2, <2>3, <2>5, <2>6 DEF Effective!Report
  <2>8. QED
    BY <2>2, <2>3, <2>4, <2>7 DEF Effective!SettledNext, Effective!Next
<1>3. QED
  BY <1>1, <1>2

\* "Every started event still has one ended event when driver suppression
\* activates": the effective stream implements the ledger.
THEOREM EffectiveImplementsLedger == AlarmsSpec => EffectiveEpisodes
  BY AlarmsInitImplements, AlarmsStepImplements, AlarmsInvariance, PTL
     DEF AlarmsSpec, EffectiveEpisodes, Effective!SettledSpec

\* The raw stream assumed here is a ledger too: what is proved of the effective
\* stream holds for every producer of this kind.
THEOREM RawIsLedger == AlarmsSpec => Raw!SettledSpec
<1>1. AlarmsInit => Raw!Init
  BY DEF AlarmsInit
<1>2. [AlarmsNext]_alarmVars => [Raw!SettledNext]_Raw!ledgerVars
  BY DEF AlarmsNext, Frame, alarmVars, Raw!SettledNext, Raw!Next, Raw!Report,
         Raw!ledgerVars
<1>3. QED
  BY <1>1, <1>2, PTL DEF AlarmsSpec, Raw!SettledSpec

-----------------------------------------------------------------------------
(* Induction.                                                              *)

\* A set of naturals has a least one.
LEMMA LeastNatural ==
  ASSUME NEW T \in SUBSET Nat, T # {}
  PROVE  \E n \in T : \A m \in T : n <= m
<1> DEFINE R == OpToRel(<, Nat)
<1> HIDE DEF R
<1>1. IsWellFoundedOn(R, Nat)  BY NatLessThanWellFounded DEF R
<1>2. \E x \in T : \A y \in T : <<y, x>> \notin R  BY <1>1, WFMin
<1>3. \A x, y \in Nat : <<y, x>> \notin R => x <= y  BY DEF R, OpToRel
<1> QED  BY <1>2, <1>3

\* Of the subsets of a finite set with some property one contains no other.
LEMMA LeastSubset ==
  ASSUME NEW S, IsFiniteSet(S), NEW T, T \subseteq SUBSET S, T # {}
  PROVE  \E A \in T : \A B \in T : B \subseteq A => B = A
<1> DEFINE R == StrictSubsetOrdering(S)
<1> HIDE DEF R
<1>1. IsWellFoundedOn(R, SUBSET S)
  BY FS_StrictSubsetOrderingWellFounded, FS_FiniteSubsetsOfFinite DEF R
<1>2. PICK A \in T : \A B \in T : <<B, A>> \notin R  BY <1>1, WFMin
<1>3. \A B \in T : B \subseteq A => B = A
  BY <1>2 DEF R, StrictSubsetOrdering
<1> QED  BY <1>3

-----------------------------------------------------------------------------
(* The place of a number in a bounded set.                                 *)

UpTo(U, k) == {j \in U : j <= k}
Rank(U, k) == Cardinality(UpTo(U, k))

LEMMA RankType ==
  ASSUME NEW U \in SUBSET Nat, IsFiniteSet(U), NEW k \in Int
  PROVE  /\ IsFiniteSet(UpTo(U, k)) /\ Rank(U, k) \in Nat
         /\ Rank(U, k) <= Cardinality(U) /\ Cardinality(U) \in Nat
<1>1. UpTo(U, k) \in SUBSET U  BY DEF UpTo
<1> QED  BY <1>1, FS_Subset, FS_CardinalityType DEF Rank

LEMMA RankGrows ==
  ASSUME NEW U \in SUBSET Nat, IsFiniteSet(U), NEW i \in Int, NEW j \in U, i < j
  PROVE  Rank(U, i) < Rank(U, j)
<1>0. j \in Int  OBVIOUS
<1>1. IsFiniteSet(UpTo(U, j)) /\ Rank(U, i) \in Nat /\ Rank(U, j) \in Nat
  BY <1>0, RankType
<1>2. \A x \in U : x <= i => x <= j  BY <1>0
<1>3. UpTo(U, i) \in SUBSET UpTo(U, j) /\ j \in UpTo(U, j) /\ j \notin UpTo(U, i)
  <2>1. ASSUME NEW x \in UpTo(U, i) PROVE x \in UpTo(U, j)  BY <1>2 DEF UpTo
  <2>2. j \in UpTo(U, j)  BY <1>0 DEF UpTo
  <2>3. j \notin UpTo(U, i)  BY <1>0 DEF UpTo
  <2> QED  BY <2>1, <2>2, <2>3
<1>4. Rank(U, i) <= Rank(U, j) /\ Rank(U, i) # Rank(U, j)
  BY <1>1, <1>3, FS_Subset DEF Rank
<1> QED  BY <1>1, <1>4

LEMMA RankStarts ==
  ASSUME NEW U \in SUBSET Nat, IsFiniteSet(U), NEW i \in U
  PROVE  Rank(U, i) \in 1 .. Cardinality(U)
<1>0. i \in Int  OBVIOUS
<1>1. i \in UpTo(U, i)  BY DEF UpTo
<1>2. Rank(U, i) # 0  BY <1>0, <1>1, RankType, FS_EmptySet DEF Rank
<1> QED  BY <1>0, <1>2, RankType

LEMMA RankExists ==
  ASSUME NEW U \in SUBSET Nat, IsFiniteSet(U), NEW n \in 1 .. Cardinality(U),
         NEW b \in Nat, \A j \in U : j <= b
  PROVE  \E i \in U : Rank(U, i) = n
<1> DEFINE T == {k \in Nat : Rank(U, k) >= n}
<1>1. b \in T
  <2>1. UpTo(U, b) = U  BY DEF UpTo
  <2> QED  BY <2>1, RankType DEF Rank
<1>2. PICK k \in T : \A m \in T : k <= m
  <2> HIDE DEF T
  <2>1. T \in SUBSET Nat  BY DEF T
  <2> QED  BY <1>1, <2>1, LeastNatural
<1>3. k \in Nat /\ Rank(U, k) >= n  BY <1>2
<1>a. k \in Int /\ k - 1 \in Int /\ n \in Nat \ {0}
  <2>1. Cardinality(U) \in Nat  BY FS_CardinalityType
  <2> QED  BY <1>3, <2>1
<1>b. /\ Rank(U, k) \in Nat /\ Rank(U, k - 1) \in Nat
      /\ IsFiniteSet(UpTo(U, k - 1))
  BY <1>a, RankType
<1>4. Rank(U, k - 1) < n
  <2>1. CASE k = 0
    <3>0. \A j \in U : ~(j <= k - 1)  BY <2>1
    <3>1. UpTo(U, k - 1) = {}  BY <3>0 DEF UpTo
    <3>2. Rank(U, k - 1) = 0  BY <3>1, FS_EmptySet DEF Rank
    <3> QED  BY <1>a, <3>2
  <2>2. CASE k # 0
    <3>1. k - 1 \in Nat /\ ~(k <= k - 1)  BY <1>3, <2>2
    <3>2. k - 1 \notin T
      <4> HIDE DEF T
      <4> QED  BY <1>2, <3>1
    <3> QED  BY <1>a, <1>b, <3>1, <3>2
  <2> QED  BY <2>1, <2>2
<1>c. \A j \in U : j <= k <=> j <= k - 1 \/ j = k  BY <1>a
<1>5. k \in U
  <2>1. SUFFICES ASSUME k \notin U PROVE FALSE  OBVIOUS
  <2>2. \A j \in U : j <= k <=> j <= k - 1  BY <1>c, <2>1
  <2>3. UpTo(U, k) = UpTo(U, k - 1)  BY <2>2 DEF UpTo
  <2>4. Rank(U, k) = Rank(U, k - 1)  BY <2>3 DEF Rank
  <2> QED  BY <1>3, <1>4, <1>a, <1>b, <2>4
<1>6. UpTo(U, k) = UpTo(U, k - 1) \cup {k} /\ k \notin UpTo(U, k - 1)
  <2>1. k \notin UpTo(U, k - 1)  BY <1>a DEF UpTo
  <2>2. UpTo(U, k) = UpTo(U, k - 1) \cup {k}  BY <1>c, <1>5 DEF UpTo
  <2> QED  BY <2>1, <2>2
<1>7. Rank(U, k) = Rank(U, k - 1) + 1  BY <1>b, <1>6, FS_AddElement DEF Rank
<1>8. Rank(U, k) = n  BY <1>3, <1>4, <1>7, <1>a, <1>b
<1> QED  BY <1>5, <1>8

-----------------------------------------------------------------------------
(* The greedy matching.                                                    *)

APair == [overlap : Int, raw : Nat, track : Nat]

LEMMA BeforeOrders ==
  /\ \A p \in APair : ~Before(p, p)
  /\ \A p, q \in APair : p # q => Before(p, q) \/ Before(q, p)
  /\ \A p, q \in APair : Before(p, q) => ~Before(q, p)
  /\ \A p, q, r \in APair : Before(p, q) /\ Before(q, r) => Before(p, r)
BY DEF APair, Before

LEMMA BestExists ==
  ASSUME NEW S \in SUBSET APair, IsFiniteSet(S), S # {}
  PROVE  \E p \in S : \A q \in S \ {p} : Before(p, q)
<1> DEFINE HasBest(A) == \E p \in A : \A q \in A \ {p} : Before(p, q)
           T == {A \in SUBSET S : A # {} /\ ~HasBest(A)}
<1>1. SUFFICES ASSUME S \in T PROVE FALSE  OBVIOUS
<1>2. PICK A \in T : \A B \in T : B \subseteq A => B = A
  <2> HIDE DEF T
  <2>1. T \subseteq SUBSET S  BY DEF T
  <2> QED  BY <1>1, <2>1, LeastSubset
<1>3. PICK a \in A : TRUE  BY <1>2
<1>4. A \ {a} \notin T /\ A \ {a} \in SUBSET S  BY <1>2, <1>3
<1>5. A \ {a} # {}  BY <1>2, <1>3
<1>6. PICK p \in A \ {a} : \A q \in (A \ {a}) \ {p} : Before(p, q)  BY <1>4, <1>5
<1>7. A \subseteq APair /\ p # a /\ p \in APair /\ a \in APair  BY <1>2, <1>3, <1>6
<1>8. CASE Before(p, a)
  <2>1. HasBest(A)  BY <1>6, <1>8
  <2> QED  BY <1>2, <2>1
<1>9. CASE Before(a, p)
  <2>1. \A q \in A \ {a} : Before(a, q)  BY <1>6, <1>7, <1>9, BeforeOrders
  <2> QED  BY <1>2, <1>3, <2>1
<1> QED  BY <1>7, <1>8, <1>9, BeforeOrders

LEMMA GreedyExists ==
  ASSUME NEW S \in SUBSET APair, IsFiniteSet(S)
  PROVE  \E taken \in SUBSET S : IsGreedy(S, taken)
<1> DEFINE T == {A \in SUBSET S : ~\E taken \in SUBSET A : IsGreedy(A, taken)}
<1>1. SUFFICES ASSUME S \in T PROVE FALSE  OBVIOUS
<1>2. PICK A \in T : \A B \in T : B \subseteq A => B = A
  <2> HIDE DEF T
  <2>1. T \subseteq SUBSET S  BY DEF T
  <2> QED  BY <1>1, <2>1, LeastSubset
<1>3. A # {}
  <2>1. SUFFICES ASSUME A = {} PROVE FALSE  OBVIOUS
  <2>2. IsGreedy(A, {})  BY <2>1 DEF IsGreedy
  <2> QED  BY <1>2, <2>2
<1>4. A \in SUBSET APair /\ IsFiniteSet(A)  BY <1>2, FS_Subset
<1>5. PICK p \in A : \A q \in A \ {p} : Before(p, q)  BY <1>3, <1>4, BestExists
<1> DEFINE B == {q \in A : ~Clash(q, p)}
<1>6. p \notin B /\ B \in SUBSET A  BY <1>5 DEF Clash
<1>7. B \notin T /\ B \in SUBSET S  BY <1>2, <1>5, <1>6
<1>8. PICK taken \in SUBSET B : IsGreedy(B, taken)  BY <1>7
<1> DEFINE M == taken \cup {p}
<1>9. M \in SUBSET A  BY <1>6, <1>8
<1>10. ASSUME NEW r \in A
       PROVE  r \in M <=> \A q \in M : ~(Before(q, r) /\ Clash(q, r))
  <2>1. CASE r = p
    <3>1. ASSUME NEW q \in M PROVE ~Before(q, r)
      BY <1>4, <1>5, <1>9, <2>1, BeforeOrders
    <3> QED  BY <2>1, <3>1
  <2>2. CASE r # p /\ Clash(r, p)
    <3>1. r \notin M  BY <1>8, <2>2
    <3>2. Before(p, r) /\ Clash(p, r)  BY <1>5, <2>2 DEF Clash
    <3> QED  BY <3>1, <3>2
  <2>3. CASE ~Clash(r, p)
    <3>1. r \in B /\ r # p /\ ~Clash(p, r)  BY <1>6, <2>3 DEF Clash
    <3>2. r \in taken <=> \A q \in taken : ~(Before(q, r) /\ Clash(q, r))
      BY <1>8, <3>1 DEF IsGreedy
    <3> QED  BY <3>1, <3>2
  <2> QED  BY <2>1, <2>2, <2>3
<1>11. IsGreedy(A, M)  BY <1>10 DEF IsGreedy
<1> QED  BY <1>2, <1>9, <1>11

\* No raw box and no track is used twice, and what is left over has nothing in common.
LEMMA GreedyFacts ==
  ASSUME NEW S \in SUBSET APair, IsFiniteSet(S)
  PROVE  /\ Greedy(S) \in SUBSET S
         /\ \A p, q \in Greedy(S) : Clash(p, q) => p = q
         /\ \A p \in S : \E q \in Greedy(S) : Clash(p, q)
<1> DEFINE G == Greedy(S)
<1>1. G \in SUBSET S /\ IsGreedy(S, G)  BY GreedyExists DEF Greedy
<1> HIDE DEF G
<1>2. ASSUME NEW p \in G, NEW q \in G, Clash(p, q), p # q PROVE FALSE
  <2>1. p \in S /\ q \in S /\ p \in APair /\ q \in APair /\ Clash(q, p)
    BY <1>1, <1>2 DEF Clash
  <2>2. ~Before(p, q) /\ ~Before(q, p)  BY <1>1, <1>2, <2>1 DEF IsGreedy
  <2> QED  BY <1>2, <2>1, <2>2, BeforeOrders
<1>3. ASSUME NEW p \in S PROVE \E q \in G : Clash(p, q)
  BY <1>1 DEF IsGreedy, Clash
<1> QED  BY <1>1, <1>2, <1>3 DEF G
-----------------------------------------------------------------------------
(* The pairs of raw boxes and table.                                      *)

IsRaw(raw) == \E n \in 0 .. MaxRaw : raw \in [1 .. n -> Place]
IsBoxes(boxes) == /\ DOMAIN boxes \in SUBSET Nat /\ IsFiniteSet(DOMAIN boxes)
                  /\ \A t \in DOMAIN boxes : boxes[t] \in Place

LEMMA VehicleNumbers ==
  /\ NativeId \subseteq Nat /\ Place \subseteq Int
  /\ FirstSynthetic \in Nat /\ Reach \in Nat /\ MaxVehicleFrame \in Nat /\ MaxRaw \in Nat
  /\ VehicleTtl \in Nat \ {0}
BY VehicleAssumption

LEMMA RawFacts ==
  ASSUME NEW raw, IsRaw(raw)
  PROVE  /\ DOMAIN raw \in SUBSET Nat /\ IsFiniteSet(DOMAIN raw)
         /\ \A r \in DOMAIN raw : raw[r] \in Place
         /\ \A r \in DOMAIN raw : r <= MaxRaw
<1>1. PICK n \in 0 .. MaxRaw : raw \in [1 .. n -> Place]  BY DEF IsRaw
<1>2. n \in Nat /\ n <= MaxRaw  BY <1>1, VehicleNumbers
<1>3. DOMAIN raw = 1 .. n  BY <1>1
<1>4. IsFiniteSet(1 .. n)  BY <1>2, FS_Interval, 1 \in Int, n \in Int
<1>5. \A r \in 1 .. n : r \in Nat /\ r <= MaxRaw  BY <1>2, VehicleNumbers
<1> QED  BY <1>1, <1>3, <1>4, <1>5

LEMMA GapType ==
  ASSUME NEW a \in Int, NEW b \in Int
  PROVE  Gap(a, b) \in Nat
BY DEF Gap

LEMMA PairsFacts ==
  ASSUME NEW raw, IsRaw(raw), NEW boxes, IsBoxes(boxes)
  PROVE  /\ Pairs(raw, boxes) \in SUBSET APair
         /\ IsFiniteSet(Pairs(raw, boxes))
<1> DEFINE D == (DOMAIN raw) \X (DOMAIN boxes)
           Pr(r, t) == [overlap |-> Reach - Gap(raw[r], boxes[t]), raw |-> r, track |-> t]
           f == [x \in D |-> Pr(x[1], x[2])]
<1>1. IsFiniteSet(D)  BY RawFacts, FS_Product DEF IsBoxes
<1>2. \A r \in DOMAIN raw, t \in DOMAIN boxes : Pr(r, t) \in APair
  <2>1. TAKE r \in DOMAIN raw, t \in DOMAIN boxes
  <2>2. r \in Nat /\ t \in Nat /\ raw[r] \in Int /\ boxes[t] \in Int
    BY RawFacts, VehicleNumbers DEF IsBoxes
  <2>3. Gap(raw[r], boxes[t]) \in Nat  BY <2>2, GapType
  <2>4. Reach - Gap(raw[r], boxes[t]) \in Int  BY <2>3, VehicleNumbers
  <2> QED  BY <2>2, <2>4 DEF APair
<1>3. Pairs(raw, boxes) = {Pr(r, t) : r \in DOMAIN raw, t \in DOMAIN boxes}
  BY DEF Pairs
<1> HIDE DEF Pr
<1>4. f \in Surjection(D, Pairs(raw, boxes))
  <2>1. \A x \in D : f[x] \in Pairs(raw, boxes)
    <3>1. TAKE x \in D
    <3>2. x[1] \in DOMAIN raw /\ x[2] \in DOMAIN boxes  OBVIOUS
    <3>3. f[x] = Pr(x[1], x[2])  OBVIOUS
    <3> QED  BY <1>3, <3>2, <3>3
  <2>2. ASSUME NEW p \in Pairs(raw, boxes) PROVE \E x \in D : f[x] = p
    <3>1. PICK r \in DOMAIN raw, t \in DOMAIN boxes : p = Pr(r, t)  BY <1>3
    <3>2. <<r, t>> \in D  OBVIOUS
    <3>3. f[<<r, t>>] = Pr(r, t)  BY <3>2
    <3> QED  BY <3>1, <3>2, <3>3
  <2>3. f \in [D -> Pairs(raw, boxes)]  BY <2>1
  <2> HIDE DEF f
  <2> QED  BY <2>2, <2>3 DEF Surjection
<1>5. IsFiniteSet(Pairs(raw, boxes))
  <2> HIDE DEF f, D
  <2> QED  BY <1>1, <1>4, FS_Surjection
<1>6. \A p \in Pairs(raw, boxes) : p \in APair  BY <1>2, <1>3
<1> QED  BY <1>5, <1>6

LEMMA PairIs ==
  ASSUME NEW raw, NEW boxes, NEW p \in Overlapping(raw, boxes)
  PROVE  /\ p.raw \in DOMAIN raw /\ p.track \in DOMAIN boxes
         /\ p.overlap = Reach - Gap(raw[p.raw], boxes[p.track])
BY DEF Overlapping, Pairs

LEMMA PairExists ==
  ASSUME NEW raw, NEW boxes, NEW r \in DOMAIN raw, NEW t \in DOMAIN boxes,
         Reach - Gap(raw[r], boxes[t]) >= 0
  PROVE  \E p \in Overlapping(raw, boxes) : p.raw = r /\ p.track = t
<1> DEFINE p == [overlap |-> Reach - Gap(raw[r], boxes[t]), raw |-> r, track |-> t]
<1>1. p \in Pairs(raw, boxes)  BY DEF Pairs
<1>2. p \in Overlapping(raw, boxes)  BY <1>1 DEF Overlapping
<1> QED  BY <1>2

LEMMA OverlappingFacts ==
  ASSUME NEW raw, IsRaw(raw), NEW boxes, IsBoxes(boxes), NEW S \in SUBSET Overlapping(raw, boxes)
  PROVE  S \in SUBSET APair /\ IsFiniteSet(S)
<1>1. S \in SUBSET Pairs(raw, boxes)  BY DEF Overlapping
<1> QED  BY <1>1, PairsFacts, FS_Subset

-----------------------------------------------------------------------------
(* Synthetic ids.                                                          *)

Dead(table, i) == {j \in nextSynthetic .. i : j \notin DOMAIN table}

LEMMA NewIdFacts ==
  ASSUME NEW table, DOMAIN table \in SUBSET Nat, IsFiniteSet(DOMAIN table),
         nextSynthetic \in Nat, NEW n \in Nat \ {0}
  PROVE  /\ NewId(table, n) \in Nat /\ NewId(table, n) >= nextSynthetic
         /\ NewId(table, n) \notin DOMAIN table
         /\ Cardinality(Dead(table, NewId(table, n))) = n
<1> DEFINE D == DOMAIN table
           last == nextSynthetic + Cardinality(D) + n
           I == nextSynthetic .. last
           U == I \ D
<1>1. Cardinality(D) \in Nat  BY FS_CardinalityType
<1>2. last \in Nat /\ nextSynthetic <= last  BY <1>1
<1>3. IsFiniteSet(I) /\ Cardinality(I) = Cardinality(D) + n + 1
  <2>1. nextSynthetic \in Int /\ last \in Int /\ ~(nextSynthetic > last)  BY <1>2
  <2>2. IsFiniteSet(I) /\ Cardinality(I) = last - nextSynthetic + 1
    <3> HIDE DEF last
    <3> QED  BY <2>1, FS_Interval
  <2> QED  BY <1>1, <2>2
<1>4. IsFiniteSet(U) /\ Cardinality(U) = Cardinality(I) - Cardinality(I \cap D)
  <2> HIDE DEF I, D
  <2> QED  BY <1>3, FS_Difference
<1>5. Cardinality(I \cap D) \in Nat /\ Cardinality(I \cap D) <= Cardinality(D)
  <2>1. I \cap D \in SUBSET D  OBVIOUS
  <2> HIDE DEF I, D
  <2>2. IsFiniteSet(D)  BY DEF D
  <2> QED  BY <2>1, <2>2, FS_Subset, FS_CardinalityType
<1>6. n \in 1 .. Cardinality(U)
  <2> HIDE DEF I, D, U, last
  <2>1. Cardinality(U) >= n /\ Cardinality(U) \in Nat  BY <1>1, <1>3, <1>4, <1>5
  <2> QED  BY <2>1
<1>7. U \in SUBSET Nat /\ \A j \in U : j <= last  BY <1>2
<1>8. PICK i \in U : Rank(U, i) = n
  <2> HIDE DEF U, last
  <2> QED  BY <1>2, <1>4, <1>6, <1>7, RankExists
<1>9. UpTo(U, i) = Dead(table, i)
  <2>1. \A j : j \in U /\ j <= i <=> j \in nextSynthetic .. i /\ j \notin D  BY <1>2, <1>8
  <2> HIDE DEF U
  <2> QED  BY <2>1 DEF UpTo, Dead
<1>10. i \in I /\ i \notin DOMAIN table /\ Cardinality(Dead(table, i)) = n
  BY <1>8, <1>9 DEF Rank
<1>11. /\ NewId(table, n) \in I /\ NewId(table, n) \notin DOMAIN table
       /\ Cardinality(Dead(table, NewId(table, n))) = n
  <2>1. NewId(table, n) = CHOOSE x \in I : x \notin DOMAIN table /\ Cardinality(Dead(table, x)) = n
    BY DEF NewId, Dead
  <2> HIDE DEF I
  <2> QED  BY <1>10, <2>1
<1> QED  BY <1>2, <1>11

-----------------------------------------------------------------------------
(* One frame: the parts of MergeFrame.                                     *)

Aged(native) ==
  [t \in DOMAIN vehicleTracks \cup DOMAIN native |->
     IF t \in DOMAIN native THEN [box |-> native[t], age |-> 0]
     ELSE [vehicleTracks[t] EXCEPT !.age = @ + 1]]
Direct(native, raw) == Greedy(Overlapping(raw, native))
ActiveIds(native, raw) == ActiveVehicles(Aged(native), Used(Direct(native, raw)))
ActiveBoxes(native, raw) == [t \in ActiveIds(native, raw) |-> Aged(native)[t].box]
Left(native, raw) == DOMAIN raw \ MatchedRaw(Direct(native, raw))
Candidate(native, raw) ==
  {p \in Overlapping(raw, ActiveBoxes(native, raw)) : p.raw \in Left(native, raw)}
Linked(native, raw) == Greedy(Candidate(native, raw))
New(native, raw) == Left(native, raw) \ MatchedRaw(Linked(native, raw))
FreshId(native, raw, r) ==
  NewId(Aged(native), Cardinality({s \in New(native, raw) : s <= r}))
Fresh(native, raw) ==
  {[raw |-> r, track |-> FreshId(native, raw, r)] : r \in New(native, raw)}
IdOf(native, raw, r) ==
  (CHOOSE m \in Direct(native, raw) \cup Linked(native, raw) \cup Fresh(native, raw) :
     m.raw = r).track
After(native, raw) ==
  LET given == {IdOf(native, raw, r) : r \in DOMAIN raw}
  IN  [t \in DOMAIN Aged(native) \cup given |->
         IF t \in given
         THEN [box |-> raw[CHOOSE r \in DOMAIN raw : IdOf(native, raw, r) = t], age |-> 0]
         ELSE Aged(native)[t]]
Rows(native, raw) ==
  {[id |-> t, box |-> native[t], by |-> "native", row |-> 0] : t \in DOMAIN native}
    \cup {[id |-> m.track, box |-> raw[m.raw], by |-> "history", row |-> m.raw] :
            m \in Linked(native, raw)}
    \cup {[id |-> m.track, box |-> raw[m.raw], by |-> "new", row |-> m.raw] :
            m \in Fresh(native, raw)}

LEMMA FrameIs ==
  ASSUME NEW native, NEW raw, MergeFrame(native, raw)
  PROVE  /\ vehicleTracks' = Pruned(After(native, raw))
         /\ vehicleRows' = Rows(native, raw)
         /\ nextSynthetic' =
              IF New(native, raw) = {} THEN nextSynthetic
              ELSE NewId(Aged(native), Cardinality(New(native, raw))) + 1
BY DEF MergeFrame, Aged, Direct, ActiveIds, ActiveBoxes, Left, Candidate, Linked, New, FreshId,
       Fresh, IdOf, After, Rows

IsTracks(f) ==
  /\ DOMAIN f \in SUBSET Nat /\ IsFiniteSet(DOMAIN f)
  /\ \A t \in DOMAIN f : f[t] \in [box : Place, age : Nat]

VehicleInv ==
  /\ IsTracks(vehicleTracks)
  /\ nextSynthetic \in Nat
  /\ VehicleIdsAreDistinct

IsNative(native) == DOMAIN native \in SUBSET NativeId /\ IsBoxes(native)

LEMMA AgedFacts ==
  ASSUME VehicleInv, NEW native, IsNative(native)
  PROVE  /\ IsTracks(Aged(native))
         /\ DOMAIN Aged(native) = DOMAIN vehicleTracks \cup DOMAIN native
         /\ \A t \in DOMAIN native : Aged(native)[t] = [box |-> native[t], age |-> 0]
         /\ \A t \in DOMAIN vehicleTracks \ DOMAIN native :
              /\ Aged(native)[t].box = vehicleTracks[t].box
              /\ Aged(native)[t].age = vehicleTracks[t].age + 1
<1>1. DOMAIN Aged(native) = DOMAIN vehicleTracks \cup DOMAIN native  BY DEF Aged
<1>2. \A t \in DOMAIN native : Aged(native)[t] = [box |-> native[t], age |-> 0]  BY DEF Aged
<1>3. ASSUME NEW t \in DOMAIN vehicleTracks \ DOMAIN native
      PROVE  /\ Aged(native)[t] \in [box : Place, age : Nat]
             /\ Aged(native)[t].box = vehicleTracks[t].box
             /\ Aged(native)[t].age = vehicleTracks[t].age + 1
  <2>1. vehicleTracks[t] \in [box : Place, age : Nat]  BY DEF VehicleInv, IsTracks
  <2>2. Aged(native)[t] = [vehicleTracks[t] EXCEPT !.age = @ + 1]  BY DEF Aged
  <2> QED  BY <2>1, <2>2
<1>4. IsFiniteSet(DOMAIN Aged(native)) /\ DOMAIN Aged(native) \in SUBSET Nat
  <2>1. IsFiniteSet(DOMAIN vehicleTracks) /\ IsFiniteSet(DOMAIN native)
        /\ DOMAIN vehicleTracks \in SUBSET Nat /\ DOMAIN native \in SUBSET Nat
    BY DEF VehicleInv, IsTracks, IsNative, IsBoxes
  <2> QED  BY <1>1, <2>1, FS_Union
<1>5. \A t \in DOMAIN Aged(native) : Aged(native)[t] \in [box : Place, age : Nat]
  <2>1. \A t \in DOMAIN native : native[t] \in Place  BY DEF IsNative, IsBoxes
  <2> QED  BY <1>1, <1>2, <1>3, <2>1
<1> QED  BY <1>1, <1>2, <1>3, <1>4, <1>5 DEF IsTracks

LEMMA DirectFacts ==
  ASSUME NEW native, IsNative(native), NEW raw, IsRaw(raw)
  PROVE  /\ \A m \in Direct(native, raw) : m.raw \in DOMAIN raw /\ m.track \in DOMAIN native
         /\ \A r \in Left(native, raw), t \in DOMAIN native \ Used(Direct(native, raw)) :
              ~(Gap(raw[r], native[t]) <= Reach)
         /\ Left(native, raw) \in SUBSET DOMAIN raw
<1> DEFINE S == Overlapping(raw, native)
<1>1. S \in SUBSET APair /\ IsFiniteSet(S)  BY OverlappingFacts DEF IsNative
<1>2. /\ Direct(native, raw) \in SUBSET S
      /\ \A p \in S : \E q \in Direct(native, raw) : Clash(p, q)
  <2> HIDE DEF S
  <2>1. Direct(native, raw) = Greedy(S)  BY DEF Direct, S
  <2> QED  BY <1>1, <2>1, GreedyFacts
<1>3. ASSUME NEW m \in Direct(native, raw)
      PROVE  m.raw \in DOMAIN raw /\ m.track \in DOMAIN native
  BY <1>2, PairIs
<1>4. ASSUME NEW r \in Left(native, raw), NEW t \in DOMAIN native \ Used(Direct(native, raw)),
             Gap(raw[r], native[t]) <= Reach
      PROVE  FALSE
  <2>1. r \in DOMAIN raw /\ r \notin MatchedRaw(Direct(native, raw))  BY DEF Left
  <2>2. raw[r] \in Int /\ native[t] \in Int
    BY <2>1, RawFacts, VehicleNumbers DEF IsNative, IsBoxes
  <2>3. Gap(raw[r], native[t]) \in Nat  BY <2>2, GapType
  <2>4. Reach - Gap(raw[r], native[t]) >= 0  BY <1>4, <2>3, VehicleNumbers
  <2>5. PICK p \in S : p.raw = r /\ p.track = t  BY <2>1, <2>4, PairExists
  <2>6. PICK q \in Direct(native, raw) : Clash(p, q)
    <3> HIDE DEF S
    <3> QED  BY <1>2, <2>5
  <2>7. q.raw # r /\ q.track # t  BY <2>1, <2>6 DEF MatchedRaw, Used
  <2> QED  BY <2>5, <2>6, <2>7 DEF Clash
<1> QED  BY <1>3, <1>4 DEF Left

\* A raw box is linked to a track of an earlier frame only: the tracks of this frame that
\* it overlaps have a raw box already.
LEMMA LinkedFacts ==
  ASSUME VehicleInv, NEW native, IsNative(native), NEW raw, IsRaw(raw)
  PROVE  /\ \A m \in Linked(native, raw) :
              /\ m.raw \in Left(native, raw)
              /\ m.track \in DOMAIN vehicleTracks \ DOMAIN native
              /\ vehicleTracks[m.track].age < VehicleTtl
              /\ Gap(vehicleTracks[m.track].box, raw[m.raw]) <= Reach
         /\ \A p, q \in Linked(native, raw) : p.raw = q.raw \/ p.track = q.track => p = q
<1> DEFINE S == Candidate(native, raw)
           boxes == ActiveBoxes(native, raw)
<1>1. /\ ActiveIds(native, raw) \in SUBSET DOMAIN Aged(native)
      /\ \A t \in ActiveIds(native, raw) :
           t \notin Used(Direct(native, raw)) /\ Aged(native)[t].age <= VehicleTtl
  BY DEF ActiveIds, ActiveVehicles
<1>2. IsBoxes(boxes) /\ DOMAIN boxes = ActiveIds(native, raw)
  <2>1. DOMAIN boxes = ActiveIds(native, raw)
        /\ \A t \in ActiveIds(native, raw) : boxes[t] = Aged(native)[t].box
    BY DEF ActiveBoxes
  <2>2. IsTracks(Aged(native))  BY AgedFacts
  <2>3. IsFiniteSet(DOMAIN Aged(native)) /\ DOMAIN Aged(native) \in SUBSET Nat
        /\ \A t \in DOMAIN Aged(native) : Aged(native)[t].box \in Place
    BY <2>2 DEF IsTracks
  <2> HIDE DEF boxes
  <2>4. IsFiniteSet(DOMAIN boxes)  BY <1>1, <2>1, <2>3, FS_Subset
  <2> QED  BY <1>1, <2>1, <2>3, <2>4 DEF IsBoxes
<1>3. S \in SUBSET Overlapping(raw, boxes) /\ \A p \in S : p.raw \in Left(native, raw)
  BY DEF Candidate
<1>4. S \in SUBSET APair /\ IsFiniteSet(S)
  <2> HIDE DEF S, boxes
  <2> QED  BY <1>2, <1>3, OverlappingFacts
<1>5. /\ Linked(native, raw) \in SUBSET S
      /\ \A p, q \in Linked(native, raw) : Clash(p, q) => p = q
  <2>1. Linked(native, raw) = Greedy(S)  BY DEF Linked
  <2> HIDE DEF S
  <2> QED  BY <1>4, <2>1, GreedyFacts
<1>6. ASSUME NEW m \in Linked(native, raw)
      PROVE  /\ m.raw \in Left(native, raw)
             /\ m.track \in DOMAIN vehicleTracks \ DOMAIN native
             /\ vehicleTracks[m.track].age < VehicleTtl
             /\ Gap(vehicleTracks[m.track].box, raw[m.raw]) <= Reach
  <2> DEFINE t == m.track
             r == m.raw
  <2>1. m \in Overlapping(raw, boxes) /\ r \in Left(native, raw)  BY <1>3, <1>5
  <2>2. r \in DOMAIN raw /\ t \in ActiveIds(native, raw)
        /\ m.overlap = Reach - Gap(raw[r], boxes[t])
    BY <1>2, <2>1, PairIs
  <2>3. boxes[t] = Aged(native)[t].box  BY <2>2 DEF ActiveBoxes
  <2>4. t \in DOMAIN Aged(native) /\ Aged(native)[t] \in [box : Place, age : Nat]
    BY <1>1, <2>2, AgedFacts DEF IsTracks
  <2>5. raw[r] \in Int /\ Aged(native)[t].box \in Int
    BY <2>2, <2>4, RawFacts, VehicleNumbers
  <2>6. Gap(raw[r], Aged(native)[t].box) <= Reach
    <3>1. m.overlap >= 0  BY <2>1 DEF Overlapping
    <3>2. Gap(raw[r], Aged(native)[t].box) \in Nat  BY <2>5, GapType
    <3> QED  BY <2>2, <2>3, <3>1, <3>2, VehicleNumbers
  <2>7. t \notin DOMAIN native
    <3>1. SUFFICES ASSUME t \in DOMAIN native PROVE FALSE  OBVIOUS
    <3>0. Aged(native)[t] = [box |-> native[t], age |-> 0]  BY <3>1, AgedFacts
    <3>2. Aged(native)[t].box = native[t]  BY <3>0
    <3>3. t \in DOMAIN native \ Used(Direct(native, raw))  BY <1>1, <2>2, <3>1
    <3> QED  BY <2>1, <2>6, <3>2, <3>3, DirectFacts
  <2>8. t \in DOMAIN vehicleTracks  BY <2>4, <2>7, AgedFacts
  <2>9. Aged(native)[t].box = vehicleTracks[t].box /\ Aged(native)[t].age = vehicleTracks[t].age + 1
    BY <2>7, <2>8, AgedFacts
  <2>10. vehicleTracks[t].age \in Nat  BY <2>8 DEF VehicleInv, IsTracks
  <2>11. vehicleTracks[t].age < VehicleTtl
    <3>1. Aged(native)[t].age <= VehicleTtl  BY <1>1, <2>2
    <3> QED  BY <2>9, <2>10, <3>1, VehicleNumbers
  <2>12. Gap(vehicleTracks[t].box, raw[r]) = Gap(raw[r], vehicleTracks[t].box)
    BY <2>5, <2>9 DEF Gap
  <2> QED  BY <2>1, <2>6, <2>7, <2>8, <2>9, <2>11, <2>12
<1> QED  BY <1>5, <1>6 DEF Clash

\* A new id is above the last one, is not alive, and is given once.
LEMMA FreshFacts ==
  ASSUME VehicleInv, NEW native, IsNative(native), NEW raw, IsRaw(raw)
  PROVE  /\ New(native, raw) \in SUBSET DOMAIN raw
         /\ \A r \in New(native, raw) :
              /\ FreshId(native, raw, r) \in Nat
              /\ FreshId(native, raw, r) >= nextSynthetic
              /\ FreshId(native, raw, r) \notin DOMAIN Aged(native)
         /\ \A r, s \in New(native, raw) :
              FreshId(native, raw, r) = FreshId(native, raw, s) => r = s
         /\ New(native, raw) # {} =>
              NewId(Aged(native), Cardinality(New(native, raw))) \in Nat
<1> DEFINE N == New(native, raw)
           table == Aged(native)
<1>1. N \in SUBSET DOMAIN raw /\ N \in SUBSET Nat /\ IsFiniteSet(N)
  <2>1. N \in SUBSET DOMAIN raw  BY DEF New, Left
  <2> QED  BY <2>1, RawFacts, FS_Subset
<1>2. DOMAIN table \in SUBSET Nat /\ IsFiniteSet(DOMAIN table) /\ nextSynthetic \in Nat
  BY AgedFacts DEF IsTracks, VehicleInv
<1> HIDE DEF N, table
<1>3. ASSUME NEW r \in N
      PROVE  FreshId(native, raw, r) = NewId(table, Rank(N, r))
  BY DEF FreshId, Rank, UpTo, N, table
<1>4. ASSUME NEW r \in N PROVE Rank(N, r) \in Nat \ {0}
  BY <1>1, RankStarts
<1>5. ASSUME NEW r \in N
      PROVE  /\ FreshId(native, raw, r) \in Nat
             /\ FreshId(native, raw, r) >= nextSynthetic
             /\ FreshId(native, raw, r) \notin DOMAIN table
             /\ Cardinality(Dead(table, FreshId(native, raw, r))) = Rank(N, r)
  BY <1>2, <1>3, <1>4, NewIdFacts
<1>6. ASSUME NEW r \in N, NEW s \in N, FreshId(native, raw, r) = FreshId(native, raw, s)
      PROVE  r = s
  <2>1. Rank(N, r) = Rank(N, s)  BY <1>5, <1>6
  <2>2. r \in Int /\ s \in Int /\ Rank(N, r) \in Int  BY <1>1, <1>4
  <2>3. ~(r < s)  BY <1>1, <2>1, <2>2, RankGrows
  <2>4. ~(s < r)  BY <1>1, <2>1, <2>2, RankGrows
  <2> QED  BY <2>2, <2>3, <2>4
<1>7. N # {} => NewId(table, Cardinality(N)) \in Nat
  <2>1. SUFFICES ASSUME N # {} PROVE NewId(table, Cardinality(N)) \in Nat  OBVIOUS
  <2>2. Cardinality(N) \in Nat \ {0}  BY <1>1, <2>1, FS_CardinalityType, FS_EmptySet
  <2> QED  BY <1>2, <2>2, NewIdFacts
<1> QED  BY <1>1, <1>5, <1>6, <1>7 DEF N, table

\* The rows of a frame.
LEMMA RowsFacts ==
  ASSUME VehicleInv, NEW native, IsNative(native), NEW raw, IsRaw(raw)
  PROVE  /\ \A v, w \in Rows(native, raw) : v.id = w.id => v = w
         /\ \A v \in Rows(native, raw) :
              /\ v.by = "history" =>
                   /\ v.id \in DOMAIN vehicleTracks
                   /\ vehicleTracks[v.id].age < VehicleTtl
                   /\ Gap(vehicleTracks[v.id].box, v.box) <= Reach
              /\ v.by = "new" => v.id >= nextSynthetic /\ v.id \notin DOMAIN vehicleTracks
<1> DEFINE Native == {[id |-> t, box |-> native[t], by |-> "native", row |-> 0] : t \in DOMAIN native}
           History == {[id |-> m.track, box |-> raw[m.raw], by |-> "history", row |-> m.raw] :
                         m \in Linked(native, raw)}
           Newest == {[id |-> m.track, box |-> raw[m.raw], by |-> "new", row |-> m.raw] :
                        m \in Fresh(native, raw)}
<1>1. ASSUME NEW v \in Native
      PROVE  v.by = "native" /\ v.id \in DOMAIN native
  OBVIOUS
<1>1a. ASSUME NEW v \in Native, NEW w \in Native, v.id = w.id PROVE v = w
  <2>1. PICK t \in DOMAIN native : v = [id |-> t, box |-> native[t], by |-> "native", row |-> 0]
    OBVIOUS
  <2>2. PICK u \in DOMAIN native : w = [id |-> u, box |-> native[u], by |-> "native", row |-> 0]
    OBVIOUS
  <2>3. v.id = t /\ w.id = u  BY <2>1, <2>2
  <2>4. t = u  BY <2>3, <1>1a
  <2> QED  BY <2>1, <2>2, <2>4
<1>2. ASSUME NEW v \in History
      PROVE  /\ v.by = "history" /\ v.id \in DOMAIN vehicleTracks \ DOMAIN native
             /\ vehicleTracks[v.id].age < VehicleTtl
             /\ Gap(vehicleTracks[v.id].box, v.box) <= Reach
             /\ \E m \in Linked(native, raw) : 
                  v = [id |-> m.track, box |-> raw[m.raw], by |-> "history", row |-> m.raw]
  <2>1. PICK m \in Linked(native, raw) :
          v = [id |-> m.track, box |-> raw[m.raw], by |-> "history", row |-> m.raw]
    OBVIOUS
  <2>2. v.id = m.track /\ v.box = raw[m.raw] /\ v.by = "history"  BY <2>1
  <2> QED  BY <2>1, <2>2, LinkedFacts
<1>2a. ASSUME NEW v \in History, NEW w \in History, v.id = w.id PROVE v = w
  <2>1. PICK m \in Linked(native, raw) :
          v = [id |-> m.track, box |-> raw[m.raw], by |-> "history", row |-> m.raw]
    BY <1>2
  <2>2. PICK l \in Linked(native, raw) :
          w = [id |-> l.track, box |-> raw[l.raw], by |-> "history", row |-> l.raw]
    BY <1>2
  <2>3. v.id = m.track /\ w.id = l.track  BY <2>1, <2>2
  <2>4. m = l  BY <2>3, <1>2a, LinkedFacts
  <2> QED  BY <2>1, <2>2, <2>4
<1>3. ASSUME NEW v \in Newest
      PROVE  /\ v.by = "new" /\ v.id \notin DOMAIN vehicleTracks \cup DOMAIN native
             /\ v.id >= nextSynthetic
             /\ \E r \in New(native, raw) :
                  v = [id |-> FreshId(native, raw, r), box |-> raw[r], by |-> "new", row |-> r]
  <2>1. PICK m \in Fresh(native, raw) :
          v = [id |-> m.track, box |-> raw[m.raw], by |-> "new", row |-> m.raw]
    OBVIOUS
  <2>2. PICK r \in New(native, raw) : m = [raw |-> r, track |-> FreshId(native, raw, r)]
    BY <2>1 DEF Fresh
  <2>3. m.raw = r /\ m.track = FreshId(native, raw, r)  BY <2>2
  <2>4. v = [id |-> FreshId(native, raw, r), box |-> raw[r], by |-> "new", row |-> r]
    BY <2>1, <2>3
  <2>5. v.id = FreshId(native, raw, r) /\ v.by = "new"  BY <2>4
  <2>6. DOMAIN Aged(native) = DOMAIN vehicleTracks \cup DOMAIN native  BY AgedFacts
  <2> QED  BY <2>4, <2>5, <2>6, FreshFacts
<1>3a. ASSUME NEW v \in Newest, NEW w \in Newest, v.id = w.id PROVE v = w
  <2>1. PICK r \in New(native, raw) :
          v = [id |-> FreshId(native, raw, r), box |-> raw[r], by |-> "new", row |-> r]
    BY <1>3
  <2>2. PICK s \in New(native, raw) :
          w = [id |-> FreshId(native, raw, s), box |-> raw[s], by |-> "new", row |-> s]
    BY <1>3
  <2>3. v.id = FreshId(native, raw, r) /\ w.id = FreshId(native, raw, s)  BY <2>1, <2>2
  <2>4. r = s  BY <2>3, <1>3a, FreshFacts
  <2> QED  BY <2>1, <2>2, <2>4
<1>4. Rows(native, raw) = Native \cup History \cup Newest  BY DEF Rows
<1> HIDE DEF Native, History, Newest
<1>5. ASSUME NEW v \in Rows(native, raw), NEW w \in Rows(native, raw), v.id = w.id
      PROVE  v = w
  <2>1. v \in Native \cup History \cup Newest /\ w \in Native \cup History \cup Newest  BY <1>4
  <2>2. v \in Native <=> w \in Native  BY <2>1, <1>5, <1>1, <1>2, <1>3
  <2>3. v \in History <=> w \in History  BY <2>1, <1>5, <1>1, <1>2, <1>3
  <2> QED  BY <2>1, <2>2, <2>3, <1>5, <1>1a, <1>2a, <1>3a
<1>6. ASSUME NEW v \in Rows(native, raw)
      PROVE  /\ v.by = "history" =>
                  /\ v.id \in DOMAIN vehicleTracks
                  /\ vehicleTracks[v.id].age < VehicleTtl
                  /\ Gap(vehicleTracks[v.id].box, v.box) <= Reach
             /\ v.by = "new" => v.id >= nextSynthetic /\ v.id \notin DOMAIN vehicleTracks
  <2>1. CASE v \in Native  BY <2>1, <1>1
  <2>2. CASE v \in History  BY <2>2, <1>2
  <2>3. CASE v \in Newest  BY <2>3, <1>3
  <2> QED  BY <1>4, <2>1, <2>2, <2>3
<1> QED  BY <1>5, <1>6

\* Every raw box has an id.
LEMMA IdOfFacts ==
  ASSUME VehicleInv, NEW native, IsNative(native), NEW raw, IsRaw(raw), NEW r \in DOMAIN raw
  PROVE  IdOf(native, raw, r) \in Nat
<1> DEFINE M == Direct(native, raw) \cup Linked(native, raw) \cup Fresh(native, raw)
<1>1. \E m \in M : m.raw = r
  <2>1. CASE r \in MatchedRaw(Direct(native, raw))  BY <2>1 DEF MatchedRaw
  <2>2. CASE r \in MatchedRaw(Linked(native, raw))  BY <2>2 DEF MatchedRaw
  <2>3. CASE r \notin MatchedRaw(Direct(native, raw)) /\ r \notin MatchedRaw(Linked(native, raw))
    <3>1. r \in New(native, raw)  BY <2>3 DEF New, Left
    <3>2. [raw |-> r, track |-> FreshId(native, raw, r)] \in Fresh(native, raw)
      BY <3>1 DEF Fresh
    <3> QED  BY <3>2
  <2> QED  BY <2>1, <2>2, <2>3
<1>2. ASSUME NEW m \in M PROVE m.track \in Nat
  <2>1. CASE m \in Direct(native, raw)
    <3>1. m.track \in DOMAIN native  BY <2>1, DirectFacts
    <3> QED  BY <3>1 DEF IsNative, IsBoxes
  <2>2. CASE m \in Linked(native, raw)
    <3>1. m.track \in DOMAIN vehicleTracks  BY <2>2, LinkedFacts
    <3> QED  BY <3>1 DEF VehicleInv, IsTracks
  <2>3. CASE m \in Fresh(native, raw)
    <3>1. PICK s \in New(native, raw) : m = [raw |-> s, track |-> FreshId(native, raw, s)]
      BY <2>3 DEF Fresh
    <3>2. m.track = FreshId(native, raw, s)  BY <3>1
    <3> QED  BY <3>2, FreshFacts
  <2> QED  BY <2>1, <2>2, <2>3
<1>3. IdOf(native, raw, r) = (CHOOSE m \in M : m.raw = r).track  BY DEF IdOf
<1> HIDE DEF M
<1> QED  BY <1>1, <1>2, <1>3

LEMMA AfterFacts ==
  ASSUME VehicleInv, NEW native, IsNative(native), NEW raw, IsRaw(raw)
  PROVE  IsTracks(Pruned(After(native, raw)))
<1> DEFINE id == [r \in DOMAIN raw |-> IdOf(native, raw, r)]
           given == {IdOf(native, raw, r) : r \in DOMAIN raw}
           after == After(native, raw)
<1>1. given \in SUBSET Nat /\ IsFiniteSet(given)
  <2>1. given \in SUBSET Nat  BY IdOfFacts
  <2>2. id \in Surjection(DOMAIN raw, given)
    <3>1. id \in [DOMAIN raw -> given]  OBVIOUS
    <3>2. \A x \in given : \E r \in DOMAIN raw : id[r] = x  OBVIOUS
    <3> HIDE DEF id, given
    <3> QED  BY <3>1, <3>2 DEF Surjection
  <2>3. IsFiniteSet(given)
    <3> HIDE DEF id, given
    <3> QED  BY <2>2, RawFacts, FS_Surjection
  <2> QED  BY <2>1, <2>3
<1>2. DOMAIN after = DOMAIN Aged(native) \cup given  BY DEF After
<1>3. ASSUME NEW t \in DOMAIN after PROVE after[t] \in [box : Place, age : Nat]
  <2>1. CASE t \in given
    <3>1. after[t] =
            [box |-> raw[CHOOSE r \in DOMAIN raw : IdOf(native, raw, r) = t], age |-> 0]
      BY <1>2, <2>1 DEF After
    <3>2. (CHOOSE r \in DOMAIN raw : IdOf(native, raw, r) = t) \in DOMAIN raw  BY <2>1
    <3>3. \A r \in DOMAIN raw : raw[r] \in Place  BY RawFacts
    <3> QED  BY <3>1, <3>2, <3>3
  <2>2. CASE t \notin given
    <3>1. after[t] = Aged(native)[t] /\ t \in DOMAIN Aged(native)  BY <1>2, <2>2 DEF After
    <3> QED  BY <3>1, AgedFacts DEF IsTracks
  <2> QED  BY <2>1, <2>2
<1> HIDE DEF id, given, after
<1>4. DOMAIN after \in SUBSET Nat /\ IsFiniteSet(DOMAIN after)
  <2>1. DOMAIN Aged(native) \in SUBSET Nat /\ IsFiniteSet(DOMAIN Aged(native))
    BY AgedFacts DEF IsTracks
  <2> QED  BY <1>1, <1>2, <2>1, FS_Union
<1>5. /\ DOMAIN Pruned(after) \in SUBSET DOMAIN after
      /\ \A t \in DOMAIN Pruned(after) : Pruned(after)[t] = after[t]
  BY DEF Pruned, Restricted
<1>6. DOMAIN Pruned(after) \in SUBSET Nat /\ IsFiniteSet(DOMAIN Pruned(after))
  BY <1>4, <1>5, FS_Subset
<1>7. \A t \in DOMAIN Pruned(after) : Pruned(after)[t] \in [box : Place, age : Nat]
  BY <1>3, <1>5
<1> QED  BY <1>6, <1>7 DEF IsTracks, after

LEMMA VehicleStart == VehicleInit => VehicleInv
<1>1. SUFFICES ASSUME VehicleInit PROVE VehicleInv  OBVIOUS
<1>2. vehicleTracks = <<>> /\ nextSynthetic = FirstSynthetic /\ vehicleRows = {}
  BY <1>1 DEF VehicleInit
<1>3. DOMAIN vehicleTracks = {}  BY <1>2
<1>4. IsTracks(vehicleTracks)  BY <1>3, FS_EmptySet DEF IsTracks
<1> QED  BY <1>2, <1>4, VehicleNumbers DEF VehicleInv, VehicleIdsAreDistinct

LEMMA InputsFacts ==
  /\ \A raw \in RawBoxes : IsRaw(raw)
  /\ \A native \in NativeBoxes : IsNative(native)
<1>1. \A raw \in RawBoxes : IsRaw(raw)  BY DEF RawBoxes, IsRaw
<1>2. ASSUME NEW native \in NativeBoxes PROVE IsNative(native)
  <2>1. PICK ids \in {S \in SUBSET NativeId : IsFiniteSet(S)} : native \in [ids -> Place]
    BY DEF NativeBoxes
  <2>2. DOMAIN native = ids /\ \A t \in ids : native[t] \in Place  BY <2>1
  <2> QED  BY <2>1, <2>2, VehicleNumbers DEF IsNative, IsBoxes
<1> QED  BY <1>1, <1>2

\* The rows of a step that is a frame are those that the tables before it tell.
VehicleKeeps ==
  \A v \in vehicleRows' :
    /\ v.by = "history" /\ vehicleFrame' # vehicleFrame =>
         /\ v.id \in DOMAIN vehicleTracks
         /\ vehicleTracks[v.id].age < VehicleTtl
         /\ Gap(vehicleTracks[v.id].box, v.box) <= Reach
    /\ v.by = "new" /\ vehicleFrame' # vehicleFrame =>
         v.id >= nextSynthetic /\ v.id \notin DOMAIN vehicleTracks

LEMMA VehicleStep ==
  ASSUME VehicleInv, [VehicleNext]_vehicleVars
  PROVE  VehicleInv' /\ [VehicleKeeps]_vehicleVars
<1>1. ASSUME NEW native \in NativeBoxes, NEW raw \in RawBoxes, WriteVehicleFrame(native, raw)
      PROVE  VehicleInv' /\ VehicleKeeps
  <2>1. MergeFrame(native, raw)  BY <1>1 DEF WriteVehicleFrame
  <2>2. IsNative(native) /\ IsRaw(raw)  BY InputsFacts
  <2>3. /\ vehicleTracks' = Pruned(After(native, raw))
        /\ vehicleRows' = Rows(native, raw)
        /\ nextSynthetic' = IF New(native, raw) = {} THEN nextSynthetic
                            ELSE NewId(Aged(native), Cardinality(New(native, raw))) + 1
    BY <2>1, FrameIs
  <2>4. IsTracks(vehicleTracks')  BY <2>2, <2>3, AfterFacts
  <2>5. nextSynthetic' \in Nat
    <3>1. CASE New(native, raw) = {}  BY <2>3, <3>1 DEF VehicleInv
    <3>2. CASE New(native, raw) # {}
      <4>1. NewId(Aged(native), Cardinality(New(native, raw))) \in Nat
        BY <2>2, <3>2, FreshFacts
      <4> QED  BY <2>3, <3>2, <4>1
    <3> QED  BY <3>1, <3>2
  <2>6. VehicleIdsAreDistinct'  BY <2>2, <2>3, RowsFacts DEF VehicleIdsAreDistinct
  <2>7. VehicleKeeps  BY <2>2, <2>3, RowsFacts DEF VehicleKeeps
  <2>8. IsTracks(vehicleTracks)'  BY <2>4 DEF IsTracks
  <2> QED  BY <2>5, <2>6, <2>7, <2>8 DEF VehicleInv
<1>2. ASSUME NEW ok \in BOOLEAN, Finish(ok)
      PROVE  VehicleInv' /\ VehicleKeeps
  BY <1>2 DEF Finish, VehicleInv, IsTracks, VehicleIdsAreDistinct, VehicleKeeps
<1>3. CASE UNCHANGED vehicleVars
  BY <1>3 DEF vehicleVars, VehicleInv, IsTracks, VehicleIdsAreDistinct
<1> QED  BY <1>1, <1>2, <1>3 DEF VehicleNext

-----------------------------------------------------------------------------
(* The links of a fused frame.                                             *)

LEMMA AtMostOne ==
  ASSUME NEW S, \A x, y \in S : x = y
  PROVE  Cardinality(S) <= 1
<1>1. CASE S = {}  BY <1>1, FS_EmptySet
<1>2. CASE S # {}
  <2>1. PICK x \in S : TRUE  BY <1>2
  <2>2. S = {x}  BY <2>1
  <2>3. Cardinality(S) = 1  BY <2>2, FS_Singleton
  <2> QED  BY <2>3
<1> QED  BY <1>1, <1>2

LEMMA FusionNumbers ==
  MaxFrame \in Nat /\ MaxPts \in Nat /\ MaxBatch \in Nat /\ AmbiguityMargin \in Nat
BY FusionAssumption

LEMMA ScoreType ==
  ASSUME NEW scene \in Scenes, NEW p \in Pose, NEW t \in FusedTrack
  PROVE  scene.score[p][t] \in Nat
<1>1. scene.score \in [Pose -> [FusedTrack -> 0 .. 3]]  BY DEF Scenes
<1>2. scene.score[p][t] \in 0 .. 3  BY <1>1
<1> QED  BY <1>2

LEMMA PosesFacts ==
  ASSUME NEW scene \in Scenes, NEW t \in FusedTrack, NEW p \in PosesOf(scene, t)
  PROVE  /\ p \in Pose /\ t \notin scene.occluded
         /\ \A u \in FusedTrack \ ({t} \cup scene.occluded) :
              scene.score[p][u] > 0 => scene.score[p][t] > scene.score[p][u] + AmbiguityMargin
         /\ \A q \in Pose \ {p} : t \in Proposed(scene, q) =>
              \/ scene.score[q][t] < scene.score[p][t]
              \/ scene.score[q][t] = scene.score[p][t] /\ p < q
         /\ t \in Proposed(scene, p)
BY DEF PosesOf, Proposed, Candidates

LEMMA LinksHold == LinksAreSound
<1>1. ASSUME NEW scene \in Scenes, NEW p \in Pose
      PROVE  Cardinality({t \in FusedTrack : p \in PosesOf(scene, t)}) <= 1
  <2>1. ASSUME NEW t \in FusedTrack, NEW u \in FusedTrack, t # u,
               p \in PosesOf(scene, t), p \in PosesOf(scene, u)
        PROVE  FALSE
    <3>1. scene.score[p][t] \in Nat /\ scene.score[p][u] \in Nat  BY ScoreType
    <3>2. t \in Candidates(scene, p) /\ u \in Candidates(scene, p)
      BY <2>1, PosesFacts DEF Proposed
    <3>3. /\ t \notin scene.occluded /\ u \notin scene.occluded
          /\ scene.score[p][t] > 0 /\ scene.score[p][u] > 0
      BY <3>2 DEF Candidates
    <3>4. scene.score[p][t] > scene.score[p][u] + AmbiguityMargin
      BY <2>1, <3>3, PosesFacts
    <3>5. scene.score[p][u] > scene.score[p][t] + AmbiguityMargin
      BY <2>1, <3>3, PosesFacts
    <3> QED  BY <3>1, <3>4, <3>5, FusionNumbers
  <2> QED  BY <2>1, AtMostOne
<1>2. ASSUME NEW scene \in Scenes, NEW t \in FusedTrack
      PROVE  Cardinality(PosesOf(scene, t)) <= 1
  <2>1. ASSUME NEW p \in PosesOf(scene, t), NEW q \in PosesOf(scene, t), p # q
        PROVE  FALSE
    <3>1. p \in Pose /\ q \in Pose  BY PosesFacts
    <3>2. scene.score[p][t] \in Nat /\ scene.score[q][t] \in Nat  BY <3>1, ScoreType
    <3>3. \/ scene.score[q][t] < scene.score[p][t]
          \/ scene.score[q][t] = scene.score[p][t] /\ p < q
      BY <2>1, <3>1, PosesFacts
    <3>4. \/ scene.score[p][t] < scene.score[q][t]
          \/ scene.score[p][t] = scene.score[q][t] /\ q < p
      BY <2>1, <3>1, PosesFacts
    <3>5. p \in Nat /\ q \in Nat  BY <3>1 DEF Pose
    <3> QED  BY <3>2, <3>3, <3>4, <3>5
  <2> QED  BY <2>1, AtMostOne
<1>3. ASSUME NEW scene \in Scenes, NEW t \in FusedTrack, NEW p \in PosesOf(scene, t),
             NEW u \in FusedTrack \ ({t} \cup scene.occluded), scene.score[p][u] > 0
      PROVE  scene.score[p][u] + AmbiguityMargin < scene.score[p][t]
  <2>1. p \in Pose /\ scene.score[p][t] > scene.score[p][u] + AmbiguityMargin
    BY <1>3, PosesFacts
  <2>2. scene.score[p][t] \in Nat /\ scene.score[p][u] \in Nat  BY <2>1, ScoreType
  <2> QED  BY <2>1, <2>2, FusionNumbers
<1>4. ASSUME NEW scene \in Scenes, NEW t \in FusedTrack
      PROVE  /\ t \in scene.occluded => PosesOf(scene, t) = {}
             /\ EquipmentOf(scene, t).evidence <=> EquipmentOf(scene, t).status = "matched"
  <2>1. t \in scene.occluded => PosesOf(scene, t) = {}  BY PosesFacts
  <2>2. EquipmentOf(scene, t).evidence <=> EquipmentOf(scene, t).status = "matched"
    BY DEF EquipmentOf
  <2> QED  BY <2>1, <2>2
<1> QED  BY <1>1, <1>2, <1>3, <1>4 DEF LinksAreSound

-----------------------------------------------------------------------------
(* The engine of a batch.                                                  *)

Marks == [Source -> [frame : Nat, pts : Nat]]
IsBatch(batch, n) == n \in Nat /\ batch \in [1 .. n -> FrameInputs]

\* The engines before and after the frames of the first n frames of a batch.
IsEngine(batch, n, f) ==
  f = [m \in 0 .. n |-> IF m = 0 THEN watermark ELSE Processed(f[m - 1], batch[m])]

LEMMA EngineExists ==
  ASSUME NEW batch, NEW n \in Nat
  PROVE  \E f : IsEngine(batch, n, f)
<1> DEFINE T == {k \in Nat : ~\E f : IsEngine(batch, k, f)}
<1>1. SUFFICES ASSUME n \in T PROVE FALSE  OBVIOUS
<1>2. PICK k \in T : \A m \in T : k <= m
  <2> HIDE DEF T
  <2>1. T \in SUBSET Nat  BY DEF T
  <2> QED  BY <1>1, <2>1, LeastNatural
<1>3. k # 0
  <2>1. IsEngine(batch, 0, [m \in 0 .. 0 |-> watermark])  BY DEF IsEngine
  <2> QED  BY <1>2, <2>1
<1>4. k - 1 \in Nat /\ ~(k <= k - 1)  BY <1>2, <1>3
<1>5. k - 1 \notin T
  <2> HIDE DEF T
  <2> QED  BY <1>2, <1>4
<1>6. PICK f : IsEngine(batch, k - 1, f)  BY <1>4, <1>5
<1> DEFINE g == [m \in 0 .. k |-> IF m = k THEN Processed(f[k - 1], batch[k]) ELSE f[m]]
<1>7. \A m \in 0 .. (k - 1) :
        f[m] = IF m = 0 THEN watermark ELSE Processed(f[m - 1], batch[m])
  BY <1>6 DEF IsEngine
<1>8. ASSUME NEW m \in 0 .. k
      PROVE  g[m] = IF m = 0 THEN watermark ELSE Processed(g[m - 1], batch[m])
  <2>1. CASE m = k
    <3>1. k - 1 \in 0 .. k /\ k - 1 # k  BY <1>4
    <3>2. g[m] = Processed(f[k - 1], batch[k]) /\ g[k - 1] = f[k - 1]  BY <2>1, <3>1
    <3> QED  BY <1>3, <2>1, <3>2
  <2>2. CASE m # k
    <3>1. m \in 0 .. (k - 1) /\ g[m] = f[m]  BY <1>4, <2>2
    <3>2. m # 0 => m - 1 \in 0 .. k /\ m - 1 # k  BY <1>4, <3>1
    <3>3. m # 0 => g[m - 1] = f[m - 1]  BY <3>2
    <3> HIDE DEF g
    <3> QED  BY <1>7, <3>1, <3>3
  <2> QED  BY <2>1, <2>2
<1>9. IsEngine(batch, k, g)
  <2>1. g = [m \in 0 .. k |-> g[m]]  OBVIOUS
  <2> HIDE DEF g
  <2> QED  BY <1>8, <2>1 DEF IsEngine
<1> QED  BY <1>2, <1>9

LEMMA EngineFacts ==
  ASSUME NEW batch, NEW n, IsBatch(batch, n)
  PROVE  /\ Len(batch) = n /\ DOMAIN batch = 1 .. n
         /\ Engine(batch)[0] = watermark
         /\ \A m \in 1 .. n : Engine(batch)[m] = Processed(Engine(batch)[m - 1], batch[m])
<1>1. n \in Nat /\ DOMAIN batch = 1 .. n /\ Len(batch) = n
  BY DEF IsBatch
<1>2. Engine(batch) = CHOOSE f : IsEngine(batch, n, f)
  BY <1>1 DEF Engine, IsEngine
<1>3. IsEngine(batch, n, Engine(batch))  BY <1>1, <1>2, EngineExists
<1>4. \A m \in 0 .. n : Engine(batch)[m] =
        IF m = 0 THEN watermark ELSE Processed(Engine(batch)[m - 1], batch[m])
  BY <1>3 DEF IsEngine
<1>5. 0 \in 0 .. n /\ \A m \in 1 .. n : m \in 0 .. n /\ m # 0  BY <1>1
<1> QED  BY <1>1, <1>4, <1>5

MarkOf(input) == [frame |-> input.frame, pts |-> input.pts]
IsOk(batch, i) == FrameStatus(Engine(batch)[i - 1], batch[i]) = "ok"
Ok(batch) == {i \in DOMAIN batch : IsOk(batch, i)}

LEMMA InputFacts ==
  ASSUME NEW input \in FrameInputs
  PROVE  input.source \in Source /\ input.frame \in Nat /\ input.pts \in Nat
         /\ input.frame > 0 /\ input.pts > 0
BY FusionNumbers DEF FrameInputs

\* What one frame does to the watermarks.
LEMMA ProcessedFacts ==
  ASSUME NEW marks \in Marks, NEW input \in FrameInputs
  PROVE  /\ Processed(marks, input) \in Marks
         /\ FrameStatus(marks, input) # "ok" => Processed(marks, input) = marks
         /\ FrameStatus(marks, input) = "ok" =>
              /\ Processed(marks, input)[input.source] = MarkOf(input)
              /\ Later(input, marks[input.source])
              /\ \A s \in Source \ {input.source} : Processed(marks, input)[s] = marks[s]
<1> DEFINE s == input.source
<1>1. s \in Source /\ input.frame \in Nat /\ input.pts \in Nat /\ input.frame > 0 /\ input.pts > 0
  BY InputFacts
<1>2. marks[s] \in [frame : Nat, pts : Nat]  BY <1>1 DEF Marks
<1>3. CASE FrameStatus(marks, input) # "ok"  BY <1>3 DEF Processed
<1>4. CASE FrameStatus(marks, input) = "ok"
  <2>1. Processed(marks, input) = [marks EXCEPT ![s] = MarkOf(input)]
    BY <1>4 DEF Processed, MarkOf
  <2>2. MarkOf(input) \in [frame : Nat, pts : Nat]  BY <1>1 DEF MarkOf
  <2>3. Processed(marks, input) \in Marks  BY <2>1, <2>2 DEF Marks
  <2>4. Processed(marks, input)[s] = MarkOf(input)
        /\ \A x \in Source \ {s} : Processed(marks, input)[x] = marks[x]
    BY <1>1, <2>1 DEF Marks
  <2>5. ~IsStale(marks, input)  BY <1>4 DEF FrameStatus
  <2>6. Later(input, marks[s])
    <3>1. CASE marks[s] = Unseen  BY <1>1, <3>1 DEF Later, Unseen
    <3>2. CASE marks[s] # Unseen  BY <1>1, <1>2, <2>5, <3>2 DEF IsStale, Later
    <3> QED  BY <3>1, <3>2
  <2> QED  BY <1>4, <2>3, <2>4, <2>6
<1> QED  BY <1>3, <1>4

LEMMA EngineType ==
  ASSUME watermark \in Marks, NEW batch, NEW n, IsBatch(batch, n), NEW m \in 0 .. n
  PROVE  Engine(batch)[m] \in Marks
<1> DEFINE E == Engine(batch)
           T == {k \in 0 .. n : E[k] \notin Marks}
<1>1. SUFFICES ASSUME m \in T PROVE FALSE  OBVIOUS
<1>2. n \in Nat  BY DEF IsBatch
<1>3. PICK k \in T : \A j \in T : k <= j
  <2>1. T \in SUBSET Nat  BY <1>2
  <2> HIDE DEF T
  <2> QED  BY <1>1, <2>1, LeastNatural
<1>4. k \in 0 .. n /\ E[k] \notin Marks  BY <1>3
<1>5. k # 0  BY <1>4, EngineFacts
<1>6. k \in 1 .. n /\ k - 1 \in 0 .. n /\ ~(k <= k - 1)  BY <1>2, <1>4, <1>5
<1>7. k - 1 \notin T
  <2> HIDE DEF T
  <2> QED  BY <1>3, <1>6
<1>8. E[k - 1] \in Marks  BY <1>6, <1>7
<1>9. batch[k] \in FrameInputs  BY <1>6 DEF IsBatch
<1>10. E[k] = Processed(E[k - 1], batch[k])  BY <1>6, EngineFacts
<1> QED  BY <1>4, <1>8, <1>9, <1>10, ProcessedFacts

\* Frame m of a batch.
LEMMA EngineStep ==
  ASSUME watermark \in Marks, NEW batch, NEW n, IsBatch(batch, n), NEW m \in 1 .. n,
         NEW s \in Source
  PROVE  /\ batch[m] \in FrameInputs
         /\ Engine(batch)[m - 1] \in Marks /\ Engine(batch)[m] \in Marks
         /\ ~(IsOk(batch, m) /\ batch[m].source = s) =>
              Engine(batch)[m][s] = Engine(batch)[m - 1][s]
         /\ IsOk(batch, m) /\ batch[m].source = s =>
              /\ Engine(batch)[m][s] = MarkOf(batch[m])
              /\ Later(batch[m], Engine(batch)[m - 1][s])
<1>1. n \in Nat  BY DEF IsBatch
<1>2. batch[m] \in FrameInputs  BY DEF IsBatch
<1>3. m - 1 \in 0 .. n /\ m \in 0 .. n  BY <1>1
<1>4. Engine(batch)[m - 1] \in Marks /\ Engine(batch)[m] \in Marks  BY <1>3, EngineType
<1>5. Engine(batch)[m] = Processed(Engine(batch)[m - 1], batch[m])  BY EngineFacts
<1> QED  BY <1>2, <1>4, <1>5, ProcessedFacts DEF IsOk

LEMMA LaterFacts ==
  /\ \A a, b, c : (/\ a.frame \in Nat /\ b.frame \in Nat /\ c.frame \in Nat
                   /\ a.pts \in Nat /\ b.pts \in Nat /\ c.pts \in Nat
                   /\ Later(a, b) /\ Later(b, c)) => Later(a, c)
  /\ \A a, b : (/\ a.frame \in Nat /\ b.frame \in Nat
                /\ Later(a, b)) => ~Later(b, a)
BY DEF Later

\* The watermark of a source only grows within a batch.
LEMMA EngineGrows ==
  ASSUME watermark \in Marks, NEW batch, NEW n, IsBatch(batch, n), NEW s \in Source,
         NEW i \in 0 .. n, NEW m \in i .. n
  PROVE  \/ Engine(batch)[m][s] = Engine(batch)[i][s]
         \/ Later(Engine(batch)[m][s], Engine(batch)[i][s])
<1> DEFINE E == Engine(batch)
           P(k) == E[k][s] = E[i][s] \/ Later(E[k][s], E[i][s])
           T == {k \in i .. n : ~P(k)}
<1>1. SUFFICES ASSUME m \in T PROVE FALSE  OBVIOUS
<1>2. n \in Nat  BY DEF IsBatch
<1>3. PICK k \in T : \A j \in T : k <= j
  <2>1. T \in SUBSET Nat  BY <1>2
  <2> HIDE DEF T
  <2> QED  BY <1>1, <2>1, LeastNatural
<1>4. k \in i .. n /\ ~P(k)  BY <1>3
<1>5. k # i  BY <1>4
<1>6. k \in 1 .. n /\ k - 1 \in i .. n /\ ~(k <= k - 1) /\ k \in 0 .. n /\ k - 1 \in 0 .. n
  BY <1>2, <1>4, <1>5
<1>7. k - 1 \notin T
  <2> HIDE DEF T
  <2> QED  BY <1>3, <1>6
<1>8. P(k - 1)  BY <1>6, <1>7
<1>9. \A j \in 0 .. n : E[j][s] \in [frame : Nat, pts : Nat]
  BY EngineType DEF Marks
<1>10. E[k][s] = E[k - 1][s] \/ Later(E[k][s], E[k - 1][s])
  <2>1. CASE ~(IsOk(batch, k) /\ batch[k].source = s)  BY <1>6, <2>1, EngineStep
  <2>2. CASE IsOk(batch, k) /\ batch[k].source = s
    <3>1. E[k][s] = MarkOf(batch[k]) /\ Later(batch[k], E[k - 1][s])
      BY <1>6, <2>2, EngineStep
    <3> QED  BY <3>1 DEF Later, MarkOf
  <2> QED  BY <2>1, <2>2
<1>11. P(k)
  <2>1. E[k][s] \in [frame : Nat, pts : Nat] /\ E[k - 1][s] \in [frame : Nat, pts : Nat]
        /\ E[i][s] \in [frame : Nat, pts : Nat]
    BY <1>6, <1>9
  <2> HIDE DEF E
  <2> QED  BY <1>8, <1>10, <2>1, LaterFacts
<1> QED  BY <1>4, <1>11

\* A watermark that moved is that of a frame that is ok.
LEMMA EngineMoves ==
  ASSUME watermark \in Marks, NEW batch, NEW n, IsBatch(batch, n), NEW s \in Source,
         NEW m \in 0 .. n, Engine(batch)[m][s] # watermark[s]
  PROVE  \E x \in Ok(batch) : batch[x].source = s /\ Engine(batch)[m][s] = MarkOf(batch[x])
<1> DEFINE E == Engine(batch)
           P(k) == E[k][s] # watermark[s] =>
                     \E x \in Ok(batch) : batch[x].source = s /\ E[k][s] = MarkOf(batch[x])
           T == {k \in 0 .. n : ~P(k)}
<1>1. SUFFICES ASSUME m \in T PROVE FALSE  OBVIOUS
<1>2. n \in Nat  BY DEF IsBatch
<1>3. PICK k \in T : \A j \in T : k <= j
  <2>1. T \in SUBSET Nat  BY <1>2
  <2> HIDE DEF T
  <2> QED  BY <1>1, <2>1, LeastNatural
<1>4. k \in 0 .. n /\ ~P(k)  BY <1>3
<1>5. k # 0  BY <1>4, EngineFacts
<1>6. k \in 1 .. n /\ k - 1 \in 0 .. n /\ ~(k <= k - 1)  BY <1>2, <1>4, <1>5
<1>7. k - 1 \notin T
  <2> HIDE DEF T
  <2> QED  BY <1>3, <1>6
<1>8. P(k - 1)  BY <1>6, <1>7
<1>9. CASE ~(IsOk(batch, k) /\ batch[k].source = s)
  <2>1. E[k][s] = E[k - 1][s]  BY <1>6, <1>9, EngineStep
  <2> QED  BY <1>4, <1>8, <2>1
<1>10. CASE IsOk(batch, k) /\ batch[k].source = s
  <2>1. E[k][s] = MarkOf(batch[k])  BY <1>6, <1>10, EngineStep
  <2>2. k \in Ok(batch)  BY <1>6, <1>10, EngineFacts DEF Ok
  <2> QED  BY <1>4, <1>10, <2>1, <2>2
<1> QED  BY <1>9, <1>10

-----------------------------------------------------------------------------
(* What is sent of a batch.                                                *)

OkIndex(batch, k) == CHOOSE i \in Ok(batch) : Rank(Ok(batch), i) = k

LEMMA OkFacts ==
  ASSUME NEW batch, NEW n, IsBatch(batch, n)
  PROVE  /\ Ok(batch) \in SUBSET (1 .. n) /\ Ok(batch) \in SUBSET Nat
         /\ IsFiniteSet(Ok(batch)) /\ Cardinality(Ok(batch)) \in Nat
         /\ \A k \in 1 .. Cardinality(Ok(batch)) :
              OkIndex(batch, k) \in Ok(batch) /\ Rank(Ok(batch), OkIndex(batch, k)) = k
         /\ DOMAIN OkFrames(batch) = 1 .. Cardinality(Ok(batch))
         /\ \A k \in 1 .. Cardinality(Ok(batch)) : OkFrames(batch)[k] = batch[OkIndex(batch, k)]
<1> DEFINE U == Ok(batch)
<1>1. n \in Nat  BY DEF IsBatch
<1>2. U \in SUBSET (1 .. n)  BY EngineFacts DEF Ok
<1>3. U \in SUBSET Nat /\ (\A j \in U : j <= n)  BY <1>1, <1>2
<1>4. IsFiniteSet(U)
  <2>1. IsFiniteSet(1 .. n)  BY <1>1, FS_Interval, 1 \in Int, n \in Int
  <2> HIDE DEF U
  <2> QED  BY <1>2, <2>1, FS_Subset
<1>5. Cardinality(U) \in Nat  BY <1>4, FS_CardinalityType
<1>6. OkFrames(batch) = [k \in 1 .. Cardinality(U) |-> batch[OkIndex(batch, k)]]
  BY DEF OkFrames, Ok, IsOk, OkIndex, Rank, UpTo
<1> HIDE DEF U
<1>7. ASSUME NEW k \in 1 .. Cardinality(U)
      PROVE  OkIndex(batch, k) \in U /\ Rank(U, OkIndex(batch, k)) = k
  <2>1. \E i \in U : Rank(U, i) = k  BY <1>1, <1>3, <1>4, RankExists
  <2> QED  BY <2>1 DEF OkIndex, U
<1> QED  BY <1>2, <1>3, <1>4, <1>5, <1>6, <1>7 DEF U

LEMMA OkInOrder ==
  ASSUME NEW batch, NEW n, IsBatch(batch, n),
         NEW k \in 1 .. Cardinality(Ok(batch)), NEW l \in 1 .. Cardinality(Ok(batch)), k < l
  PROVE  OkIndex(batch, k) < OkIndex(batch, l)
<1> DEFINE U == Ok(batch)
           i == OkIndex(batch, k)
           j == OkIndex(batch, l)
<1>1. i \in U /\ j \in U /\ Rank(U, i) = k /\ Rank(U, j) = l  BY OkFacts
<1>2. i \in Int /\ j \in Int /\ k \in Int /\ l \in Int  BY <1>1, OkFacts
<1>3. U \in SUBSET Nat /\ IsFiniteSet(U)  BY OkFacts
<1> HIDE DEF U, i, j
<1>4. ~(j < i)
  <2>1. SUFFICES ASSUME j < i PROVE FALSE  OBVIOUS
  <2>2. Rank(U, j) < Rank(U, i)  BY <1>1, <1>2, <1>3, <2>1, RankGrows
  <2> QED  BY <1>1, <1>2, <2>2
<1>5. i # j  BY <1>1, <1>2
<1> QED  BY <1>2, <1>4, <1>5 DEF i, j

SentFollows ==
  LET of(s) == {i \in DOMAIN sent' : sent'[i].source = s}
  IN  \A s \in Source :
        /\ \A i \in of(s) : Later(sent'[i], watermark[s]) /\ ~Later(sent'[i], watermark'[s])
        /\ \A i, j \in of(s) : i < j => Later(sent'[j], sent'[i])
        /\ watermark'[s] # watermark[s] => \E i \in of(s) :
             watermark'[s] = [frame |-> sent'[i].frame, pts |-> sent'[i].pts]

FusionInv == watermark \in Marks

LEMMA CommitHolds ==
  ASSUME FusionInv, NEW batch, NEW n, IsBatch(batch, n), Commit(batch)
  PROVE  FusionInv' /\ SentFollows
<1> DEFINE E == Engine(batch)
           U == Ok(batch)
           ix(k) == OkIndex(batch, k)
<1>1. n \in Nat /\ watermark \in Marks  BY DEF IsBatch, FusionInv
<1>2. watermark' = E[n] /\ sent' = OkFrames(batch)  BY EngineFacts DEF Commit, EngineAfter
<1>3. FusionInv'
  <2>1. n \in 0 .. n  BY <1>1
  <2> QED  BY <1>1, <1>2, <2>1, EngineType DEF FusionInv
<1>4. DOMAIN sent' = 1 .. Cardinality(U) /\ Cardinality(U) \in Nat
  BY <1>2, OkFacts
<1>5. ASSUME NEW k \in 1 .. Cardinality(U)
      PROVE  /\ ix(k) \in 1 .. n /\ ix(k) \in U /\ IsOk(batch, ix(k))
             /\ sent'[k] = batch[ix(k)]
  BY <1>2, OkFacts DEF Ok
<1>6. \A m \in 0 .. n, s \in Source : E[m][s] \in [frame : Nat, pts : Nat]
  BY <1>1, EngineType DEF Marks
\* A sent frame of s, the engine before it and the one after it.
<1>7. ASSUME NEW s \in Source, NEW k \in 1 .. Cardinality(U), sent'[k].source = s
      PROVE  /\ batch[ix(k)] \in FrameInputs
             /\ Later(batch[ix(k)], E[ix(k) - 1][s])
             /\ E[ix(k)][s] = MarkOf(batch[ix(k)])
             /\ ix(k) - 1 \in 0 .. n /\ ix(k) \in 0 .. n
  <2>1. ix(k) \in 1 .. n /\ IsOk(batch, ix(k)) /\ batch[ix(k)].source = s  BY <1>5, <1>7
  <2>2. ix(k) - 1 \in 0 .. n /\ ix(k) \in 0 .. n  BY <1>1, <2>1
  <2> HIDE DEF ix, E
  <2> QED  BY <1>1, <2>1, <2>2, EngineStep DEF E
<1>8. ASSUME NEW s \in Source, NEW k \in 1 .. Cardinality(U), sent'[k].source = s
      PROVE  Later(sent'[k], watermark[s]) /\ ~Later(sent'[k], watermark'[s])
  <2> DEFINE x == ix(k)
             input == batch[x]
  <2>1. /\ input \in FrameInputs /\ Later(input, E[x - 1][s]) /\ E[x][s] = MarkOf(input)
        /\ x - 1 \in 0 .. n /\ x \in 0 .. n /\ sent'[k] = input
    BY <1>5, <1>7, <1>8
  <2>2. input.frame \in Nat /\ input.pts \in Nat  BY <2>1, InputFacts
  <2> HIDE DEF input, x, E
  <2>3. E[0][s] = watermark[s] /\ E[n][s] = watermark'[s]  BY <1>2, EngineFacts DEF E
  <2>4. 0 \in 0 .. n /\ x - 1 \in 0 .. n /\ n \in x .. n /\ n \in 0 .. n  BY <1>1, <2>1
  <2>5. E[0][s] \in [frame : Nat, pts : Nat] /\ E[n][s] \in [frame : Nat, pts : Nat]
        /\ E[x - 1][s] \in [frame : Nat, pts : Nat] /\ E[x][s] \in [frame : Nat, pts : Nat]
    BY <1>6, <2>1, <2>4
  <2>6. Later(input, E[0][s])
    <3>1. E[x - 1][s] = E[0][s] \/ Later(E[x - 1][s], E[0][s])
      BY <1>1, <2>4, EngineGrows DEF E
    <3> QED  BY <2>1, <2>2, <2>5, <3>1, LaterFacts
  <2>7. ~Later(input, E[n][s])
    <3>1. E[n][s] = E[x][s] \/ Later(E[n][s], E[x][s])
      BY <1>1, <2>1, <2>4, EngineGrows DEF E
    <3>2. E[x][s].frame = input.frame /\ E[x][s].pts = input.pts  BY <2>1 DEF MarkOf
    <3>3. ~(input.frame > E[n][s].frame)
      BY <2>2, <2>5, <3>1, <3>2 DEF Later
    <3> QED  BY <3>3 DEF Later
  <2> QED  BY <2>1, <2>3, <2>6, <2>7
<1>9. ASSUME NEW s \in Source, NEW k \in 1 .. Cardinality(U), NEW l \in 1 .. Cardinality(U),
             sent'[k].source = s, sent'[l].source = s, k < l
      PROVE  Later(sent'[l], sent'[k])
  <2> DEFINE x == ix(k)
             y == ix(l)
  <2>1. x < y  BY <1>9, OkInOrder
  <2>2. /\ batch[x] \in FrameInputs /\ E[x][s] = MarkOf(batch[x]) /\ sent'[k] = batch[x]
        /\ x \in 0 .. n
    BY <1>5, <1>7, <1>9
  <2>3. /\ batch[y] \in FrameInputs /\ Later(batch[y], E[y - 1][s]) /\ sent'[l] = batch[y]
        /\ y - 1 \in 0 .. n /\ y \in 0 .. n
    BY <1>5, <1>7, <1>9
  <2> HIDE DEF x, y, E
  <2>4. y - 1 \in x .. n  BY <1>1, <2>1, <2>2, <2>3
  <2>5. E[y - 1][s] = E[x][s] \/ Later(E[y - 1][s], E[x][s])
    BY <1>1, <2>2, <2>4, EngineGrows DEF E
  <2>6. E[x][s] \in [frame : Nat, pts : Nat] /\ E[y - 1][s] \in [frame : Nat, pts : Nat]
    BY <1>6, <2>2, <2>3
  <2>7. batch[y].frame \in Nat /\ batch[y].pts \in Nat  BY <2>3, InputFacts
  <2>8. Later(batch[y], E[x][s])  BY <2>3, <2>5, <2>6, <2>7, LaterFacts
  <2>9. E[x][s].frame = batch[x].frame /\ E[x][s].pts = batch[x].pts  BY <2>2 DEF MarkOf
  <2> QED  BY <2>2, <2>3, <2>8, <2>9 DEF Later
<1>10. ASSUME NEW s \in Source, watermark'[s] # watermark[s]
       PROVE  \E k \in 1 .. Cardinality(U) : sent'[k].source = s /\ watermark'[s] = MarkOf(sent'[k])
  <2>1. n \in 0 .. n  BY <1>1
  <2>2. PICK x \in U : batch[x].source = s /\ watermark'[s] = MarkOf(batch[x])
    BY <1>1, <1>2, <1>10, <2>1, EngineMoves
  <2> DEFINE k == Rank(U, x)
  <2>3. k \in 1 .. Cardinality(U)  BY OkFacts, RankStarts
  <2>4. ix(k) \in U /\ Rank(U, ix(k)) = k  BY <2>3, OkFacts
  <2>5. ix(k) = x
    <3>1. U \in SUBSET Nat /\ IsFiniteSet(U) /\ Cardinality(U) \in Nat  BY OkFacts
    <3> DEFINE y == ix(k)
    <3> HIDE DEF y
    <3>2. y \in U /\ y \in Int /\ x \in Int /\ k \in Int /\ Rank(U, y) = k
      BY <2>3, <2>4, <3>1 DEF y
    <3> HIDE DEF U
    <3>3. ~(x < y)
      <4>1. SUFFICES ASSUME x < y PROVE FALSE  OBVIOUS
      <4>2. Rank(U, x) < Rank(U, y)  BY <3>1, <3>2, <4>1, RankGrows
      <4> QED  BY <3>2, <4>2
    <3>4. ~(y < x)
      <4>1. SUFFICES ASSUME y < x PROVE FALSE  OBVIOUS
      <4>2. Rank(U, y) < Rank(U, x)  BY <3>1, <3>2, <4>1, RankGrows
      <4> QED  BY <3>2, <4>2
    <3> QED  BY <3>2, <3>3, <3>4 DEF y
  <2>6. sent'[k] = batch[x]  BY <1>5, <2>3, <2>5
  <2> HIDE DEF k
  <2> QED  BY <2>2, <2>3, <2>6
<1>11. SentFollows
  <2> HIDE DEF E, U, ix
  <2> QED  BY <1>4, <1>8, <1>9, <1>10 DEF SentFollows, MarkOf
<1> QED  BY <1>3, <1>11

LEMMA FusionStart == FusionInit => FusionInv
BY DEF FusionInit, FusionInv, Marks, Unseen

LEMMA FusionStep ==
  ASSUME FusionInv, [FusionNext]_fusionVars
  PROVE  FusionInv' /\ [SentFollows]_fusionVars
<1>1. ASSUME NEW batch \in UNION {[1 .. n -> FrameInputs] : n \in 1 .. MaxBatch},
             Commit(batch) \/ DropBatch(batch)
      PROVE  FusionInv' /\ SentFollows
  <2>1. CASE Commit(batch)
    <3>1. PICK n \in 1 .. MaxBatch : batch \in [1 .. n -> FrameInputs]  OBVIOUS
    <3>2. IsBatch(batch, n)  BY <3>1, FusionNumbers DEF IsBatch
    <3> QED  BY <2>1, <3>2, CommitHolds
  <2>2. CASE DropBatch(batch)
    <3>1. sent' = <<>> /\ watermark' = watermark  BY <2>2 DEF DropBatch
    <3>2. DOMAIN sent' = {}  BY <3>1
    <3> QED  BY <3>1, <3>2 DEF FusionInv, SentFollows
  <2> QED  BY <1>1, <2>1, <2>2
<1>2. CASE UNCHANGED fusionVars  BY <1>2 DEF fusionVars, FusionInv
<1> QED  BY <1>1, <1>2 DEF FusionNext

-----------------------------------------------------------------------------
(* The group.                                                              *)

\* Every stage runs in the group as it runs alone, if at all.
THEOREM StagesRunAlone ==
  StreamSpec => FusionSpec /\ VehicleSpec /\ HSpec /\ DriversSpec /\ AlarmsSpec
<1>1. StreamInit => FusionInit /\ VehicleInit /\ HInit /\ DriversInit /\ AlarmsInit
  BY DEF StreamInit
<1>2. [StreamNext]_streamVars =>
        /\ [FusionNext]_fusionVars /\ [VehicleNext]_vehicleVars /\ [HNext]_hvars
        /\ [DriversNext]_driverVars /\ [AlarmsNext]_alarmVars
  BY DEF StreamNext, streamVars, OnlyFusion, OnlyFallback, OnlyZones, OnlyDrivers, OnlyAlarms
<1> QED
  BY <1>1, <1>2, PTL
     DEF StreamSpec, FusionSpec, VehicleSpec, HSpec, DriversSpec, AlarmsSpec

LEMMA FusionInvariance == FusionSpec => []FusionInv /\ SentInOrder
<1>1. FusionInv /\ [FusionNext]_fusionVars => FusionInv' /\ [SentFollows]_fusionVars
  BY FusionStep
<1>2. SentInOrder <=> [][SentFollows]_fusionVars  BY DEF SentInOrder, SentFollows
<1> QED  BY FusionStart, <1>1, <1>2, PTL DEF FusionSpec

LEMMA VehicleInvariance == VehicleSpec => []VehicleInv /\ FallbackKeepsIdentity
<1>1. VehicleInv /\ [VehicleNext]_vehicleVars => VehicleInv' /\ [VehicleKeeps]_vehicleVars
  BY VehicleStep
<1>2. FallbackKeepsIdentity <=> [][VehicleKeeps]_vehicleVars
  BY DEF FallbackKeepsIdentity, VehicleKeeps
<1> QED  BY VehicleStart, <1>1, <1>2, PTL DEF VehicleSpec

LEMMA HistoryObservesZones == HSpec => Spec
<1>1. HInit => Init  BY DEF HInit
<1>2. [HNext]_hvars => [Next]_vars  BY DEF HNext, hvars, Next
<1> QED  BY <1>1, <1>2, PTL DEF HSpec, Spec

\* What one frame says of its tracks, for any thresholds, places, ids and frames: a pose
\* belongs to one person (FusionEngine::process), no two vehicles have the same id and no
\* raw box is lost (merge_raw_vehicle_detector_fallback), and the tables of the zone and
\* driver rules are well formed with every new operator alone in its vehicle.
THEOREM StreamTracksAreSound == StreamSpec => []TracksAreSound
<1>1. VehicleInv => VehicleIdsAreDistinct  BY DEF VehicleInv
<1> QED
  BY StagesRunAlone, LinksHold, VehicleInvariance, HistoryObservesZones, TypeCorrect,
     DriversTypeCorrect, NewOperatorAlone, <1>1, PTL
     DEF TracksAreSound

\* What frames say of each other: what is passed on as fused is in order by number and time
\* and moves the watermark of its source (FusionEngine::process), and a raw box without a
\* native vehicle continues a track it overlapped within the time to live or gets an id that
\* was never used (merge_raw_vehicle_detector_fallback).
THEOREM IdentitiesAreKept == StreamSpec => IdentityIsKept
  BY StagesRunAlone, FusionInvariance, VehicleInvariance DEF IdentityIsKept

\* The episodes of the zone, fence, driver and effective alarms in the group, and what they
\* rest on.
THEOREM StreamEpisodes ==
  StreamSpec => /\ ZoneEpisodes /\ FenceEpisodes /\ DriverTerms /\ EffectiveEpisodes
                /\ [](/\ StageTellsTheState /\ EveryBreachHasItsOwnClimb
                      /\ EndsRestOnSightings /\ EffectiveIsRawUnlessDriving)
<1>1. StreamSpec => []StageTellsTheState /\ ZoneEpisodes /\ FenceEpisodes
  BY StagesRunAlone, HistoryObservesZones, StageTruth, ZoneImplementsLedger,
     FenceImplementsLedger
<1>2. StreamSpec => []EveryBreachHasItsOwnClimb /\ []EndsRestOnSightings
  BY StagesRunAlone, BreachesAreClimbed, EndsAreSeen
<1>3. StreamSpec => DriverTerms /\ EffectiveEpisodes /\ []EffectiveIsRawUnlessDriving
  BY StagesRunAlone, TermsAreKept, EffectiveImplementsLedger, EffectiveIsRaw
<1> QED  BY <1>1, <1>2, <1>3, PTL
=============================================================================
