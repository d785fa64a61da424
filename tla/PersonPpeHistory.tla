-------------------------- MODULE PersonPpeHistory --------------------------
(***************************************************************************)
(* PersonPpeFusion with the history of what was observed.                  *)
(*                                                                         *)
(* past records, for every live track and equipment and independently of   *)
(* the streaks the code keeps, the current run of equal observations, the  *)
(* decision that was in force when the run began, and how many frames in a *)
(* row said nothing outside the grace.  It states what the temporal filter *)
(* is meant to compute as a function of the observations alone.            *)
(***************************************************************************)
EXTENDS PersonPpeFusion

VARIABLE past

histVars == <<tracks, nextTrackId, started, ended, past>>

\* A miss in a visible zone says nothing on a channel that infers no absence.
Seeming(q, o) == IF o = "visible" /\ q \notin Inferred THEN "hidden" ELSE o

\* The run bound: past it the decision of the longest run is settled.
RunCap == Grace + InferredEnter + StreakCap

NoPast == [obs |-> "none", run |-> 0, anchor |-> "unknown", silent |-> 0]

PastAt(i, q) == IF i \in Live THEN past[i][q] ELSE NoPast

\* An unknown frame that no grace explains.
IsSilent(i, q, o) ==
  FrameEvidence(TrackAt(i).channel[q], q, o).source
    \in {"conflicting_observations", "insufficient"}

Observe(i, q, o) ==
  LET p == PastAt(i, q)
      again == p.obs = Seeming(q, o)
  IN  [obs |-> Seeming(q, o),
       run |-> IF ~again THEN 1 ELSE IF p.run < RunCap THEN p.run + 1 ELSE p.run,
       anchor |-> IF again THEN p.anchor ELSE TrackAt(i).channel[q].state,
       silent |-> IF ~IsSilent(i, q, o) THEN 0
                  ELSE IF p.silent < UnknownAfter THEN p.silent + 1 ELSE p.silent]

Record(seen, obs) ==
  past' = [i \in DOMAIN tracks' |-> [q \in Equipment |->
             IF i \in seen THEN Observe(i, q, obs[i][q]) ELSE PastAt(i, q)]]

HInit == Init /\ past = [i \in {} |-> NoPast]

HFrame ==
  \E external \in SUBSET TrackId : \E matched \in SUBSET (Live \ external) :
    \E first \in FirstFree(external), n \in 0 .. NewPeople :
      LET fresh == first .. (first + n - 1)
          seen == external \union matched \union fresh
      IN  /\ fresh \subseteq TrackId
          /\ nextTrackId' = first + n
          /\ \E obs \in Observations(seen) :
               /\ ProcessFrame(external, matched, fresh, obs)
               /\ Record(seen, obs)

HReject ==
  \E external \in SUBSET TrackId : \E first \in FirstFree(external) :
    /\ nextTrackId' = first
    /\ RejectDuplicateId(external)
    /\ Record({}, <<>>)

HNext == HFrame \/ HReject

HSpec == HInit /\ [][HNext]_histVars

-----------------------------------------------------------------------------
\* What a run of n equal observations makes of the decision it found.  Misses
\* in a visible zone use up the grace of a verified present decision before
\* the count of inferred absence starts.
Decided(anchor, obs, n) ==
  CASE obs = "absent"  -> IF n >= AlarmEnter THEN "absent" ELSE anchor
    [] obs = "present" -> IF n >= AlarmClear THEN "present" ELSE anchor
    [] obs = "visible" ->
         LET spared == IF anchor = "present" THEN Grace ELSE 0
         IN  IF n >= spared + InferredEnter THEN "absent"
             ELSE IF anchor = "present" /\ n >= Grace THEN "unknown" ELSE anchor
    [] obs \in {"conflict", "hidden"} ->
         IF n >= UnknownAfter THEN "unknown" ELSE anchor
    [] OTHER -> anchor

\* The decision of every channel is the one the current run of observations
\* yields: alarms enter and clear, the unknown hold and the grace expire at
\* exactly their configured number of frames, whatever came before the run and
\* however often the person was out of sight within the ttl.
DecisionMatchesRun ==
  \A i \in Live : \A q \in Equipment :
    LET p == past[i][q]
    IN  tracks[i].channel[q].state = Decided(p.anchor, p.obs, p.run)

\* The help of --unknown-after-frames: "Clear non-grace temporal state after
\* this many unknown frames."  A decision does not outlive UnknownAfter
\* consecutive frames without evidence and without grace.
UnknownFramesClear ==
  \A i \in Live : \A q \in Equipment :
    past[i][q].silent >= UnknownAfter => tracks[i].channel[q].state = "unknown"
=============================================================================
