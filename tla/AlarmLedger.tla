---------------------------- MODULE AlarmLedger ----------------------------
(***************************************************************************)
(* What every producer of alarm events promises its readers.               *)
(*                                                                         *)
(* An alarm is an entity (a person track) together with a kind.  Frame by  *)
(* frame a producer lists the entities it sees, the alarms that end and    *)
(* the alarms that start.  A reader that folds the reports over the stream *)
(* as the event contracts of content/ppe_video.py do must find every end   *)
(* on an open alarm and every start on a closed one, the start on a person *)
(* that the frame shows, and must end with the producer's own view of the  *)
(* alarms that are open.                                                   *)
(*                                                                         *)
(* The module is abstract: the detailed modules instantiate it with a      *)
(* refinement mapping and are checked, or proved, to implement it.         *)
(***************************************************************************)
CONSTANTS
  Entity,           \* the persons an alarm can be about
  Kind              \* the kinds of alarm

VARIABLES
  seen,             \* the entities the last frame shows
  open,             \* the alarms that are open
  started,          \* the alarms the last frame reports as started
  ended             \* the alarms the last frame reports as ended

ledgerVars == <<seen, open, started, ended>>

Alarm == Entity \X Kind

Init ==
  /\ seen = {}
  /\ open = {}
  /\ started = {}
  /\ ended = {}

\* One frame: the ends, then the starts, and no other change.
Report(V, S, E) ==
  /\ S \subseteq V \X Kind
  /\ E \subseteq open
  /\ S \intersect (open \ E) = {}
  /\ seen' = V
  /\ open' = (open \ E) \union S
  /\ started' = S
  /\ ended' = E

Next ==
  \E V \in SUBSET Entity :
    \E S \in SUBSET (V \X Kind), E \in SUBSET open : Report(V, S, E)

Spec == Init /\ [][Next]_ledgerVars

\* A producer whose alarms each change at most once in a frame.
SettledNext == Next /\ started' \intersect ended' = {}

SettledSpec == Init /\ [][SettledNext]_ledgerVars
=============================================================================
