--------------------------- MODULE ForkliftDriver ---------------------------
(***************************************************************************)
(* ForkliftDriverRuleEngine of content/forklift_driver_rules.py: a person  *)
(* who stays inside a qualified vehicle for some frames becomes its        *)
(* operator, and alerts about an operator are suppressed.                  *)
(*                                                                         *)
(* process_frame qualifies vehicles, matches visible people to them one to *)
(* one, expires old tracks, and then visits the visible people in the      *)
(* order of their ids; what a visit does depends on, and changes, the      *)
(* state of the others.  The frame is modelled as these steps: BeginFrame, *)
(* one Visit per person, EndFrame, which publishes the frame's output.     *)
(*                                                                         *)
(* The geometry is abstracted to its outcome, an arbitrary one-to-one      *)
(* matching.  Frame indices are abstracted to ages relative to the current *)
(* frame; elapsed is the distance between consecutive indices.             *)
(***************************************************************************)
EXTENDS Integers, FiniteSets

CONSTANTS
  PersonId,               \* person track ids, a set of naturals
  Vehicle,              \* vehicle track ids
  NoVehicle,            \* vehicle_track_id of a person in no vehicle
  EnterFrames,          \* enter_frames
  ExitFrames,           \* exit_frames
  TtlFrames,            \* ttl_frames
  VehicleTtlFrames,     \* vehicle_confidence_ttl_frames
  MaxFrameStep            \* bound: the largest step of the frame index

ASSUME ForkliftAssumption ==
  /\ PersonId \subseteq Nat
  /\ NoVehicle \notin Vehicle
  /\ {EnterFrames, ExitFrames, TtlFrames, VehicleTtlFrames, MaxFrameStep}
       \subseteq Nat \ {0}

VARIABLES
  driverTracks,           \* person id -> its _TrackState
  qualified,        \* vehicle id -> frames since it was last confident
  todo,             \* the people of the frame still to be visited
  match,            \* the frame's matching: person id -> vehicle
  contexts,         \* visited person id -> its vehicle_context
  begun,            \* a frame is being processed
  log,              \* the transition events of the frame so far
  output            \* what the last complete frame published

driverVars == <<driverTracks, qualified, todo, match, contexts, begun, log, output>>

-----------------------------------------------------------------------------
NewDriver == [active |-> FALSE, enter |-> 0, exit |-> 0,
             vehicle |-> NoVehicle, age |-> 0]

Known == DOMAIN driverTracks

DriverAt(p) == IF p \in Known THEN driverTracks[p] ELSE NewDriver

ActiveIn(ts) == {p \in DOMAIN ts : ts[p].active}

Empty == [x \in {} |-> x]

\* One-to-one matchings of some of the people to some of the vehicles.
Matchings(people, vehicles) ==
  {m \in UNION {[P -> vehicles] : P \in SUBSET people} :
     \A p, r \in DOMAIN m : p # r => m[p] # m[r]}

Event(kind, p, v, reason) ==
  [kind |-> kind, person |-> p, vehicle |-> v, reason |-> reason]

(* _qualified_vehicles: a vehicle that was confident within the ttl stays  *)
(* qualified; only the visible ones can be matched.                        *)
Requalify(confident, elapsed) ==
  LET age(v) == IF v \in confident THEN 0 ELSE qualified[v] + elapsed
      still == {v \in confident \union DOMAIN qualified :
                  age(v) <= VehicleTtlFrames}
  IN  [v \in still |-> age(v)]

\* Mutant: the frames elapsed since the last one are not counted.
UnexpiredLate(elapsed) == {p \in Known : driverTracks[p].age <= TtlFrames}

(* _expire_tracks: a person unseen for more than the ttl is forgotten, also *)
(* when this very frame shows the person again.                             *)
Unexpired(elapsed) == {p \in Known : driverTracks[p].age + elapsed <= TtlFrames}

\* Mutant: the expiry of an operator is not reported.
ExpirySilent(elapsed) == {}

Expiry(elapsed) ==
  {Event("ended", p, driverTracks[p].vehicle, "track_expired") :
     p \in {r \in Known \ Unexpired(elapsed) : driverTracks[r].active}}

-----------------------------------------------------------------------------
DriversInit ==
  /\ driverTracks = Empty
  /\ qualified = Empty
  /\ todo = {}
  /\ match = Empty
  /\ contexts = Empty
  /\ begun = FALSE
  /\ log = {}
  /\ output = [operators |-> {}, contexts |-> Empty, events |-> {}]

BeginFrame(elapsed, people, visible, confident) ==
  /\ ~begun
  /\ begun' = TRUE
  /\ todo' = people
  /\ qualified' = Requalify(confident, elapsed)
  /\ match' \in Matchings(people, visible \intersect DOMAIN qualified')
  /\ driverTracks' = [p \in Unexpired(elapsed) |->
                  [driverTracks[p] EXCEPT !.age = @ + elapsed]]
  /\ log' = Expiry(elapsed)
  /\ contexts' = Empty
  /\ UNCHANGED output

\* The next person in the order of ids.
IsNext(p) == p \in todo /\ \A r \in todo : p <= r

\* Runs are compared with one threshold each: they saturate there.
Longer(n, threshold) == IF n < threshold THEN n + 1 ELSE n

\* The state a visit leaves and the context it reports.
Leave(p, t, others, events) ==
  /\ driverTracks' = [r \in Known \union {p} |-> IF r = p THEN t ELSE others[r]]
  /\ log' = log \union events
  /\ contexts' = [r \in DOMAIN contexts \union {p} |->
       IF r # p THEN contexts[r]
       ELSE [suppressed |-> t.active,
             vehicle |-> IF p \in DOMAIN match THEN match[p]
                         ELSE IF t.active THEN t.vehicle ELSE NoVehicle]]
  /\ todo' = todo \ {p}
  /\ UNCHANGED <<qualified, match, begun, output>>

Matched(p) ==
  [DriverAt(p) EXCEPT !.age = 0, !.exit = 0, !.vehicle = match[p],
                     !.enter = Longer(@, EnterFrames)]

\* A match of an operator, or one too early to make the person an operator.
VisitMatched(p) ==
  /\ IsNext(p)
  /\ p \in DOMAIN match
  /\ Matched(p).active \/ Matched(p).enter < EnterFrames
  /\ Leave(p, Matched(p), driverTracks, {})

\* Mutant: only the people the frame has visited so far are displaced.
DisplacedSoFar(p) ==
  {r \in DOMAIN contexts : driverTracks[r].active /\ driverTracks[r].vehicle = match[p]}

\* The other active people that the person about to enter displaces.
Displaced(p) ==
  {r \in Known \ {p} : driverTracks[r].active /\ driverTracks[r].vehicle = match[p]}

Cleared(t) == [t EXCEPT !.active = FALSE, !.enter = 0, !.exit = 0,
                        !.vehicle = NoVehicle]

\* Mutant: the displaced person keeps its place.
OthersUntouched(p) == driverTracks

OthersAfterEntry(p) ==
  [r \in Known |-> IF r \in Displaced(p) THEN Cleared(driverTracks[r]) ELSE driverTracks[r]]

\* A match that completes the enter run: the person becomes the operator and
\* displaces whoever hysteresis still keeps active in that vehicle.
VisitEnter(p) ==
  /\ IsNext(p)
  /\ p \in DOMAIN match
  /\ ~Matched(p).active /\ Matched(p).enter >= EnterFrames
  /\ Leave(p, [Matched(p) EXCEPT !.active = TRUE], OthersAfterEntry(p),
           {Event("ended", r, match[p], "operator_track_reassigned") :
              r \in Displaced(p)}
             \union {Event("started", p, match[p], "enter_hysteresis_met")})

Unmatched(p) ==
  [DriverAt(p) EXCEPT !.age = 0, !.enter = 0, !.exit = Longer(@, ExitFrames)]

\* An operator seen outside every vehicle, not yet for long enough to leave.
VisitHold(p) ==
  /\ IsNext(p)
  /\ p \notin DOMAIN match
  /\ DriverAt(p).active /\ Unmatched(p).exit < ExitFrames
  /\ Leave(p, Unmatched(p), driverTracks, {})

VisitExit(p) ==
  /\ IsNext(p)
  /\ p \notin DOMAIN match
  /\ DriverAt(p).active /\ Unmatched(p).exit >= ExitFrames
  /\ Leave(p, Cleared(Unmatched(p)), driverTracks,
           {Event("ended", p, DriverAt(p).vehicle, "exit_hysteresis_met")})

VisitPedestrian(p) ==
  /\ IsNext(p)
  /\ p \notin DOMAIN match
  /\ ~DriverAt(p).active
  /\ Leave(p, Cleared([DriverAt(p) EXCEPT !.age = 0]), driverTracks, {})

Visit(p) ==
  VisitMatched(p) \/ VisitEnter(p) \/ VisitHold(p) \/ VisitExit(p)
    \/ VisitPedestrian(p)

EndFrame ==
  /\ begun
  /\ todo = {}
  /\ begun' = FALSE
  /\ output' = [operators |-> ActiveIn(driverTracks), contexts |-> contexts,
                events |-> log]
  /\ match' = Empty
  /\ contexts' = Empty
  /\ log' = {}
  /\ UNCHANGED <<driverTracks, qualified, todo>>

Begin ==
  \E elapsed \in 1 .. MaxFrameStep, people \in SUBSET PersonId,
     visible \in SUBSET Vehicle :
    \E confident \in SUBSET visible :
      BeginFrame(elapsed, people, visible, confident)

DriversNext == Begin \/ (\E p \in todo : Visit(p)) \/ EndFrame

DriversSpec == DriversInit /\ [][DriversNext]_driverVars

-----------------------------------------------------------------------------
DriverTrack == [active : BOOLEAN, enter : 0 .. EnterFrames, exit : 0 .. ExitFrames,
          vehicle : Vehicle \union {NoVehicle}, age : 0 .. TtlFrames]

\* The tables hold well-formed tracks of people within their ttl, the work of a
\* frame is over when no frame is being processed.
DriversTypeOK ==
  /\ Known \subseteq PersonId
  /\ \A p \in Known : driverTracks[p] \in DriverTrack
  /\ DOMAIN qualified \subseteq Vehicle
  /\ \A v \in DOMAIN qualified : qualified[v] \in 0 .. VehicleTtlFrames
  /\ todo \subseteq PersonId
  /\ DOMAIN match \subseteq PersonId /\ \A p \in DOMAIN match : match[p] \in Vehicle
  /\ begun \in BOOLEAN
  /\ ~begun => todo = {} /\ match = Empty /\ contexts = Empty /\ log = {}

EventsOf(kind) ==
  {e.person : e \in {x \in output.events : x.kind = kind}}

\* The transitions the frames publish pair up with the published operators: a
\* person is started once and ended once per term, also when the person is
\* displaced, expires and returns, or leaves and enters within one frame.
Operating == {"forklift_operator"}

Ledger == INSTANCE AlarmLedger
  WITH Entity <- PersonId, Kind <- Operating,
       seen <- DOMAIN output.contexts,
       open <- output.operators \X Operating,
       started <- EventsOf("started") \X Operating,
       ended <- EventsOf("ended") \X Operating

SuppressionEpisodes == Ledger!Spec

Aboard(v) == {p \in ActiveIn(driverTracks) : driverTracks[p].vehicle = v}

\* Whoever becomes an operator in a frame is, when the frame ends, the only
\* operator of its vehicle: the people visited later can no longer join it,
\* because the matching gave them other vehicles or none.
NewOperatorIsAlone ==
  ~begun => \A p \in EventsOf("started") : Aboard(driverTracks[p].vehicle) = {p}

\* The module's docstring: a missing person neither enters nor clears
\* suppression.  An operator's term ends only by expiry, by an exit run of the
\* visible person, or because somebody else is started in its vehicle; a term
\* begins only for a person the frame shows inside a vehicle.
TermsChangeForAReason ==
  [][/\ \A p \in output'.operators \ output.operators :
          /\ p \in DOMAIN output'.contexts
          /\ output'.contexts[p].vehicle \in Vehicle
     /\ \A p \in output.operators \ output'.operators :
          \E e \in output'.events :
            /\ e.kind = "ended" /\ e.person = p
            /\ \/ e.reason = "track_expired"
               \/ e.reason = "exit_hysteresis_met" /\ p \in DOMAIN output'.contexts
               \/ \E f \in output'.events :
                    f.kind = "started" /\ f.person # p /\ f.vehicle = e.vehicle
    ]_output

\* "Enforce the configured one-occupant invariant across active state as well
\* as raw frame association": no two active operators share a vehicle.
OneOperatorPerVehicle ==
  \A p, r \in output.operators :
    ~begun /\ driverTracks[p].vehicle = driverTracks[r].vehicle => p = r

\* The transitions of operators pair up, and terms begin and end for a documented reason.
DriverTerms == SuppressionEpisodes /\ TermsChangeForAReason

=============================================================================
