-------------------------- MODULE VehicleFallback --------------------------
(***************************************************************************)
(* merge_raw_vehicle_detector_fallback of content/forklift_driver_rules.py:*)
(* raw truck boxes of the detector fill the gaps of the tracked vehicles.  *)
(*                                                                         *)
(* A box is its place on a line; two boxes overlap when they are at most   *)
(* Reach apart, the more the closer.  The raw boxes of a frame come sorted *)
(* by confidence, so in any order.                                         *)
(***************************************************************************)
EXTENDS Integers, FiniteSets, Sequences

CONSTANTS
  NativeId,         \* vehicle ids of the tracker
  FirstSynthetic,   \* 1_000_000
  Place,            \* bound: where boxes are
  Reach,            \* minimum_iou
  VehicleTtl,       \* track_ttl_frames
  MaxVehicleFrame,  \* bound: frames
  MaxRaw            \* bound: raw boxes of a frame

ASSUME VehicleAssumption ==
  /\ NativeId \subseteq Nat /\ Place \subseteq Int
  /\ {FirstSynthetic, Reach, MaxVehicleFrame, MaxRaw} \subseteq Nat
  /\ VehicleTtl \in Nat \ {0}

VARIABLES
  vehicleFrame,     \* expected_frame
  vehicleTracks,    \* vehicle_tracks: id -> last box and the frames since
  nextSynthetic,    \* next_synthetic_id
  vehicleRows,      \* the vehicles of the last frame written
  enriched,         \* how many raw boxes of that frame went to a native row
  vehicleOutput     \* the output file

vehicleVars == <<vehicleFrame, vehicleTracks, nextSynthetic, vehicleRows, enriched,
                 vehicleOutput>>

SyntheticId == FirstSynthetic .. FirstSynthetic + MaxRaw * (MaxVehicleFrame + 1) + 1
VehicleId == NativeId \cup SyntheticId

-----------------------------------------------------------------------------
Gap(a, b) == IF a < b THEN b - a ELSE a - b

\* The pairs that overlap enough, raw boxes by their index.
Pairs(raw, boxes) ==
  {[overlap |-> Reach - Gap(raw[r], boxes[t]), raw |-> r, track |-> t] :
     r \in DOMAIN raw, t \in DOMAIN boxes}

Overlapping(raw, boxes) == {p \in Pairs(raw, boxes) : p.overlap >= 0}

Before(p, q) ==
  \/ p.overlap > q.overlap
  \/ p.overlap = q.overlap /\ p.raw > q.raw
  \/ p.overlap = q.overlap /\ p.raw = q.raw /\ p.track > q.track

Clash(p, q) == p.raw = q.raw \/ p.track = q.track

\* The best pair first; a pair is taken unless an earlier one took its raw box or track.
IsGreedy(pairs, taken) ==
  \A p \in pairs : p \in taken <=> \A q \in taken : ~(Before(q, p) /\ Clash(q, p))

Greedy(pairs) == CHOOSE taken \in SUBSET pairs : IsGreedy(pairs, taken)

Used(matches) == {m.track : m \in matches}
MatchedRaw(matches) == {m.raw : m \in matches}

Restricted(f, S) == [x \in (DOMAIN f) \cap S |-> f[x]]

\* Mutant: a track that is matched in the frame may be linked to again.
IgnoresUsed(tracks, used) == {t \in DOMAIN tracks : tracks[t].age <= VehicleTtl}

\* Mutant: only the pruning looks at the age.
IgnoresAge(tracks, used) == DOMAIN tracks \ used

\* The tracks a raw box without a native vehicle may continue.
ActiveVehicles(tracks, used) == {t \in DOMAIN tracks \ used : tracks[t].age <= VehicleTtl}

\* Mutant: the ids of the living tracks are not looked at.
IgnoresLiving(tracks, n) == nextSynthetic + n - 1

\* The n-th new id from next_synthetic_id on: ids of living tracks are skipped.
NewId(tracks, n) ==
  CHOOSE i \in nextSynthetic .. nextSynthetic + Cardinality(DOMAIN tracks) + n :
    /\ i \notin DOMAIN tracks
    /\ Cardinality({j \in nextSynthetic .. i : j \notin DOMAIN tracks}) = n

-----------------------------------------------------------------------------
VehicleInit ==
  /\ vehicleFrame = 0
  /\ vehicleTracks = <<>>
  /\ nextSynthetic = FirstSynthetic
  /\ vehicleRows = {}
  /\ enriched = 0
  /\ vehicleOutput = "absent"

\* A track is forgotten when its last box is older than the time to live.
Pruned(tracks) == Restricted(tracks, {t \in DOMAIN tracks : tracks[t].age <= VehicleTtl})

\* One frame: native vehicles by id and raw boxes.
MergeFrame(native, raw) ==
  LET tracks == [t \in DOMAIN vehicleTracks \cup DOMAIN native |->
                   IF t \in DOMAIN native THEN [box |-> native[t], age |-> 0]
                   ELSE [vehicleTracks[t] EXCEPT !.age = @ + 1]]
      direct == Greedy(Overlapping(raw, native))
      active == ActiveVehicles(tracks, Used(direct))
      left == DOMAIN raw \ MatchedRaw(direct)
      linked == Greedy({p \in Overlapping(raw, [t \in active |-> tracks[t].box]) :
                          p.raw \in left})
      new == left \ MatchedRaw(linked)
      fresh == {[raw |-> r, track |-> NewId(tracks, Cardinality({s \in new : s <= r}))] :
                  r \in new}
      idOf(r) == (CHOOSE m \in direct \cup linked \cup fresh : m.raw = r).track
      seen == {idOf(r) : r \in DOMAIN raw}
      after == [t \in DOMAIN tracks \cup seen |->
                  IF t \in seen
                  THEN [box |-> raw[CHOOSE r \in DOMAIN raw : idOf(r) = t], age |-> 0]
                  ELSE tracks[t]]
  IN  /\ vehicleTracks' = Pruned(after)
      /\ nextSynthetic' =
           IF new = {} THEN nextSynthetic ELSE NewId(tracks, Cardinality(new)) + 1
      /\ vehicleRows' =
           {[id |-> t, box |-> native[t], by |-> "native", row |-> 0] : t \in DOMAIN native}
             \cup {[id |-> m.track, box |-> raw[m.raw], by |-> "history", row |-> m.raw] :
                     m \in linked}
             \cup {[id |-> m.track, box |-> raw[m.raw], by |-> "new", row |-> m.raw] :
                     m \in fresh}
      /\ enriched' = Cardinality(direct)

WriteVehicleFrame(native, raw) ==
  /\ vehicleOutput = "absent"
  /\ vehicleFrame < MaxVehicleFrame
  /\ MergeFrame(native, raw)
  /\ vehicleFrame' = vehicleFrame + 1
  /\ UNCHANGED vehicleOutput

\* The temporary file is synced and replaces the output, or is removed with any error:
\* a frame out of order, an invalid row, a full disk.
Finish(ok) ==
  /\ vehicleOutput = "absent"
  /\ vehicleOutput' = IF ok THEN "published" ELSE "failed"
  /\ UNCHANGED <<vehicleFrame, vehicleTracks, nextSynthetic, vehicleRows, enriched>>

RawBoxes == UNION {[1 .. n -> Place] : n \in 0 .. MaxRaw}
\* The tracker gives an id once in a frame; the code does not check it here.
NativeBoxes == UNION {[ids -> Place] : ids \in {S \in SUBSET NativeId : IsFiniteSet(S)}}

VehicleNext ==
  \/ \E native \in NativeBoxes, raw \in RawBoxes : WriteVehicleFrame(native, raw)
  \/ \E ok \in BOOLEAN : Finish(ok)

VehicleSpec == VehicleInit /\ [][VehicleNext]_vehicleVars

-----------------------------------------------------------------------------
\* In a frame no two vehicles have the same id, even when the tracker's ids reach the
\* synthetic ones, and no raw box is lost.
VehicleIdsAreDistinct ==
  \A v, w \in vehicleRows : v.id = w.id => v = w

\* A raw box without a native vehicle continues a track that overlapped it at most
\* VehicleTtl frames ago, or gets an id that is neither alive nor ever was synthetic.
FallbackKeepsIdentity ==
  [][\A v \in vehicleRows' :
       /\ v.by = "history" /\ vehicleFrame' # vehicleFrame =>
            /\ v.id \in DOMAIN vehicleTracks
            /\ vehicleTracks[v.id].age < VehicleTtl
            /\ Gap(vehicleTracks[v.id].box, v.box) <= Reach
       /\ v.by = "new" /\ vehicleFrame' # vehicleFrame =>
            v.id >= nextSynthetic /\ v.id \notin DOMAIN vehicleTracks]_vehicleVars
=============================================================================
