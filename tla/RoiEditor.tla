------------------------------ MODULE RoiEditor ------------------------------
(***************************************************************************)
(* RoiEditorService of admin/roi_editor.py: a request with a clip and a    *)
(* polygon is validated and written as a plan, which is read back by id.   *)
(*                                                                         *)
(* Points lie on a grid, exactly, so that the tolerance of the code's      *)
(* floating point comparisons is zero; times are ticks, TicksInFrame of    *)
(* them to a frame.                                                        *)
(***************************************************************************)
EXTENDS Integers, Sequences, FiniteSets

CONSTANTS
  Grid,             \* bound: coordinates are 0..Grid
  Corners,          \* bound: numbers of points of a polygon
  TicksInFrame, VideoTicks, VideoFrames,
  MinArea           \* twice _MIN_POLYGON_AREA

ASSUME RoiEditorAssumption ==
  /\ {Grid, TicksInFrame, VideoTicks, VideoFrames, MinArea} \subseteq Nat \ {0}
  /\ Corners \subseteq Nat \ (0..2)

VARIABLES
  editing,          \* where the request stands
  drawn,            \* its polygon and clip
  planFile          \* the plan on disk, or Absent

editorVars == <<editing, drawn, planFile>>

Absent == <<>>
NoRequest == [points |-> Absent, start |-> 0, end |-> 0]
Point == (0..Grid) \X (0..Grid)
Polygons == UNION {[1..n -> Point] : n \in Corners}

-----------------------------------------------------------------------------
(* _validate_polygon                                                       *)

Lower(a, b) == IF a < b THEN a ELSE b
Upper(a, b) == IF a < b THEN b ELSE a
Follow(k, n) == IF k = n THEN 1 ELSE k + 1

\* Twice the signed area, summed edge by edge.
TwiceArea(points) ==
  LET n == Len(points)
      sum[k \in 0..n] ==
        IF k = 0 THEN 0
        ELSE sum[k - 1] + points[k][1] * points[Follow(k, n)][2]
                        - points[Follow(k, n)][1] * points[k][2]
  IN IF sum[n] < 0 THEN -sum[n] ELSE sum[n]

Orientation(start, end, point) ==
  (end[1] - start[1]) * (point[2] - start[2]) - (end[2] - start[2]) * (point[1] - start[1])

OnSegment(point, start, end) ==
  /\ Orientation(start, end, point) = 0
  /\ \A axis \in {1, 2} :
       point[axis] \in Lower(start[axis], end[axis])..Upper(start[axis], end[axis])

Opposite(a, b) == (a > 0 /\ b < 0) \/ (a < 0 /\ b > 0)

\* Defect: segments that only touch do not count.
CrossingOnly(a, b, c, d) ==
  /\ Opposite(Orientation(a, b, c), Orientation(a, b, d))
  /\ Opposite(Orientation(c, d, a), Orientation(c, d, b))

SegmentsIntersect(a, b, c, d) ==
  \/ /\ Opposite(Orientation(a, b, c), Orientation(a, b, d))
     /\ Opposite(Orientation(c, d, a), Orientation(c, d, b))
  \/ OnSegment(c, a, b) \/ OnSegment(d, a, b) \/ OnSegment(a, c, d) \/ OnSegment(b, c, d)

\* Edges that follow each other are not compared.
ValidPolygon(points) ==
  LET n == Len(points) IN
  /\ \A i, j \in 1..n : i < j => points[i] # points[j]
  /\ TwiceArea(points) >= MinArea
  /\ \A i, j \in 1..n :
       i < j /\ Follow(i, n) # j /\ Follow(j, n) # i =>
         ~SegmentsIntersect(points[i], points[Follow(i, n)], points[j], points[Follow(j, n)])

-----------------------------------------------------------------------------
(* create_plan and _write_plan                                             *)

\* int(round(seconds * fps)), a half goes to the even frame.
FrameAt(ticks) ==
  LET q == ticks \div TicksInFrame
      rest == 2 * (ticks % TicksInFrame)
  IN IF rest > TicksInFrame \/ (rest = TicksInFrame /\ q % 2 = 1) THEN q + 1 ELSE q

\* Defect: a clip up to the end of the container is not measured in frames.
SecondsOnly(start, end) == start < end /\ end <= VideoTicks

ClipHasFrames(start, end) ==
  /\ start < end /\ end <= VideoTicks
  /\ FrameAt(end) <= VideoFrames /\ FrameAt(start) < FrameAt(end)

RoiEditorInit ==
  /\ editing = "request" /\ planFile = Absent
  /\ drawn \in [points : Polygons, start : {VideoTicks - 2},
             end : VideoTicks - 1..VideoTicks]

\* 422, 400: nothing is written.
RejectPlan ==
  /\ editing = "request"
  /\ ~ValidPolygon(drawn.points) \/ ~ClipHasFrames(drawn.start, drawn.end)
  /\ editing' = "rejected" /\ drawn' = NoRequest /\ UNCHANGED planFile

\* A file of another name, synced.
WriteTemporary ==
  /\ editing = "request"
  /\ ValidPolygon(drawn.points) /\ ClipHasFrames(drawn.start, drawn.end)
  /\ editing' = "temporary" /\ UNCHANGED <<drawn, planFile>>

ReplacePlan ==
  /\ editing = "temporary"
  /\ planFile' = [points |-> drawn.points, frames |-> <<FrameAt(drawn.start), FrameAt(drawn.end)>>]
  /\ editing' = "written" /\ UNCHANGED drawn

\* The write fails or the service is killed: the plan is not there.
LosePlan ==
  /\ editing = "temporary"
  /\ editing' = "lost" /\ drawn' = NoRequest /\ UNCHANGED planFile

RoiEditorNext == RejectPlan \/ WriteTemporary \/ ReplacePlan \/ LosePlan

RoiEditorSpec == RoiEditorInit /\ [][RoiEditorNext]_editorVars

-----------------------------------------------------------------------------
(* Reference: a simple polygon                                             *)

\* Two segments meet where a + (k/d)(b - a) = c + (m/d)(e - c), at p = <<d, k, m>>; on the
\* grid d is a determinant of two edges, or the length of one when they overlap.
Denominators == 1..2 * Grid * Grid

MeetAt(a, b, c, e) ==
  {p \in Denominators \X (0..2 * Grid * Grid) \X (0..2 * Grid * Grid) :
     /\ p[2] <= p[1] /\ p[3] <= p[1]
     /\ \A axis \in {1, 2} :
          p[1] * a[axis] + p[2] * (b[axis] - a[axis])
            = p[1] * c[axis] + p[3] * (e[axis] - c[axis])}

\* Edges that follow each other meet in their common point only, others
\* nowhere.
SimplePolygon(points) ==
  LET n == Len(points) IN
  \A i, j \in 1..n :
    i # j =>
      LET meet == MeetAt(points[i], points[Follow(i, n)], points[j], points[Follow(j, n)])
      IN IF Follow(i, n) = j THEN \A p \in meet : p[2] = p[1] /\ p[3] = 0
         ELSE IF Follow(j, n) = i THEN \A p \in meet : p[2] = 0 /\ p[3] = p[1]
         ELSE meet = {}

\* Types of the request and the plan.
RoiEditorTypeOK ==
  editing \in {"request", "rejected", "temporary", "written", "lost"}

\* A plan on disk passed the validator, and its clip is a range of frames of the video.
PlansAreValidated ==
  planFile # Absent =>
    /\ ValidPolygon(planFile.points)
    /\ planFile.frames[1] < planFile.frames[2] /\ planFile.frames[2] <= VideoFrames

\* Every plan holds a polygon whose edges meet only where one ends and the
\* next begins, although _validate_polygon never compares those: a spike is
\* found by the edge after it.  Its clip is a range of frames of the video.
PlansAreSound ==
  planFile # Absent =>
    /\ SimplePolygon(planFile.points)
    /\ planFile.frames[1] < planFile.frames[2] /\ planFile.frames[2] <= VideoFrames
=============================================================================
