------------------------------ MODULE Geometry ------------------------------
(***************************************************************************)
(* Points, rectangles and polylines of a sheet (geometry.ts, routing.ts).   *)
(* Coordinates are whole hundredths of a millimetre, the unit every stored  *)
(* coordinate is rounded to; Tolerance is EPSILON in that unit.             *)
(***************************************************************************)
EXTENDS Integers, Sequences, SequencesExt, FiniteSetsExt

CONSTANTS Tolerance, Grid

ASSUME GeometryAssumption == Tolerance \in Nat /\ Grid \in Nat \ {0}

Pt(x, y) == [x |-> x, y |-> y]

AbsOf(n) == IF n < 0 THEN -n ELSE n
Least(a, b) == IF a < b THEN a ELSE b
Greatest(a, b) == IF a < b THEN b ELSE a
Clamp(n, low, high) == Least(high, Greatest(low, n))

Near(a, b) == AbsOf(a - b) <= Tolerance
PointsEqual(a, b) == Near(a.x, b.x) /\ Near(a.y, b.y)
AddPoint(a, b) == Pt(a.x + b.x, a.y + b.y)
Minus(a, b) == Pt(a.x - b.x, a.y - b.y)

\* Math.round(n / grid) * grid: halves go up.
SnapValue(n) == ((2 * n + Grid) \div (2 * Grid)) * Grid
SnapPoint(p) == Pt(SnapValue(p.x), SnapValue(p.y))

\* The middle between a and b, snapped.
SnapMiddle(a, b) == ((a + b + Grid) \div (2 * Grid)) * Grid

-----------------------------------------------------------------------------
(* Sides and turns.                                                        *)

Sides == <<"right", "bottom", "left", "top">>

SideIndex(side) == CHOOSE i \in 1..4 : Sides[i] = side

NormalizeRotation(degrees) == ((degrees % 360) \div 90) * 90

RotateOffset(p, rotation) ==
    CASE rotation = 90  -> Pt(-p.y, p.x)
      [] rotation = 180 -> Pt(-p.x, -p.y)
      [] rotation = 270 -> Pt(p.y, -p.x)
      [] OTHER          -> p

RotateSide(side, rotation) == Sides[((SideIndex(side) - 1 + rotation \div 90) % 4) + 1]

OppositeSide(side) == RotateSide(side, 180)

MirrorSide(side) == IF side \in {"left", "right"} THEN OppositeSide(side) ELSE side

-----------------------------------------------------------------------------
(* Rectangles.                                                             *)

RectFromPoints(a, b) ==
    [x |-> Least(a.x, b.x), y |-> Least(a.y, b.y), width |-> AbsOf(a.x - b.x), height |-> AbsOf(a.y - b.y)]

RectContains(r, p, pad) ==
    /\ p.x \in (r.x - pad)..(r.x + r.width + pad)
    /\ p.y \in (r.y - pad)..(r.y + r.height + pad)

RectsIntersect(a, b) ==
    /\ a.x <= b.x + b.width /\ b.x <= a.x + a.width
    /\ a.y <= b.y + b.height /\ b.y <= a.y + a.height

RectContainsRect(outer, inner) ==
    /\ inner.x >= outer.x /\ inner.x + inner.width <= outer.x + outer.width
    /\ inner.y >= outer.y /\ inner.y + inner.height <= outer.y + outer.height

ExpandRect(r, pad) ==
    [x |-> r.x - pad, y |-> r.y - pad, width |-> r.width + 2 * pad, height |-> r.height + 2 * pad]

PolylineBounds(points) ==
    LET xs == {points[i].x : i \in DOMAIN points}
        ys == {points[i].y : i \in DOMAIN points}
    IN  IF points = << >> THEN [x |-> 0, y |-> 0, width |-> 0, height |-> 0]
        ELSE [x |-> Min(xs), y |-> Min(ys), width |-> Max(xs) - Min(xs), height |-> Max(ys) - Min(ys)]

-----------------------------------------------------------------------------
(* Segments and polylines.                                                 *)

IsAxisAligned(a, b) == Near(a.x, b.x) \/ Near(a.y, b.y)

Dot(a, b) == a.x * b.x + a.y * b.y

\* The distance from p to the segment ab is at most d: to an end where the foot of the
\* perpendicular falls outside, else to the line through a and b.
WithinOfSegment(p, a, b, d) ==
    LET ab == Minus(b, a)
        ap == Minus(p, a)
        bp == Minus(p, b)
        cross == ab.x * ap.y - ab.y * ap.x
    IN  IF Dot(ap, ab) <= 0 THEN Dot(ap, ap) <= d * d
        ELSE IF Dot(bp, ab) >= 0 THEN Dot(bp, bp) <= d * d
        ELSE cross * cross <= d * d * Dot(ab, ab)

EndOf(points) == points[Len(points)]

Cleaned(points) ==
    FoldLeft(LAMBDA kept, p : IF kept # << >> /\ PointsEqual(EndOf(kept), p) THEN kept ELSE Append(kept, p),
             << >>, points)

Straight(a, b, c) == (Near(a.x, b.x) /\ Near(b.x, c.x)) \/ (Near(a.y, b.y) /\ Near(b.y, c.y))

\* Drops repeated points, then interior points on a straight run.
SimplifyPolyline(points) ==
    LET p == Cleaned(points)
        corners == FoldLeft(LAMBDA kept, i : IF Straight(EndOf(kept), p[i], p[i + 1]) THEN kept ELSE Append(kept, p[i]),
                            <<p[1]>>, [k \in 1..(Len(p) - 2) |-> k + 1])
    IN  IF Len(p) < 3 THEN p ELSE Append(corners, EndOf(p))

\* A corner in every diagonal run, horizontal first unless verticalFirst.
Orthogonalize(points, verticalFirst) ==
    LET bend(a, b) == IF verticalFirst THEN Pt(a.x, b.y) ELSE Pt(b.x, a.y)
        step(kept, p) == IF IsAxisAligned(EndOf(kept), p) THEN Append(kept, p)
                         ELSE kept \o <<bend(EndOf(kept), p), p>>
    IN  IF Len(points) < 2 THEN points
        ELSE SimplifyPolyline(FoldLeft(step, <<points[1]>>, Tail(points)))

-----------------------------------------------------------------------------
(* Routing.                                                                *)

PreviewSegment(from, cursor, verticalFirst) == Orthogonalize(<<from, cursor>>, verticalFirst)

=============================================================================
