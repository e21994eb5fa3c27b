----------------------------- MODULE LineEdits ------------------------------
(***************************************************************************)
(* The edits that keep lines attached (edit.ts), over the ports of placed   *)
(* symbols and equipment (library.ts, connectivity.ts) and the cursor's     *)
(* snapping (snap.ts).  Moving, turning or mirroring a symbol drags the      *)
(* ends of the lines on its ports along; ends that tee onto a line so         *)
(* changed follow it once; equipment takes what is drawn inside it.          *)
(***************************************************************************)
EXTENDS Connectivity

CONSTANTS
    PartIds,       \* ids of symbols and equipment
    EquipmentIds,  \* those that are equipment
    PortDefs,      \* PortDefs[id]: its ports (nozzles) before placement, [port, at, side, kind]
    SizeOf,        \* SizeOf[id]: [width, height] of its bounds
    InitialParts, InitialWires,
    SnapRadius,    \* of ports and vertices; segments snap at half of it
    Deltas,        \* how far one edit moves
    MaxCoordinate, \* bound: coordinates
    MaxEdits       \* bound: edits

VARIABLES
    placed,   \* placed[id] = [at, rotation, mirror]
    wires,    \* the lines in document order, [id, points]
    edits     \* edits made: bounds the run

wiringVars == <<placed, wires, edits>>

\* symbolPorts: mirror, then turn, then translate; nozzles are only translated.
WorldPort(id, part, def) ==
    LET offset == IF part.mirror THEN Pt(-def.at.x, def.at.y) ELSE def.at
        side == IF part.mirror THEN MirrorSide(def.side) ELSE def.side
    IN  [item |-> id, port |-> def.port, kind |-> def.kind,
         side |-> RotateSide(side, part.rotation),
         position |-> AddPoint(part.at, RotateOffset(offset, part.rotation))]

PortsOf(id, part) == {WorldPort(id, part, def) : def \in PortDefs[id]}

IndexPorts(parts) == UNION {PortsOf(id, parts[id]) : id \in PartIds}

\* symbolBounds, itemBounds: the corners turned about the centre; equipment has its corner there.
PartBounds(id, part) ==
    LET size == SizeOf[id]
        upright == part.rotation \in {0, 180}
        w == IF upright THEN size.width ELSE size.height
        h == IF upright THEN size.height ELSE size.width
    IN  IF id \in EquipmentIds THEN [x |-> part.at.x, y |-> part.at.y, width |-> size.width, height |-> size.height]
        ELSE [x |-> part.at.x - w \div 2, y |-> part.at.y - h \div 2, width |-> w, height |-> h]

WiringInit ==
    /\ placed = InitialParts
    /\ wires = InitialWires
    /\ edits = 0

-----------------------------------------------------------------------------
(* One line.                                                               *)

\* The end moves to target and the vertex next to it keeps the run straight.
RetargetLineEnd(points, end, target) ==
    LET last == Len(points)
        e == IF end = 0 THEN 1 ELSE last
        n == IF end = 0 THEN 2 ELSE last - 1
        old == points[e]
        beside == points[n]
        corner == IF old.y = beside.y THEN Pt(target.x, beside.y) ELSE Pt(beside.x, target.y)
        slid == IF old.x = beside.x THEN Pt(target.x, beside.y) ELSE Pt(beside.x, target.y)
        bent == <<target, corner, beside>>
    IN  IF last < 2 THEN points
        ELSE IF last = 2 /\ IsAxisAligned(target, beside) THEN [points EXCEPT ![e] = target]
        ELSE SimplifyPolyline(IF last > 2 THEN [points EXCEPT ![e] = target, ![n] = slid]
                              ELSE IF end = 0 THEN bent ELSE Reverse(bent))

\* Moves segment i across itself; an end segment grows a corner so that its end stays.
DragSegment(points, i, coordinate) ==
    LET grownFirst == IF i = 1 THEN <<points[1]>> \o points ELSE points
        s == IF i = 1 THEN 2 ELSE i
        next == IF s = Len(grownFirst) - 1 THEN Append(grownFirst, EndOf(grownFirst)) ELSE grownFirst
        shifted(p) == IF next[s].y = next[s + 1].y THEN Pt(p.x, coordinate) ELSE Pt(coordinate, p.y)
    IN  SimplifyPolyline([next EXCEPT ![s] = shifted(next[s]), ![s + 1] = shifted(next[s + 1])])

-----------------------------------------------------------------------------
(* Lines that follow.                                                      *)

NoMove == [from |-> Pt(-1, -1), to |-> Pt(-1, -1)]

\* The port move that starts at p; of several the one set last.
MoveAt(moves, p) ==
    LET at == {i \in DOMAIN moves : moves[i].from = p}
    IN  IF at = {} THEN NoMove ELSE moves[Max(at)]

RetargetedAt(points, end, move) == IF move = NoMove THEN points ELSE RetargetLineEnd(points, end, move.to)

BothEnds == <<0, 1>>

EndAt(points, end) == IF end = 0 THEN StartOf(points) ELSE EndOf(points)

Retargeted(points, moves) ==
    FoldLeft(LAMBDA ps, end : RetargetedAt(ps, end, MoveAt(moves, EndAt(ps, end))), points, BothEnds)

\* Where an end on segment ab goes when the segment does: its projection.
Projected(p, a, b) ==
    IF a.y = b.y THEN Pt(Clamp(p.x, Least(a.x, b.x), Greatest(a.x, b.x)), a.y)
    ELSE Pt(a.x, Clamp(p.y, Least(a.y, b.y), Greatest(a.y, b.y)))

\* An end at p that lies on a segment of the first changed line it touches follows that
\* segment; spots[n] is where p is on changed line n.
FollowSpot(points, end, p, spots, changed) ==
    LET onto == {n \in DOMAIN spots : spots[n].kind = "segment" /\ spots[n].at < Len(changed[n].after)}
        first == Min(onto)
        at == spots[first].at
        target == Projected(p, changed[first].after[at], changed[first].after[at + 1])
    IN  IF onto = {} \/ target = p THEN points ELSE RetargetLineEnd(points, end, target)

FollowEnd(points, end, p, changed) ==
    FollowSpot(points, end, p, [n \in DOMAIN changed |-> LocateOnLine(changed[n].before, p)], changed)

FollowTees(points, changed) ==
    FoldLeft(LAMBDA ps, end : FollowEnd(ps, end, EndAt(ps, end), changed), points, BothEnds)

\* Fault: lines on the ports stay where they are.
RetargetNone(lines, moves, skip) == lines

Free(line, skip) == line.id \notin skip /\ Len(line.points) >= 2

\* The lines as moved ports leave them, then those on the lines so changed.
Followed(lines, after, skip) ==
    LET all == [n \in DOMAIN lines |-> [before |-> lines[n].points, after |-> after[n]]]
        changed == SelectSeq(all, LAMBDA c : c.before # c.after)
    IN  [n \in DOMAIN lines |-> [lines[n] EXCEPT !.points =
            IF after[n] # @ \/ ~Free(lines[n], skip) THEN after[n] ELSE FollowTees(@, changed)]]

RetargetAttachedLines(lines, moves, skip) ==
    Followed(lines, [n \in DOMAIN lines |-> IF Free(lines[n], skip) THEN Retargeted(lines[n].points, moves)
                                            ELSE lines[n].points] \o << >>, skip)

-----------------------------------------------------------------------------
(* Edits.                                                                  *)

\* expandSelectionForEquipment, one level.
ExpandSelection(ids) ==
    ids \cup UNION {
        {id \in PartIds \ {e} : RectContainsRect(PartBounds(e, placed[e]), PartBounds(id, placed[id]))}
        \cup {wires[n].id : n \in {m \in DOMAIN wires :
                RectContainsRect(PartBounds(e, placed[e]), PolylineBounds(wires[m].points))}} : e \in ids \cap EquipmentIds}

\* The port positions before and after, of the parts in the order of their ids.
PortMoves(ids, before, parts) ==
    LET moves(id) == {[from |-> WorldPort(id, before[id], def).position, to |-> WorldPort(id, parts[id], def).position] :
                         def \in PortDefs[id]}
    IN  FlattenSeq([k \in 1..Cardinality(ids) |-> SetToSeq(moves(SetToSortSeq(ids, LAMBDA a, b : a < b)[k]))])

OnSheet(p) == p.x \in 0..MaxCoordinate /\ p.y \in 0..MaxCoordinate

InBounds(parts, lines) ==
    /\ \A id \in PartIds : OnSheet(parts[id].at)
    /\ \A n \in DOMAIN lines : \A i \in DOMAIN lines[n].points : OnSheet(lines[n].points[i])

Drawing == [parts |-> placed, lines |-> wires]

Redraw(sheet) ==
    /\ edits < MaxEdits /\ InBounds(sheet.parts, sheet.lines)
    /\ placed' = sheet.parts
    /\ wires' = sheet.lines
    /\ edits' = edits + 1

\* The edit that leaves these parts, once attached lines have followed.
Rearrange(ids, parts) ==
    Redraw([parts |-> parts, lines |-> RetargetAttachedLines(wires, PortMoves(ids, placed, parts), ids)])

\* A sheet after moveItemsCommand: what is named by delta, the lines on it as far as they must.
Moved(sheet, ids, delta) ==
    LET parts == [id \in ids \cap PartIds |-> [sheet.parts[id] EXCEPT !.at = AddPoint(@, delta)]] @@ sheet.parts
        translated(points) == [i \in DOMAIN points |-> AddPoint(points[i], delta)]
        lines == [n \in DOMAIN sheet.lines |-> IF sheet.lines[n].id \in ids
                     THEN [sheet.lines[n] EXCEPT !.points = translated(@)] ELSE sheet.lines[n]]
        moves == PortMoves(ids \cap PartIds, sheet.parts, parts)
    IN  [parts |-> parts, lines |-> RetargetAttachedLines(lines, moves, ids) \o << >>]  \* \o: TLC keeps it evaluated

MoveItems(ids, delta) == Redraw(Moved(Drawing, ids, delta))

Symbols(ids) == (ids \cap PartIds) \ EquipmentIds

\* rotateItemsCommand
RotateItems(ids, by) ==
    /\ Symbols(ids) # {}
    /\ Rearrange(Symbols(ids), [id \in PartIds |-> IF id \in Symbols(ids)
           THEN [placed[id] EXCEPT !.rotation = NormalizeRotation(@ + by)] ELSE placed[id]])

\* mirrorItemsCommand
MirrorItems(ids) ==
    /\ Symbols(ids) # {}
    /\ Rearrange(Symbols(ids), [id \in PartIds |-> IF id \in Symbols(ids)
           THEN [placed[id] EXCEPT !.mirror = ~@] ELSE placed[id]])

DragSegmentOf(n, i, coordinate) ==
    LET after == [wires EXCEPT ![n].points = DragSegment(@, i, coordinate)]
    IN  /\ edits < MaxEdits /\ i < Len(wires[n].points) /\ InBounds(placed, after)
        /\ wires' = after
        /\ edits' = edits + 1
        /\ UNCHANGED placed

-----------------------------------------------------------------------------
(* Aligning and distributing.                                              *)

\* itemBounds: half the default stroke, a tenth of the default grid, around a line.
BoundsOf(id) ==
    IF id \in PartIds THEN PartBounds(id, placed[id])
    ELSE LET n == CHOOSE m \in DOMAIN wires : wires[m].id = id IN ExpandRect(PolylineBounds(wires[n].points), Grid \div 10)

AlignModes == {"left", "right", "top", "bottom", "centerX", "centerY"}

\* One item after the other is moved by its own distance, unless that is none; lines follow each move.
MovedEach(ids, shifts) ==
    LET after[n \in 0..Len(ids)] ==
            IF n = 0 THEN Drawing
            ELSE LET sheet == after[n - 1] IN IF shifts[n] = Pt(0, 0) THEN sheet ELSE Moved(sheet, {ids[n]}, shifts[n])
    IN  after[Len(ids)]

NoShift(shifts) == \A n \in DOMAIN shifts : shifts[n] = Pt(0, 0)

\* alignSelection: to the extreme edge of the selection's bounds or its snapped middle, by whole grid units.
AlignSelection(ids, mode) ==
    LET bounds == [n \in DOMAIN ids |-> BoundsOf(ids[n])]
        rects == ToSet(bounds)
        low == Pt(Min({r.x : r \in rects}), Min({r.y : r \in rects}))
        high == Pt(Max({r.x + r.width : r \in rects}), Max({r.y + r.height : r \in rects}))
        shift(r) ==
            CASE mode = "left" -> Pt(SnapValue(low.x - r.x), 0)
              [] mode = "right" -> Pt(SnapValue(high.x - r.x - r.width), 0)
              [] mode = "top" -> Pt(0, SnapValue(low.y - r.y))
              [] mode = "bottom" -> Pt(0, SnapValue(high.y - r.y - r.height))
              [] mode = "centerX" -> Pt(SnapMiddle(2 * SnapMiddle(low.x, high.x) - 2 * r.x - r.width, 0), 0)
              [] OTHER -> Pt(0, SnapMiddle(2 * SnapMiddle(low.y, high.y) - 2 * r.y - r.height, 0))
        shifts == [n \in DOMAIN ids |-> shift(bounds[n])]
    IN  Len(ids) >= 2 /\ ~NoShift(shifts) /\ Redraw(MovedEach(ids, shifts))

\* distributeSelection: the centres between the outermost two evenly apart, on the grid.
DistributeSelection(ids, axis) ==
    LET twice(id) == LET r == BoundsOf(id) IN IF axis = "x" THEN 2 * r.x + r.width ELSE 2 * r.y + r.height
        sorted == SortSeq(ids, LAMBDA a, b : twice(a) < twice(b))
        centre == [n \in DOMAIN ids |-> twice(sorted[n])]
        gaps == Len(ids) - 1
        target(n) == LET sum == centre[1] * gaps + (EndOf(centre) - centre[1]) * (n - 1)
                     IN  ((sum + gaps * Grid) \div (2 * gaps * Grid)) * Grid
        shift(n) == LET d == (2 * target(n) - centre[n]) \div 2 IN IF axis = "x" THEN Pt(d, 0) ELSE Pt(0, d)
        shifts == [n \in DOMAIN ids |-> IF n \in 2..gaps THEN shift(n) ELSE Pt(0, 0)]
    IN  Len(ids) >= 3 /\ ~NoShift(shifts) /\ Redraw(MovedEach(sorted, shifts))

-----------------------------------------------------------------------------
(* Drawing a wire.                                                         *)

Squared(p, q) == Dot(Minus(p, q), Minus(p, q))

Nearest(points, raw) == CHOOSE p \in points : \A q \in points : Squared(p, raw) <= Squared(q, raw)

\* snapCursor: a port, else a vertex, else a segment, else the grid.
SnapCursor(raw) ==
    LET within(p) == Squared(p, raw) <= SnapRadius * SnapRadius
        ports == {q.position : q \in {r \in IndexPorts(placed) : within(r.position)}}
        vertices == UNION {{p \in ToSet(wires[n].points) : within(p)} : n \in DOMAIN wires}
        segments == {<<n, i>> \in (DOMAIN wires) \X (1..Max({Len(wires[n].points) : n \in DOMAIN wires} \cup {1})) :
                        i \in Segments(wires[n]) /\
                        WithinOfSegment(raw, wires[n].points[i], wires[n].points[i + 1], SnapRadius \div 2)}
        onto == {Projected(SnapPoint(raw), wires[s[1]].points[s[2]], wires[s[1]].points[s[2] + 1]) : s \in segments}
    IN  IF ports # {} THEN Nearest(ports, raw)
        ELSE IF vertices # {} THEN Nearest(vertices, raw)
        ELSE IF onto # {} THEN Nearest(onto, raw)
        ELSE SnapPoint(raw)

AddWire(id, points) ==
    /\ edits < MaxEdits /\ Len(points) >= 2
    /\ \A n \in DOMAIN wires : wires[n].id # id
    /\ wires' = Append(wires, [id |-> id, points |-> points])
    /\ edits' = edits + 1
    /\ UNCHANGED placed

\* Two clicks of the wire tool: the preview between them, if it has a length.
DrawWire(id, from, to, verticalFirst) ==
    AddWire(id, SimplifyPolyline(PreviewSegment(SnapCursor(from), SnapCursor(to), verticalFirst)) \o << >>)

WireIds == {wires[n].id : n \in DOMAIN wires}

LinesAmong(ids) == \E n \in DOMAIN ids : ids[n] \notin PartIds
Rearranges(ids) == (\E mode \in AlignModes : AlignSelection(ids, mode)) \/ (\E axis \in {"x", "y"} : DistributeSelection(ids, axis))

CONSTANTS Clicks, NewWire, Selections

WiringNext ==
    \/ \E ids \in SUBSET (PartIds \cup WireIds) \ {{}}, delta \in Deltas : MoveItems(ExpandSelection(ids), delta)
    \/ \E ids \in SUBSET PartIds : RotateItems(ids, 90) \/ MirrorItems(ids)
    \/ edits = 0 /\ \E ids \in Selections : Rearranges(ids)  \* bound: only as the first edit
    \/ \E n \in DOMAIN wires, i \in 1..3, c \in {SnapValue(MaxCoordinate \div 4), SnapValue(MaxCoordinate \div 2)} : DragSegmentOf(n, i, c)
    \/ \E from, to \in Clicks, verticalFirst \in BOOLEAN : DrawWire(NewWire, from, to, verticalFirst)

WiringSpec == WiringInit /\ [][WiringNext]_wiringVars

-----------------------------------------------------------------------------
(* Properties.                                                             *)

Drawn == SelectSeq(wires, LAMBDA line : Len(line.points) >= 2)

\* Lines joined end to end, by a tee or through a port, whatever the index says.
Touch(lines, ports, n, m) ==
    LET on(a, b) == \E e \in {0, 1} : LocateOnLine(lines[b].points, EndPoint(lines[a], e)) # Elsewhere
        ends(a) == {EndPoint(lines[a], e) : e \in {0, 1}}
    IN  n = m \/ on(n, m) \/ on(m, n) \/ ends(n) \cap ends(m) \cap {port.position : port \in ports} # {}

\* Two lines are in one net exactly if touching lines lead from one to the other: the
\* segment index hides no line an end lies on, the unions lose no link.
NetsAreComponents ==
    \A lines \in {Drawn}, ports \in {IndexPorts(placed)} :
        LET all == DOMAIN lines
            links == {pair \in all \X all : Touch(lines, ports, pair[1], pair[2])}
            reach[k \in 0..Len(lines), n \in all] ==
                IF k = 0 THEN {n} ELSE UNION {{m \in all : <<l, m>> \in links} : l \in reach[k - 1, n]}
        IN  LineNets(lines, ports) = {reach[Len(lines), n] : n \in all}

\* The hops of a line are those a scan of all pairs of segments finds, in the order of the scan.
CrossingsMatchScan ==
    \A lines \in {Drawn} : \A n \in DOMAIN lines :
      LET line == lines[n]
          scan == {<<m, i, k>> \in (DOMAIN lines) \X (1..6) \X (1..6) :
              /\ m # n /\ i \in Horizontals(line) /\ k \in Segments(lines[m])
              /\ LET h0 == line.points[i]
                     h1 == line.points[i + 1]
                     v0 == lines[m].points[k]
                     v1 == lines[m].points[k + 1]
                 IN  /\ v0.x = v1.x
                     /\ v0.x \in (Least(h0.x, h1.x) + Tolerance + 1)..(Greatest(h0.x, h1.x) - Tolerance - 1)
                     /\ h0.y \in (Least(v0.y, v1.y) + Tolerance + 1)..(Greatest(v0.y, v1.y) - Tolerance - 1)}
          sorted == SetToSortSeq(scan, LAMBDA a, b : a[1] < b[1] \/ (a[1] = b[1] /\
                        (a[2] < b[2] \/ (a[2] = b[2] /\ a[3] < b[3]))))
      IN  Hops(lines, n) = [j \in DOMAIN sorted |-> Pt(lines[sorted[j][1]].points[sorted[j][3]].x, line.points[sorted[j][2]].y)]

IsOrthogonal(wire) == \A i \in 1..(Len(wire.points) - 1) : IsAxisAligned(wire.points[i], wire.points[i + 1])

\* A line on a port of a part that is moved, turned or mirrored keeps to horizontal and vertical
\* runs, and is on a port of that part afterwards or has shrunk to a point.  The latter not so
\* when lines are aligned: each is moved by its own distance.
EndsFollowPorts ==
    [][\A n \in DOMAIN wires, e \in {0, 1} :
         LET on == {port.item : port \in PortsAt(IndexPorts(placed), EndPoint(wires[n], e))}
         IN  Len(wires[n].points) >= 2 /\ on # {} /\ placed' # placed =>
               /\ IsOrthogonal(wires'[n])
               /\ \/ Len(wires'[n].points) < 2
                  \/ \E id \in on : \E port \in PortsOf(id, placed'[id]) : port.position = EndPoint(wires'[n], e)
                  \/ \A id \in on : placed'[id] = placed[id]
                  \/ \E ids \in Selections : LinesAmong(ids) /\ Rearranges(ids)]_wiringVars

=============================================================================
