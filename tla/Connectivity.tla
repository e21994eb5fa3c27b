---------------------------- MODULE Connectivity ----------------------------
(***************************************************************************)
(* What is connected on a sheet, derived from geometry alone               *)
(* (connectivity.ts, segmentIndex.ts, lines.ts): ports by exact position,   *)
(* lines by the grid index over their segments, nets by union-find,         *)
(* junction dots and the hops where unconnected lines cross.                *)
(*                                                                         *)
(* "lines" is the sequence of the lines that have at least two points, each *)
(* [id, points]; "ports" the set of [item, port, position, side, kind].     *)
(***************************************************************************)
EXTENDS Geometry

CONSTANT CellSize  \* of the segment index: fixed, the sheets here are small

ASSUME CellAssumption == CellSize \in Nat \ {0}

StartOf(points) == points[1]

EndPoint(line, end) == IF end = 0 THEN StartOf(line.points) ELSE EndOf(line.points)

Segments(line) == 1..(Len(line.points) - 1)

Elsewhere == [kind |-> "none", at |-> 0]

\* locateOnLine: an end before a segment, and of the segments the first.
LocateOnLine(points, p) ==
    LET hits == {i \in 1..(Len(points) - 1) : WithinOfSegment(p, points[i], points[i + 1], Tolerance)}
    IN  IF PointsEqual(StartOf(points), p) THEN [kind |-> "end", at |-> 0]
        ELSE IF PointsEqual(EndOf(points), p) THEN [kind |-> "end", at |-> 1]
        ELSE IF hits # {} THEN [kind |-> "segment", at |-> Min(hits)]
        ELSE Elsewhere

-----------------------------------------------------------------------------
(* The segment index.                                                      *)

Cell(n) == n \div CellSize

\* Fault: a segment is kept in the cells it passes through, not in those near it.
PadNone == 0

Pad == 2 * Tolerance

\* The point's cell is one of those the segment ab is kept in.
InCellsOf(p, a, b) ==
    /\ Cell(p.x) \in Cell(Least(a.x, b.x) - Pad)..Cell(Greatest(a.x, b.x) + Pad)
    /\ Cell(p.y) \in Cell(Least(a.y, b.y) - Pad)..Cell(Greatest(a.y, b.y) + Pad)

\* segments.near: the lines with a segment in the point's cell.
LinesNear(lines, p) ==
    {n \in DOMAIN lines : \E i \in Segments(lines[n]) : InCellsOf(p, lines[n].points[i], lines[n].points[i + 1])}

-----------------------------------------------------------------------------
(* Ends, nets and junctions.                                               *)

PortNode(port) == <<port.item, port.port>>

PortsAt(ports, p) == {port \in ports : port.position = p}

\* The lines the end of line n touches, each with where it touches it.
LineAttachments(lines, n, end) ==
    LET p == EndPoint(lines[n], end)
    IN  {<<m, LocateOnLine(lines[m].points, p)>> : m \in
            {k \in LinesNear(lines, p) \ {n} : LocateOnLine(lines[k].points, p) # Elsewhere}}

LineEnds(lines, ports) ==
    {[line |-> n, end |-> e, position |-> EndPoint(lines[n], e),
      ports |-> PortsAt(ports, EndPoint(lines[n], e)), onto |-> LineAttachments(lines, n, e)] :
        n \in DOMAIN lines, e \in {0, 1}}

\* Fault: the parents of the nodes are linked, not of their roots.
UnitedDirectly(parent, root, a, b) == [parent EXCEPT ![b] = a]

United(parent, root, a, b) == IF root[a] = root[b] THEN parent ELSE [parent EXCEPT ![root[b]] = root[a]]

\* find: the parent's parent until it is its own.
Roots(parent) ==
    LET up[n \in 0..Cardinality(DOMAIN parent)] ==
            IF n = 0 THEN parent ELSE [node \in DOMAIN parent |-> parent[up[n - 1][node]]]
    IN  up[Cardinality(DOMAIN parent)]

\* The roots of lines and ports after a union for every attachment of every end.
NetRoots(lines, ports) ==
    LET ends == LineEnds(lines, ports)
        nodes == {<<"line", n>> : n \in DOMAIN lines} \cup {<<"port", PortNode(port)>> : port \in ports}
        links == UNION {{<<<<"line", e.line>>, <<"port", PortNode(port)>>>> : port \in e.ports}
                        \cup {<<<<"line", e.line>>, <<"line", a[1]>>>> : a \in e.onto} : e \in ends}
        parent == FoldSet(LAMBDA link, parents : United(parents, Roots(parents), link[1], link[2]),
                          [node \in nodes |-> node], links)
    IN  Roots(parent)

\* lineNet: the lines of each net.
ByRoot(roots, lines) ==
    {{n \in DOMAIN lines : roots[<<"line", n>>] = root} : root \in {roots[<<"line", m>>] : m \in DOMAIN lines}}

LineNets(lines, ports) == ByRoot(NetRoots(lines, ports), lines)

DanglingEnds(lines, ports) == {e \in LineEnds(lines, ports) : e.ports = {} /\ e.onto = {}}

UsedPorts(lines, ports) == UNION {e.ports : e \in LineEnds(lines, ports)}

OpenPorts(lines, ports) == ports \ UsedPorts(lines, ports)

\* One arm for each end at the point, two for each segment it lies on.
Arms(lines, ports, p) ==
    LET here == {e \in LineEnds(lines, ports) : e.position = p}
    IN  Cardinality(here) + 2 * FoldSet(LAMBDA e, n : n + Cardinality({a \in e.onto : a[2].kind = "segment"}), 0, here)

Junctions(lines, ports) ==
    {p \in {e.position : e \in LineEnds(lines, ports)} : Arms(lines, ports, p) >= 3}

-----------------------------------------------------------------------------
(* Crossings.                                                              *)

Horizontals(line) == {i \in Segments(line) : line.points[i].y = line.points[i + 1].y}

\* The vertical segments of all lines by x; those of one x in document order.
Verticals(lines) ==
    LET found == {<<n, i>> \in (DOMAIN lines) \X (1..Max({Len(lines[m].points) : m \in DOMAIN lines} \cup {1})) :
                     i \in Segments(lines[n]) /\ lines[n].points[i].x = lines[n].points[i + 1].x}
        x(v) == lines[v[1]].points[v[2]].x
    IN  SetToSortSeq(found, LAMBDA v, w : x(v) < x(w) \/ (x(v) = x(w) /\
            (v[1] < w[1] \/ (v[1] = w[1] /\ v[2] < w[2]))))

\* The binary search for the first vertical right of low.
FirstRight(xs, low) ==
    LET search[k \in 0..Len(xs), end \in 0..Len(xs)] ==
            IF k >= end THEN k
            ELSE LET mid == (k + end) \div 2
                 IN  IF xs[mid + 1] > low THEN search[k, mid] ELSE search[mid + 1, end]
    IN  search[0, Len(xs)] + 1

\* Fault: the span leaves no room for the last segment.
SpanTight(lines) == Max({Len(lines[n].points) - 2 : n \in DOMAIN lines} \cup {1})

Span(lines) == Max({Len(lines[n].points) : n \in DOMAIN lines} \cup {1})

\* computeCrossings for line n: a sort key for every hop, then the hops in the order of keys.
Hops(lines, n) ==
    LET line == lines[n]
        verticals == Verticals(lines)
        xs == [k \in DOMAIN verticals |-> lines[verticals[k][1]].points[verticals[k][2]].x]
        span == Span(lines)
        inside(i, k) ==
            LET h0 == line.points[i]
                h1 == line.points[i + 1]
                v0 == lines[verticals[k][1]].points[verticals[k][2]]
                v1 == lines[verticals[k][1]].points[verticals[k][2] + 1]
            IN  /\ k >= FirstRight(xs, Least(h0.x, h1.x) + Tolerance) /\ xs[k] < Greatest(h0.x, h1.x) - Tolerance
                /\ verticals[k][1] # n
                /\ h0.y > Least(v0.y, v1.y) + Tolerance /\ h0.y < Greatest(v0.y, v1.y) - Tolerance
        keys == {((verticals[q[2]][1] - 1) * span + (q[1] - 1)) * span + (verticals[q[2]][2] - 1) :
                    q \in {r \in Horizontals(line) \X DOMAIN verticals : inside(r[1], r[2])}}
        hop(key) == Pt(lines[(key \div (span * span)) + 1].points[(key % span) + 1].x,
                       line.points[((key \div span) % span) + 1].y)
        sorted == SetToSortSeq(keys, LAMBDA a, b : a < b)
    IN  [k \in DOMAIN sorted |-> hop(sorted[k])]

=============================================================================
