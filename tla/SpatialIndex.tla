---------------------------- MODULE SpatialIndex ---------------------------
(***************************************************************************)
(* What is under the pointer, or in a window dragged on the canvas           *)
(* (spatial.ts): item bounds in a grid of cells, and the item a click hits.  *)
(* A sheet is LineEdits', its parts in the order of their ids and then its   *)
(* lines; labels and notes are left out.                                     *)
(***************************************************************************)
EXTENDS LineEdits

CONSTANTS
    ShelfSize,   \* the index's cellSize
    LockedIds,   \* items that are locked, or on a layer locked or hidden
    LabelHeight, \* of the strip above equipment that bears its name
    Probes       \* points a test clicks on, and corners of its windows

ASSUME SpatialAssumption == ShelfSize \in Nat \ {0}

\* The ids in document order.
DocumentOrder == SetToSortSeq(PartIds, LAMBDA a, b : a < b) \o [n \in DOMAIN wires |-> wires[n].id]

\* Fault: the cell a rectangle reaches into last is left out.
CellKeysToLast(rect) ==
    ((rect.x \div ShelfSize)..((rect.x + rect.width - 1) \div ShelfSize))
        \X ((rect.y \div ShelfSize)..((rect.y + rect.height - 1) \div ShelfSize))

CellKeys(rect) ==
    ((rect.x \div ShelfSize)..((rect.x + rect.width) \div ShelfSize))
        \X ((rect.y \div ShelfSize)..((rect.y + rect.height) \div ShelfSize))

\* The index of the sheet: every item with its bounds and the cells it is in.
Shelves == [n \in DOMAIN DocumentOrder |->
    LET rect == BoundsOf(DocumentOrder[n]) IN [id |-> DocumentOrder[n], rect |-> rect, cells |-> CellKeys(rect)]]

Query(shelves, rect) ==
    LET keys == CellKeys(rect) IN SelectSeq(shelves, LAMBDA s : s.cells \cap keys # {} /\ RectsIntersect(s.rect, rect))

QueryContained(shelves, rect) == SelectSeq(Query(shelves, rect), LAMBDA s : RectContainsRect(rect, s.rect))

-----------------------------------------------------------------------------
(* Hits.  A score is a class and a measure in it: ports by their distance,   *)
(* bodies of symbols by their area, vertices and segments of lines, then     *)
(* equipment, hit on its border or its name only.                            *)

HitAt(id, part, class, measure) == [id |-> id, part |-> part, class |-> class, measure |-> measure]

Reach == SnapRadius
Within(p, q) == Squared(p, q) <= Reach * Reach

PortHits(id, p) ==
    {HitAt(id, "port", 0, Squared(port.position, p)) : port \in {q \in PortsOf(id, placed[id]) : Within(q.position, p)}}

OnBorder(rect, p) ==
    LET inner == ExpandRect(rect, -Reach)
    IN  RectContains(rect, p, Reach) /\ ~(inner.width > 0 /\ inner.height > 0 /\ RectContains(inner, p, 0))

OnName(rect, p) ==
    RectContains([x |-> rect.x, y |-> rect.y - LabelHeight, width |-> rect.width, height |-> LabelHeight], p, Reach)

BodyHits(id, rect, p) ==
    LET hit == IF id \in EquipmentIds THEN OnBorder(rect, p) \/ OnName(rect, p) ELSE RectContains(rect, p, Reach)
    IN  IF hit THEN {HitAt(id, "body", IF id \in EquipmentIds THEN 4 ELSE 1, rect.width * rect.height)} ELSE {}

LineHits(id, p) ==
    LET points == wires[CHOOSE n \in DOMAIN wires : wires[n].id = id].points
        gap(i) == Squared(Projected(p, points[i], points[i + 1]), p)
    IN  {HitAt(id, "vertex", 2, 0) : i \in {j \in DOMAIN points : Within(points[j], p)}}
        \cup {HitAt(id, "segment", 3, gap(i)) : i \in {j \in 1..(Len(points) - 1) : gap(j) <= Reach * Reach}}

HitsOf(shelf, p) ==
    IF shelf.id \in LockedIds THEN {}
    ELSE IF shelf.id \in PartIds THEN PortHits(shelf.id, p) \cup BodyHits(shelf.id, shelf.rect, p)
    ELSE LineHits(shelf.id, p)

Beats(a, b) == a.class < b.class \/ (a.class = b.class /\ a.measure < b.measure)

\* hitTest: of the best hits the first item's.  The set is empty where nothing is hit.
HitTest(shelves, p) ==
    LET near == Query(shelves, [x |-> p.x - Reach, y |-> p.y - Reach, width |-> 2 * Reach, height |-> 2 * Reach])
        hits == UNION {{[at |-> n, hit |-> h] : h \in HitsOf(near[n], p)} : n \in DOMAIN near}
        best == {h \in hits : \A g \in hits : ~Beats(g.hit, h.hit)}
    IN  {h.hit : h \in {b \in best : \A c \in best : b.at <= c.at}}

-----------------------------------------------------------------------------
\* A window picks the items that intersect it, or lie in it, in document order, and a click an
\* item no other beats, wherever it is on the sheet: the cells hide nothing a scan of the whole
\* sheet finds.  A scan goes by what is drawn, so it does not count the strip above equipment.
PickingMatchesScan ==
    wires # << >> => \A shelves \in {Shelves}, order \in {DocumentOrder} :
        LET ids(found) == [n \in DOMAIN found |-> found[n].id]
            scan(p) == UNION {{h \in HitsOf(shelves[n], p) : h.part # "body" \/ h.id \notin EquipmentIds \/ OnBorder(shelves[n].rect, p)}
                              : n \in DOMAIN shelves}
        IN  /\ \A rect \in {RectFromPoints(p, q) : p, q \in Probes} :
                /\ ids(Query(shelves, rect)) = SelectSeq(order, LAMBDA id : RectsIntersect(BoundsOf(id), rect))
                /\ ids(QueryContained(shelves, rect)) = SelectSeq(order, LAMBDA id : RectContainsRect(rect, BoundsOf(id)))
            /\ \A p \in Probes :
                /\ HitTest(shelves, p) = {} => scan(p) = {}
                /\ \A hit \in HitTest(shelves, p), other \in scan(p) : ~Beats(other, hit)

=============================================================================
