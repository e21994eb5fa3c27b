---------------------------- MODULE EditorTools ----------------------------
(***************************************************************************)
(* An editor session on one sheet (engine/editor.ts) with its canvas        *)
(* (SchematicCanvas.tsx) and the throttled view the derived panels read      *)
(* (useSettledSnapshot.ts).  Coordinates are left out: where a handler       *)
(* depends on what is under the pointer, both outcomes are possible.         *)
(* A document is its set of items and the number of changes made to it.      *)
(***************************************************************************)
EXTENDS Integers, Sequences, FiniteSets

CONSTANTS
    SheetIds,     \* ids of items
    SheetLines,   \* those that are lines
    FirstIds,     \* the items to begin with
    MaxChanges    \* bound: changes of the document and the symbol registry

ASSUME EditorAssumption ==
    SheetLines \subseteq SheetIds /\ FirstIds \subseteq SheetIds /\ MaxChanges \in Nat

VARIABLES
    editor,  \* the store's document, the session and what it derives from both
    canvas   \* the buttons held, and whether they pan

editorVars == <<editor, canvas>>

Tools == {"select", "wire", "place", "label", "equipment", "note", "measure"}
ReadOnlyTools == {"select", "measure"}

NoDragging == [kind |-> "none", moved |-> FALSE]
DragOf(kind) == [kind |-> kind, moved |-> FALSE]

IsDragging(e) == e.drag.kind \in {"move", "segment"}

\* Ids a new item may take: none a document refers to, now or after an undo.
FreshIds(e) ==
    SheetIds \ (e.items \cup UNION {e.past[n] : n \in DOMAIN e.past} \cup UNION {e.future[n] : n \in DOMAIN e.future})

FreshLines(e) == FreshIds(e) \cap SheetLines
FreshBodies(e) == FreshIds(e) \ SheetLines

FirstEditor(readOnly) ==
    [items |-> FirstIds, past |-> << >>, future |-> << >>, no |-> 0,
     tool |-> "select", selection |-> {}, drag |-> NoDragging, wire |-> 0, place |-> FALSE,
     draft |-> FALSE, measure |-> "none", readOnly |-> readOnly, clipboard |-> 0,
     conn |-> 0, stale |-> FALSE, frame |-> FALSE, shown |-> [doc |-> 0, conn |-> 0],
     panel |-> [on |-> FALSE, doc |-> 0, conn |-> 0, timer |-> FALSE, was |-> FALSE, fresh |-> FALSE]]

EditorInit ==
    /\ \E readOnly \in BOOLEAN : editor = FirstEditor(readOnly)
    /\ canvas = [down |-> {}, pan |-> FALSE]
-----------------------------------------------------------------------------
(* What a change tells whom, in order.                                     *)

Refreshed(e) == [e EXCEPT !.stale = FALSE, !.conn = e.no]

\* Reading editor.connectivity brings a deferred recompute forward, and tells nobody.
WithConnectivity(e) == IF e.stale THEN Refreshed(e) ELSE e

TakenBy(e) ==
    LET c == WithConnectivity(e) IN
    IF c.no = c.panel.doc /\ c.conn = c.panel.conn THEN c
    ELSE [c EXCEPT !.panel = [@ EXCEPT !.doc = c.no, !.conn = c.conn, !.fresh = TRUE]]

Flushed(e) == TakenBy([e EXCEPT !.panel.timer = FALSE])

HeardByPanel(e) ==
    LET now == [e EXCEPT !.panel.was = IsDragging(e)]
    IN IF (e.panel.was /\ ~IsDragging(e)) \/ ~e.panel.fresh THEN Flushed(now) ELSE [now EXCEPT !.panel.timer = TRUE]

\* Fault: a recompute that was put off until the drag ends waits for the frame then, too.
EmitWithoutRefresh(e) ==
    LET s == [e EXCEPT !.shown = [doc |-> e.no, conn |-> e.conn]]
    IN IF s.panel.on THEN HeardByPanel(s) ELSE s

Emit(e) ==
    LET c == IF e.stale /\ ~IsDragging(e) THEN Refreshed(e) ELSE e
        s == [c EXCEPT !.shown = [doc |-> c.no, conn |-> c.conn]]
    IN IF s.panel.on THEN HeardByPanel(s) ELSE s

OnDocumentChanged(e) ==
    LET c == IF IsDragging(e) THEN [e EXCEPT !.stale = TRUE, !.frame = TRUE] ELSE Refreshed(e)
    IN Emit([c EXCEPT !.selection = @ \cap e.items])

\* The undo entries that add or remove items; the others leave the set alone.
Stored(e, items) ==
    [e EXCEPT !.items = items, !.past = IF items = e.items THEN @ ELSE Append(@, e.items), !.future = << >>, !.no = @ + 1]

DispatchOn(e, items) == IF e.readOnly THEN e ELSE OnDocumentChanged(Stored(e, items))

\* dispatch, then setState with what the handler changes of the session.
Selecting(e, items, ids) == Emit([DispatchOn(e, items) EXCEPT !.selection = ids])

MayChange(e) == e.readOnly \/ e.no < MaxChanges
-----------------------------------------------------------------------------
(* Tools.                                                                  *)

\* Fault: the line being drawn outlives its tool.
SetToolKeepingWire(e, tool) ==
    IF e.readOnly /\ tool \notin ReadOnlyTools THEN e
    ELSE Emit([e EXCEPT !.tool = tool, !.drag = NoDragging, !.draft = FALSE, !.measure = "none", !.place = tool = "place" /\ @])

SetTool(e, tool) ==
    IF e.readOnly /\ tool \notin ReadOnlyTools THEN e
    ELSE Emit([e EXCEPT !.tool = tool, !.wire = 0, !.drag = NoDragging, !.draft = FALSE, !.measure = "none",
                        !.place = tool = "place" /\ @])

StartPlacing(e) ==
    IF e.readOnly THEN e
    ELSE Emit([e EXCEPT !.tool = "place", !.place = TRUE, !.wire = 0, !.drag = NoDragging, !.selection = {}])

SetReadOnly(e, readOnly) ==
    IF readOnly = e.readOnly THEN e
    ELSE IF ~readOnly THEN Emit([e EXCEPT !.readOnly = FALSE])
    ELSE Emit([e EXCEPT !.readOnly = TRUE, !.tool = IF @ \in ReadOnlyTools THEN @ ELSE "select",
                        !.wire = 0, !.drag = NoDragging, !.place = FALSE, !.draft = FALSE])

Cancelled(e) ==
    IF e.wire > 0 THEN Emit([e EXCEPT !.wire = 0])
    ELSE IF e.measure # "none" THEN Emit([e EXCEPT !.measure = "none"])
    ELSE IF IsDragging(e) THEN Emit([e EXCEPT !.drag = NoDragging])
    ELSE IF e.tool # "select" \/ e.place THEN Emit([e EXCEPT !.tool = "select", !.place = FALSE, !.drag = NoDragging, !.draft = FALSE])
    ELSE Emit([e EXCEPT !.selection = {}])

\* The line in progress becomes an item when it has two points or more.
FinishWire(e, points) ==
    IF e.wire = 0 THEN {e}
    ELSE IF points < 2 THEN {Emit([e EXCEPT !.wire = 0])}
    ELSE {Emit([DispatchOn(e, e.items \cup {id}) EXCEPT !.wire = 0, !.selection = {id}]) : id \in FreshLines(e)}

\* A click of the wire tool ends at another point of the line, or lands on something and finishes it.
WireClicks(e) ==
    IF e.wire = 0 THEN {Emit([e EXCEPT !.wire = 1])}
    ELSE {Emit([e EXCEPT !.wire = points]) : points \in 1..2} \cup FinishWire(e, 2)

\* Labels and notes hand over to the select tool; a placed symbol does not.
AddItem(e) == {Emit([DispatchOn(e, e.items \cup {id}) EXCEPT !.selection = {id}, !.tool = "select"]) : id \in FreshBodies(e)}
PlaceClick(e) == IF e.place THEN {Selecting(e, e.items \cup {id}, {id}) : id \in FreshBodies(e)} ELSE {e}
-----------------------------------------------------------------------------
(* The pointer.                                                            *)

\* What a press of the select tool may do: nothing under it, or an item; with or without Shift.
SelectDowns(e) ==
    {Emit([e EXCEPT !.drag = DragOf("window")])}
    \cup {Emit([Emit([e EXCEPT !.selection = {}]) EXCEPT !.drag = DragOf("window")])}
    \cup UNION { LET picked == IF id \in e.selection THEN e.selection ELSE {id}
                     toggled == IF id \in e.selection THEN e.selection \ {id} ELSE e.selection \cup {id}
                 IN {Emit([e EXCEPT !.selection = toggled])}
                    \cup (IF e.readOnly THEN {Emit([e EXCEPT !.selection = {id}])}
                          ELSE {Emit([e EXCEPT !.selection = picked, !.drag = DragOf("move")])}
                               \cup (IF id \in SheetLines /\ picked = {id}
                                     THEN {Emit([e EXCEPT !.selection = picked, !.drag = DragOf("segment")])} ELSE {}))
                 : id \in e.items }

PointerDowns(e) ==
    CASE e.tool = "wire" -> WireClicks(e)
      [] e.tool = "place" -> PlaceClick(e)
      [] e.tool \in {"label", "note"} -> AddItem(e)
      [] e.tool = "measure" -> {Emit([e EXCEPT !.measure = IF @ = "open" THEN "fixed" ELSE "open"])}
      [] e.tool = "equipment" -> {Emit([e EXCEPT !.drag = DragOf("window"), !.draft = FALSE])}
      [] OTHER -> SelectDowns(e)

\* A step of a move or segment drag changes the document, unless it is less than a grid unit
\* or the line is gone; the session follows.
DragSteps(e) ==
    {Emit(e)} \cup (IF e.drag.kind = "segment" THEN {e} ELSE {})
    \cup (IF MayChange(e) THEN {Emit([DispatchOn(e, e.items) EXCEPT !.drag.moved = e.drag.kind = "move"])} ELSE {})

PointerMoves(e) ==
    CASE e.tool = "equipment" -> {Emit(IF e.drag.kind = "window" THEN [e EXCEPT !.draft = TRUE] ELSE e)}
      [] e.tool \notin {"equipment", "select"} -> {Emit(e)}
      [] e.tool = "select" /\ e.drag.kind = "none" -> {e, Emit(e)}  \* it tells the views only of another item under the pointer
      [] e.tool = "select" /\ e.drag.kind = "window" -> {Emit(e)}
      [] OTHER -> DragSteps(e)

\* A window picks what it touches or contains, with Shift besides what is selected.
WindowEnds(e) ==
    LET picks == SUBSET e.items
        selections == picks \cup {e.selection \cup picked : picked \in picks}
    IN  {Emit([e EXCEPT !.drag = NoDragging, !.selection = ids]) : ids \in selections}

\* A rectangle too small adds nothing.
EquipmentEnds(e) ==
    LET ended == Emit([e EXCEPT !.drag = NoDragging, !.draft = FALSE])
    IN  {ended} \cup AddItem(ended)

\* A plain click on one of several selected items selects that one.
DragEnds(e) ==
    {Emit([e EXCEPT !.drag = NoDragging])}
    \cup (IF e.drag.kind = "move" /\ ~e.drag.moved /\ Cardinality(e.selection) > 1
          THEN {Emit([e EXCEPT !.drag = NoDragging, !.selection = {hit}]) : hit \in e.items} ELSE {})

PointerUps(e) ==
    CASE e.drag.kind = "none" -> {e}
      [] e.drag.kind = "window" -> IF e.tool = "equipment" THEN EquipmentEnds(e) ELSE WindowEnds(e)
      [] OTHER -> DragEnds(e)

DoubleClicks(e) ==
    IF e.tool = "wire" THEN UNION {FinishWire(e, points) : points \in 1..2} ELSE {e}
-----------------------------------------------------------------------------
(* Actions.  A button pressed while another is held is a pointer move, and   *)
(* only the last one let go is a pointer up (handlePointerDown, -Up).        *)

Buttons == {"left", "middle"}

Press(button) ==
    /\ button \notin canvas.down
    /\ IF canvas.down # {}
       THEN /\ canvas' = [canvas EXCEPT !.down = @ \cup {button}]
            /\ IF canvas.pan THEN UNCHANGED editor ELSE editor' \in PointerMoves(editor)
       ELSE \/ canvas' = [down |-> {button}, pan |-> TRUE] /\ UNCHANGED editor  \* the middle one, or with the space key
            \/ /\ button = "left"
               /\ canvas' = [down |-> {button}, pan |-> FALSE]
               /\ MayChange(editor)
               /\ editor' \in PointerDowns(editor)

MovePointer ==
    /\ ~canvas.pan
    /\ editor' \in PointerMoves(editor)
    /\ UNCHANGED canvas

Release(button) ==
    /\ button \in canvas.down
    /\ canvas' = [canvas EXCEPT !.down = @ \ {button}, !.pan = @ /\ canvas.down # {button}]
    /\ IF canvas.down # {button} THEN IF canvas.pan THEN UNCHANGED editor ELSE editor' \in PointerMoves(editor)
       ELSE IF canvas.pan \/ button # "left" THEN UNCHANGED editor
       ELSE MayChange(editor) /\ editor' \in PointerUps(editor)

DoubleClick ==
    /\ MayChange(editor)
    /\ editor' \in DoubleClicks(editor)
    /\ UNCHANGED canvas

PickTool ==
    /\ \/ \E tool \in Tools : editor' = SetTool(editor, tool)
       \/ editor' = StartPlacing(editor)
       \/ editor' = Cancelled(editor)
    /\ UNCHANGED canvas

ChangeReadOnly == (\E readOnly \in BOOLEAN : editor' = SetReadOnly(editor, readOnly)) /\ UNCHANGED canvas

EnterKey ==
    /\ MayChange(editor)
    /\ \E points \in 1..editor.wire : editor' \in FinishWire(editor, points)
    /\ UNCHANGED canvas

\* From the search box, the lists and the checks, which may name an item no longer there.
Select ==
    /\ \/ \E ids \in SUBSET editor.items : editor' = Emit([editor EXCEPT !.selection = ids])
       \/ \E id \in SheetIds : editor' = Emit([SetTool(editor, "select") EXCEPT !.selection = {id}])
       \/ \E id \in SheetIds : editor' = Emit([editor EXCEPT !.selection = {id}])
    /\ UNCHANGED canvas

DeleteSelection ==
    /\ editor.selection # {} /\ MayChange(editor)
    /\ editor' = DispatchOn(editor, editor.items \ editor.selection)
    /\ UNCHANGED canvas

\* A field, an annotation, the line type: the items stay the same.
UpdateItems ==
    /\ MayChange(editor)
    /\ editor' \in {DispatchOn(editor, editor.items), Emit(DispatchOn(editor, editor.items))}
    /\ UNCHANGED canvas

CopySelection ==
    /\ editor' = [editor EXCEPT !.clipboard = Cardinality(editor.selection \cap editor.items)]
    /\ UNCHANGED canvas

\* Fresh copies, selected; nothing at all while read-only.
AddCopies(count) ==
    /\ count > 0 /\ ~editor.readOnly /\ editor.no < MaxChanges
    /\ \E ids \in SUBSET FreshIds(editor) : Cardinality(ids) = count /\ editor' = Selecting(editor, editor.items \cup ids, ids)
    /\ UNCHANGED canvas

PasteItems == AddCopies(editor.clipboard)
DuplicateSelection == AddCopies(Cardinality(editor.selection \cap editor.items))

UndoEdit ==
    /\ ~editor.readOnly /\ editor.no < MaxChanges
    /\ LET e == [editor EXCEPT !.no = @ + 1] IN
       \/ editor' = OnDocumentChanged(e)  \* of an entry that leaves the set of items alone
       \/ /\ e.past # << >>
          /\ editor' = OnDocumentChanged([e EXCEPT !.items = e.past[Len(e.past)], !.past = SubSeq(@, 1, Len(@) - 1),
                                                   !.future = Append(@, e.items)])
    /\ UNCHANGED canvas

RedoEdit ==
    /\ ~editor.readOnly /\ editor.no < MaxChanges
    /\ LET e == [editor EXCEPT !.no = @ + 1] IN
       \/ editor' = OnDocumentChanged(e)
       \/ /\ e.future # << >>
          /\ editor' = OnDocumentChanged([e EXCEPT !.items = e.future[Len(e.future)], !.future = SubSeq(@, 1, Len(@) - 1),
                                                   !.past = Append(@, e.items)])
    /\ UNCHANGED canvas

\* Custom symbols were saved: the registry is another one, also for a read-only sheet.
SetRegistry ==
    /\ editor.no < MaxChanges
    /\ editor' = OnDocumentChanged([editor EXCEPT !.no = @ + 1])
    /\ UNCHANGED canvas

FrameRuns ==
    /\ editor.frame
    /\ LET e == WithConnectivity([editor EXCEPT !.frame = FALSE])
       IN editor' = IF e.shown.conn # e.conn THEN Emit(e) ELSE e
    /\ UNCHANGED canvas

\* A panel that reads the settled view opens, or closes.
OpenPanel ==
    /\ ~editor.panel.on
    /\ editor' = TakenBy([editor EXCEPT !.panel.on = TRUE, !.panel.was = IsDragging(editor)])
    /\ UNCHANGED canvas

ClosePanel ==
    /\ editor.panel.on
    /\ editor' = [editor EXCEPT !.panel.on = FALSE, !.panel.timer = FALSE]
    /\ UNCHANGED canvas

IntervalPasses == editor.panel.fresh /\ editor' = [editor EXCEPT !.panel.fresh = FALSE] /\ UNCHANGED canvas
TimerFires == editor.panel.timer /\ ~editor.panel.fresh /\ editor' = Flushed(editor) /\ UNCHANGED canvas

EditorNext ==
    \/ \E button \in Buttons : Press(button) \/ Release(button)
    \/ MovePointer \/ DoubleClick
    \/ PickTool \/ ChangeReadOnly \/ EnterKey \/ Select \/ DeleteSelection \/ UpdateItems
    \/ CopySelection \/ PasteItems \/ DuplicateSelection \/ UndoEdit \/ RedoEdit \/ SetRegistry
    \/ FrameRuns \/ OpenPanel \/ ClosePanel \/ IntervalPasses \/ TimerFires

EditorSpec == EditorInit /\ [][EditorNext]_editorVars
-----------------------------------------------------------------------------
\* The canvas shows the document as it is; what it derives from it may lag behind it only
\* during a drag, until the next frame.  The panels' view is of one document, and is an older
\* one only while nobody reads it or a timer is set (deferConnectivity, SettledStore).
ViewsFollowDocument ==
    /\ editor.shown.doc = editor.no
    /\ editor.shown.conn # editor.no => IsDragging(editor) /\ editor.frame
    /\ editor.panel.conn = editor.panel.doc
    /\ editor.panel.on /\ editor.panel.doc # editor.no => editor.panel.timer

\* A line, a placement or a drag is in progress only under the tool that leads it to its end,
\* and nothing that would change the sheet while the editor is read-only.
GesturesFitTool ==
    /\ editor.wire > 0 => editor.tool = "wire"
    /\ editor.place => editor.tool = "place"
    /\ IsDragging(editor) => editor.tool = "select"
    /\ editor.drag.kind = "window" => editor.tool \in {"select", "equipment"}
    /\ editor.readOnly => editor.tool \in ReadOnlyTools /\ ~IsDragging(editor)

=============================================================================
