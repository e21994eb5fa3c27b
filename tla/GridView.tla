------------------------------ MODULE GridView ------------------------------
(***************************************************************************)
(* The data grid as a view of its rows (DataGrid.tsx, gridModel.ts,         *)
(* hooks.ts): which columns show, the sort and filter pipeline, the range   *)
(* of cells the cursor spans and the rows that are checked.                 *)
(*                                                                         *)
(* A row is its id with the values of its cells; the texts of a column are  *)
(* numbers in the natural order, so that one comparison serves every type.  *)
(* Widths, scrolling and the clipboard's format are left out.               *)
(***************************************************************************)
EXTENDS Integers, Sequences, FiniteSets, SequencesExt

CONSTANTS
    GridColumns,    \* the columns: [key, type, hideable, hidden]
    GridRowLists,   \* what the rows prop may be: sequences of [id, cells]
    NoValue,        \* a blank cell, no anchor and no range
    Labels,         \* Labels[v]: the place of option v of an enum by its label
    Needles,        \* Needles[n]: the values whose text has needle n in it
    GridFilters,    \* the filters a user may set
    QuickFilters,   \* sets of needles typed into the quick filter
    GridKeys,       \* keys pressed: [key, ctrl, shift]
    PageRows,       \* rows a page key moves by
    MaxGestures     \* bound: gestures

SortDirections == {"asc", "desc"}

MoveKeys == {"ArrowUp", "ArrowDown", "ArrowLeft", "ArrowRight", "Home", "End", "PageUp", "PageDown"}

\* "a" is Select All, which needs Ctrl; Space checks the row and needs it up.
KeyNames == MoveKeys \cup {"Tab", "Escape", "a", "Space"}

\* Rows have ids of their own, and every cell a number that sorts it unless it is blank.
ASSUME GridAssumption ==
    /\ PageRows \in Nat /\ IsFiniteSet(GridColumns)
    /\ GridKeys \subseteq [key : KeyNames, ctrl : BOOLEAN, shift : BOOLEAN]
    /\ \A rows \in GridRowLists :
          /\ rows \in Seq(ToSet(rows))
          /\ \A i, j \in DOMAIN rows : rows[i].id = rows[j].id => i = j
          /\ \A i \in DOMAIN rows, column \in GridColumns :
                rows[i].cells[column.key] # NoValue =>
                    /\ rows[i].cells[column.key] \in Int
                    /\ column.type = "enum" => Labels[rows[i].cells[column.key]] \in Int

VARIABLES
    gridRows,       \* the rows prop
    gridPrefs,      \* visibility chosen per column, and what is stored of it
    gridSort,       \* sequence of [key, dir]
    gridFilters,    \* filter per column key, or NoValue
    quickFilter,    \* needles
    cellRange,      \* [anchor, cursor] of cells <<row, column>>, or NoValue
    rowChecks,      \* [ids, anchor]: the rows checked and the row a range starts at
    gridFocus,      \* [kind: "cells" or "rows", dragging]
    gestures

gridViewVars == <<gridRows, gridPrefs, gridSort, gridFilters, quickFilter, cellRange, rowChecks,
                  gridFocus, gestures>>

ColumnKeys == {c.key : c \in GridColumns}
IdsOf(rows) == {r.id : r \in ToSet(rows)}

GridViewInit ==
    /\ gridRows \in GridRowLists
    /\ gridPrefs = [chosen |-> [k \in ColumnKeys |-> NoValue], stored |-> [k \in ColumnKeys |-> NoValue]]
    /\ gridSort = << >>
    /\ gridFilters = [k \in ColumnKeys |-> NoValue]
    /\ quickFilter = {}
    /\ cellRange = NoValue
    /\ rowChecks = [ids |-> {}, anchor |-> NoValue]
    /\ gridFocus = [kind |-> "cells", dragging |-> FALSE]
    /\ gestures = 0

-----------------------------------------------------------------------------
(* Columns, sorting and filtering.                                         *)

\* The elements of a sequence at these places, in the order that `before` is of them.
Arranged(seq, places, before) ==
    LET rank == [i \in places |-> 1 + Cardinality({j \in places : <<j, i>> \in before})]
    IN  [n \in 1..Cardinality(places) |-> seq[CHOOSE i \in places : rank[i] = n]]

InPlace(places) == {p \in places \X places : p[1] < p[2]}

\* The elements at these places, as they come.
ElementsAt(seq, places) == Arranged(seq, places, InPlace(places))

ColumnShown(column) ==
    \/ ~column.hideable
    \/ gridPrefs.chosen[column.key] = TRUE
    \/ gridPrefs.chosen[column.key] = NoValue /\ ~column.hidden

\* Their order on the screen, the frozen ones first, changes nothing here.
VisibleColumns == {c \in GridColumns : ColumnShown(c)}

CellValue(row, column) == row.cells[column.key]

\* Enum cells sort by their label.
SortValue(row, column) ==
    LET value == CellValue(row, column)
    IN  IF column.type = "enum" /\ value # NoValue THEN Labels[value] ELSE value

\* Fault: the direction turns the place of blanks as well.
CompareTurned(a, b, sign) ==
    IF a = NoValue /\ b = NoValue THEN 0
    ELSE IF a = NoValue THEN sign
    ELSE IF b = NoValue THEN -sign
    ELSE (a - b) * sign

\* Blanks sort last in both directions.
CompareCells(a, b, sign) ==
    IF a = NoValue /\ b = NoValue THEN 0
    ELSE IF a = NoValue THEN 1
    ELSE IF b = NoValue THEN -1
    ELSE (a - b) * sign

\* Sort entries of columns that do not show are ignored.
SortKeys(columns) == ElementsAt(gridSort, {n \in DOMAIN gridSort : \E c \in columns : c.key = gridSort[n].key})

\* The first key on which two rows differ decides, then their place.
RowBefore(rows, keys, i, j) ==
    LET column(k) == CHOOSE c \in GridColumns : c.key = keys[k].key
        by(k) == CompareCells(SortValue(rows[i], column(k)), SortValue(rows[j], column(k)),
                              IF keys[k].dir = "desc" THEN -1 ELSE 1)
        differ == {k \in DOMAIN keys : by(k) # 0}
    IN  IF differ = {} THEN i < j
        ELSE by(CHOOSE k \in differ : \A l \in differ : k <= l) < 0

SortRows(rows, columns) ==
    LET keys == SortKeys(columns)
        before == {p \in (DOMAIN rows) \X (DOMAIN rows) : RowBefore(rows, keys, p[1], p[2])}
    IN  IF keys = << >> THEN rows ELSE Arranged(rows, DOMAIN rows, before)

\* A set filter keeps the values ticked; a text filter with an operator compares, an
\* operator without operand asks for blanks (=) or for none (!=), and other text must
\* be part of the cell's.
FilterKeeps(filter, column, row) ==
    LET value == CellValue(row, column)
    IN  CASE filter.kind = "set" -> value \in filter.values
          [] filter.kind = "range" -> value # NoValue /\ value >= filter.low /\ value <= filter.high
          [] filter.kind = "=" -> IF filter.operand = NoValue THEN value = NoValue ELSE value = filter.operand
          [] filter.kind = "!=" -> value # filter.operand
          [] filter.kind = ">" -> value # NoValue /\ value > filter.operand
          [] filter.kind = "<=" -> value # NoValue /\ value <= filter.operand
          [] filter.kind = "contains" -> value \in Needles[filter.operand]

\* Only the filters of columns that show count, and every needle of the quick filter
\* must be in some cell that shows.
RowKept(row, columns) ==
    /\ \A c \in columns :
          gridFilters[c.key] # NoValue => FilterKeeps(gridFilters[c.key], c, row)
    /\ \A n \in quickFilter : \E c \in columns : CellValue(row, c) \in Needles[n]

FilterRows(rows, columns) == ElementsAt(rows, {i \in DOMAIN rows : RowKept(rows[i], columns)})

KeptRows == FilterRows(gridRows, VisibleColumns)
ViewRows == SortRows(KeptRows, VisibleColumns)

\* SetFilter.update: ticking every option takes the filter away.
SetFilterOf(column, values, options) == IF values = options THEN NoValue ELSE [kind |-> "set", values |-> values]

-----------------------------------------------------------------------------
(* The range of cells.                                                     *)

Clamped(n, high) == IF n > high THEN high ELSE IF n < 1 THEN 1 ELSE n

ClampCell(cell) == <<Clamped(cell[1], Len(KeptRows)), Clamped(cell[2], Cardinality(VisibleColumns))>>

HasCells == KeptRows # << >> /\ VisibleColumns # {}

\* The range is kept as set; what shows of it is clamped to the view.
ActiveRange ==
    IF cellRange = NoValue \/ ~HasCells THEN NoValue
    ELSE [anchor |-> ClampCell(cellRange.anchor), cursor |-> ClampCell(cellRange.cursor)]

SingleCell(cell) == [anchor |-> cell, cursor |-> cell]

MoveTo(cell, extend) ==
    /\ cellRange' = LET target == ClampCell(cell)
                    IN  IF extend /\ ActiveRange # NoValue
                        THEN [anchor |-> ActiveRange.anchor, cursor |-> target]
                        ELSE SingleCell(target)
    /\ gridFocus' = [gridFocus EXCEPT !.kind = "cells"]

\* Where a key takes the cursor; Tab wraps to the next row.
KeyTarget(key, ctrl, shift, r, c) ==
    LET rows == Len(KeptRows)
        cols == Cardinality(VisibleColumns)
    IN  CASE key = "ArrowUp" -> <<IF ctrl THEN 1 ELSE r - 1, c>>
          [] key = "ArrowDown" -> <<IF ctrl THEN rows ELSE r + 1, c>>
          [] key = "ArrowLeft" -> <<r, IF ctrl THEN 1 ELSE c - 1>>
          [] key = "ArrowRight" -> <<r, IF ctrl THEN cols ELSE c + 1>>
          [] key = "Home" -> <<IF ctrl THEN 1 ELSE r, 1>>
          [] key = "End" -> <<IF ctrl THEN rows ELSE r, cols>>
          [] key = "PageUp" -> <<r - PageRows, c>>
          [] key = "PageDown" -> <<r + PageRows, c>>
          [] key = "Tab" /\ shift -> IF c > 1 THEN <<r, c - 1>> ELSE <<r - 1, cols>>
          [] key = "Tab" /\ ~shift -> IF c < cols THEN <<r, c + 1>> ELSE <<r + 1, 1>>

\* Tab does nothing in the last cell, nor back from the first.
TabStops(k, cell) ==
    /\ k.key = "Tab"
    /\ cell = IF k.shift THEN <<1, 1>> ELSE <<Len(KeptRows), Cardinality(VisibleColumns)>>

-----------------------------------------------------------------------------
(* Checked rows.                                                           *)

ToggledRow(checks, id) ==
    [ids |-> IF id \in checks.ids THEN checks.ids \ {id} ELSE checks.ids \cup {id}, anchor |-> id]

\* Fault: the range runs over the rows as loaded.
RowRangeInLoaded(from, to) ==
    LET rank(id) == CHOOSE i \in DOMAIN gridRows : gridRows[i].id = id
        a == rank(ViewRows[from].id)
        b == rank(ViewRows[to].id)
    IN  {gridRows[i].id : i \in {j \in DOMAIN gridRows : (a <= j /\ j <= b) \/ (b <= j /\ j <= a)}}

RowRange(from, to) ==
    LET view == ViewRows
    IN  {view[i].id : i \in {j \in DOMAIN view : (from <= j /\ j <= to) \/ (to <= j /\ j <= from)}}

\* Shift on a row checks the rows from the anchor to it; an anchor that does not show
\* leaves a plain toggle.
RowRangeTo(index) ==
    LET view == ViewRows
        at == {i \in DOMAIN view : view[i].id = rowChecks.anchor}
    IN  IF at = {} THEN ToggledRow(rowChecks, view[index].id)
        ELSE [rowChecks EXCEPT !.ids = @ \cup RowRange(CHOOSE i \in at : TRUE, index)]

\* The rows bulk actions get: those checked that are still loaded, filtered out or not.
SelectedRows == rowChecks.ids \cap IdsOf(gridRows)

-----------------------------------------------------------------------------
(* Gestures.                                                               *)

Gesture == gestures < MaxGestures /\ gestures' = gestures + 1

RowsArrive ==
    /\ Gesture
    /\ gridRows' \in GridRowLists \ {gridRows}
    /\ UNCHANGED <<gridPrefs, gridSort, gridFilters, quickFilter, cellRange, rowChecks, gridFocus>>

\* The choice is stored unless the storage refuses it.
SetVisible(column, visible) ==
    /\ Gesture
    /\ column.hideable
    /\ LET chosen == [gridPrefs.chosen EXCEPT ![column.key] = visible]
       IN  gridPrefs' \in {[chosen |-> chosen, stored |-> s] : s \in {chosen, gridPrefs.stored}}
    /\ UNCHANGED <<gridRows, gridSort, gridFilters, quickFilter, cellRange, rowChecks, gridFocus>>

\* The page is opened again: the grid starts from what is stored.
Remount ==
    /\ Gesture
    /\ gridPrefs' = [gridPrefs EXCEPT !.chosen = gridPrefs.stored]
    /\ gridSort' = << >>
    /\ gridFilters' = [k \in ColumnKeys |-> NoValue]
    /\ quickFilter' = {}
    /\ cellRange' = NoValue
    /\ rowChecks' = [ids |-> {}, anchor |-> NoValue]
    /\ gridFocus' = [kind |-> "cells", dragging |-> FALSE]
    /\ UNCHANGED gridRows

\* A click cycles ascending, descending and off; Shift adds a further key.
ToggleSort(key, additive) ==
    /\ Gesture
    /\ LET at   == {i \in DOMAIN gridSort : gridSort[i].key = key}
           i    == CHOOSE k \in at : TRUE
           asc  == [key |-> key, dir |-> "asc"]
           desc == [key |-> key, dir |-> "desc"]
           only == Len(gridSort) = 1 /\ at = {1}
       IN  gridSort' = IF ~additive
                       THEN IF ~only THEN <<asc>> ELSE IF gridSort[1].dir = "asc" THEN <<desc>> ELSE << >>
                       ELSE IF at = {} THEN Append(gridSort, asc)
                       ELSE IF gridSort[i].dir = "asc" THEN [gridSort EXCEPT ![i] = desc]
                       ELSE RemoveAt(gridSort, i)
    /\ UNCHANGED <<gridRows, gridPrefs, gridFilters, quickFilter, cellRange, rowChecks, gridFocus>>

SetColumnFilter(key, filter) ==
    /\ Gesture
    /\ gridFilters' = [gridFilters EXCEPT ![key] = filter]
    /\ UNCHANGED <<gridRows, gridPrefs, gridSort, quickFilter, cellRange, rowChecks, gridFocus>>

SetQuickFilter(needles) ==
    /\ Gesture
    /\ quickFilter' = needles
    /\ UNCHANGED <<gridRows, gridPrefs, gridSort, gridFilters, cellRange, rowChecks, gridFocus>>

ClearFilters ==
    /\ Gesture
    /\ gridFilters' = [k \in ColumnKeys |-> NoValue]
    /\ quickFilter' = {}
    /\ UNCHANGED <<gridRows, gridPrefs, gridSort, cellRange, rowChecks, gridFocus>>

\* onKeyDown; without a cursor the keys that move put it on the first cell, and the others
\* do nothing.
PressKey(k) ==
    /\ Gesture
    /\ HasCells
    /\ k.key = "a" => k.ctrl
    /\ k.key = "Space" => ~k.ctrl
    /\ IF ActiveRange = NoValue THEN k.key \in MoveKeys ELSE ~TabStops(k, ActiveRange.cursor)
    /\ LET cursor == ActiveRange.cursor
       IN  IF ActiveRange = NoValue
           THEN MoveTo(<<1, 1>>, FALSE) /\ UNCHANGED rowChecks
           ELSE CASE k.key = "Escape" -> /\ ActiveRange.anchor # cursor
                                         /\ cellRange' = SingleCell(cursor)
                                         /\ UNCHANGED <<rowChecks, gridFocus>>
                  [] k.key = "a" -> /\ cellRange' = [anchor |-> <<1, 1>>,
                                                     cursor |-> <<Len(KeptRows), Cardinality(VisibleColumns)>>]
                                    /\ gridFocus' = [gridFocus EXCEPT !.kind = "cells"]
                                    /\ UNCHANGED rowChecks
                  [] k.key = "Space" -> /\ rowChecks' = IF k.shift THEN RowRangeTo(cursor[1])
                                                        ELSE ToggledRow(rowChecks, ViewRows[cursor[1]].id)
                                        /\ gridFocus' = [gridFocus EXCEPT !.kind = "rows"]
                                        /\ UNCHANGED cellRange
                  [] OTHER -> /\ MoveTo(KeyTarget(k.key, k.ctrl, k.shift, cursor[1], cursor[2]),
                                        k.shift /\ k.key # "Tab")
                              /\ UNCHANGED rowChecks
    /\ UNCHANGED <<gridRows, gridPrefs, gridSort, gridFilters, quickFilter>>

\* A press on a cell sets the range, or extends it with Shift; Ctrl toggles the row.
PressCell(r, c, ctrl, shift) ==
    /\ Gesture
    /\ LET extend == shift /\ ActiveRange # NoValue
       IN  /\ cellRange' = IF extend THEN [anchor |-> ActiveRange.anchor, cursor |-> <<r, c>>]
                           ELSE SingleCell(<<r, c>>)
           /\ rowChecks' = IF ctrl THEN ToggledRow(rowChecks, ViewRows[r].id) ELSE rowChecks
           /\ gridFocus' = [kind |-> IF ctrl THEN "rows" ELSE "cells",
                            dragging |-> gridFocus.dragging \/ ~extend]
    /\ UNCHANGED <<gridRows, gridPrefs, gridSort, gridFilters, quickFilter>>

DragOver(r, c) ==
    /\ Gesture
    /\ gridFocus.dragging
    /\ cellRange' = IF cellRange = NoValue THEN NoValue ELSE [cellRange EXCEPT !.cursor = <<r, c>>]
    /\ UNCHANGED <<gridRows, gridPrefs, gridSort, gridFilters, quickFilter, rowChecks, gridFocus>>

Release ==
    /\ gridFocus.dragging
    /\ gridFocus' = [gridFocus EXCEPT !.dragging = FALSE]
    /\ UNCHANGED <<gridRows, gridPrefs, gridSort, gridFilters, quickFilter, cellRange, rowChecks, gestures>>

\* The checkbox of a row; the cursor follows to the row.
ClickCheck(r, shift) ==
    /\ Gesture
    /\ rowChecks' = IF shift THEN RowRangeTo(r) ELSE ToggledRow(rowChecks, ViewRows[r].id)
    /\ cellRange' = IF ActiveRange = NoValue THEN cellRange ELSE SingleCell(<<r, ActiveRange.cursor[2]>>)
    /\ gridFocus' = [gridFocus EXCEPT !.kind = "rows"]
    /\ UNCHANGED <<gridRows, gridPrefs, gridSort, gridFilters, quickFilter>>

\* The header checkbox: takes the visible rows off when all are checked, and otherwise
\* checks exactly the visible ones.
ToggleAllFiltered ==
    /\ Gesture
    /\ KeptRows # << >>
    /\ rowChecks' = [rowChecks EXCEPT !.ids = IF IdsOf(KeptRows) \subseteq @ THEN @ \ IdsOf(KeptRows)
                                              ELSE IdsOf(KeptRows)]
    /\ gridFocus' = [gridFocus EXCEPT !.kind = "rows"]
    /\ UNCHANGED <<gridRows, gridPrefs, gridSort, gridFilters, quickFilter, cellRange>>

ClearSelection ==
    /\ Gesture
    /\ SelectedRows # {}
    /\ rowChecks' = [rowChecks EXCEPT !.ids = {}]
    /\ UNCHANGED <<gridRows, gridPrefs, gridSort, gridFilters, quickFilter, cellRange, gridFocus>>

GridViewNext ==
    \/ RowsArrive \/ Remount \/ ClearFilters \/ Release \/ ToggleAllFiltered \/ ClearSelection
    \/ \E column \in GridColumns, visible \in BOOLEAN : SetVisible(column, visible)
    \/ \E key \in ColumnKeys, additive \in BOOLEAN : ToggleSort(key, additive)
    \/ \E f \in GridFilters : SetColumnFilter(f.key, f.filter)
    \/ \E needles \in QuickFilters : SetQuickFilter(needles)
    \/ \E k \in GridKeys : PressKey(k)
    \/ \E r \in DOMAIN KeptRows, shift \in BOOLEAN : ClickCheck(r, shift)
    \/ \E r \in DOMAIN KeptRows, c \in 1..Cardinality(VisibleColumns) :
         \/ DragOver(r, c)
         \/ \E ctrl, shift \in BOOLEAN : PressCell(r, c, ctrl, shift)

GridViewSpec == GridViewInit /\ [][GridViewNext]_gridViewVars

-----------------------------------------------------------------------------
(* Properties.                                                             *)

\* What is copied, exported and pasted over is the view: it holds the loaded rows the
\* filters keep, by the sort keys whose columns show; in no direction does a blank come
\* before a value, and rows equal on every key keep their order.
ViewIsOrdered ==
    LET keys == SortKeys(VisibleColumns)
        value(k, row) == SortValue(row, CHOOSE c \in GridColumns : c.key = keys[k].key)
        place(row) == CHOOSE i \in DOMAIN gridRows : gridRows[i] = row
        ties(a, b, k) == \A l \in 1..k : value(l, a) = value(l, b)
        view == ViewRows
    IN  /\ IdsOf(view) = IdsOf(KeptRows)
        /\ \A i, j \in DOMAIN view : i < j =>
             LET a == view[i]
                 b == view[j]
             IN  /\ ties(a, b, Len(keys)) => place(a) < place(b)
                 /\ \A k \in DOMAIN keys : ties(a, b, k - 1) /\ value(k, a) # value(k, b) =>
                      /\ value(k, a) # NoValue
                      /\ value(k, b) = NoValue
                           \/ (IF keys[k].dir = "asc" THEN value(k, a) < value(k, b)
                               ELSE value(k, a) > value(k, b))

\* Bulk edits and bulk deletes act on the checked rows: no gesture checks a row that
\* the filters hide at that moment.
HiddenRowsStayUnchecked ==
    [][rowChecks'.ids \ rowChecks.ids \subseteq IdsOf(KeptRows)]_gridViewVars

=============================================================================
