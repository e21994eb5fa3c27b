------------------------------ MODULE Commands ------------------------------
(***************************************************************************)
(* The document commands of the drafting engine (commands.ts): what        *)
(* applying one does to a sheet document, and the inverse computed against *)
(* the document before it.                                                 *)
(*                                                                         *)
(* A document is [items, sheet].  An item is [id, kind, at, tag]: "at"     *)
(* stands for its position, or for the vertices of a line; "tag" for every *)
(* other field an update may patch.  A Command is the sequence of the      *)
(* primitive commands it is made of: nested batches apply their parts from *)
(* left to right, so only the flattened order tells them apart.  The        *)
(* command "replace" is left out: nothing builds one.                      *)
(***************************************************************************)
EXTENDS Integers, Sequences, SequencesExt

CONSTANT Precision  \* bound: coordinates up to here are added exactly

ASSUME PrecisionAssumption == Precision \in Nat \ {0}

Kinds == {"symbol", "line"}

(* Coordinates are floating-point numbers.  Multiples of the grid add up   *)
(* exactly; past Precision a sum is rounded to the nearest multiple of     *)
(* two, ties to the multiple of four, as a mantissa with one bit less      *)
(* would.                                                                  *)
Plus(a, b) ==
    LET n == a + b
    IN  CASE n <= Precision \/ n % 2 = 0  -> n
          [] n > Precision /\ n % 4 = 1  -> n - 1
          [] OTHER                        -> n + 1

IdsOf(items) == {items[i].id : i \in DOMAIN items}

HasItem(doc, id) == id \in IdsOf(doc.items)

ItemOf(doc, id) == doc.items[CHOOSE i \in DOMAIN doc.items : doc.items[i].id = id]

-----------------------------------------------------------------------------
(* Primitive commands.                                                     *)

\* indices is empty, or as long as items and ascending.
AddAt(items, indices) == [type |-> "add", items |-> items, indices |-> indices]
RemoveIds(ids)        == [type |-> "remove", ids |-> ids]
Update(id, tag)       == [type |-> "update", id |-> id, tag |-> tag]
Move(ids, delta)      == [type |-> "move", ids |-> ids, delta |-> delta]
SetPoints(id, at)     == [type |-> "set-points", id |-> id, at |-> at]
SetSheet(sheet)       == [type |-> "sheet", sheet |-> sheet]

\* doc with every item that satisfies Chosen replaced by its Image.
OnItems(doc, Chosen(_), Image(_)) ==
    [doc EXCEPT !.items = [i \in DOMAIN doc.items |->
        IF Chosen(doc.items[i]) THEN Image(doc.items[i]) ELSE doc.items[i]]]

\* splice at min(index, length), one item after the other; push without indices.
Spliced(items, more, indices) ==
    IF Len(indices) = Len(more) /\ indices # << >>
    THEN LET after[n \in 0..Len(more)] ==
                 IF n = 0 THEN items
                 ELSE LET rest == after[n - 1]
                          at == IF indices[n] < Len(rest) THEN indices[n] ELSE Len(rest)
                      IN  InsertAt(rest, at + 1, more[n])
         IN  after[Len(more)]
    ELSE items \o more

ApplyOne(doc, c) ==
    CASE c.type = "add" ->
            [doc EXCEPT !.items = Spliced(doc.items, c.items, c.indices)]
      [] c.type = "remove" ->
            [doc EXCEPT !.items = SelectSeq(doc.items, LAMBDA item : item.id \notin c.ids)]
      [] c.type = "update" ->
            OnItems(doc, LAMBDA item : item.id = c.id, LAMBDA item : [item EXCEPT !.tag = c.tag])
      [] c.type = "move" ->
            OnItems(doc, LAMBDA item : item.id \in c.ids,
                         LAMBDA item : [item EXCEPT !.at = Plus(@, c.delta)])
      [] c.type = "set-points" ->
            OnItems(doc, LAMBDA item : item.id = c.id /\ item.kind = "line",
                         LAMBDA item : [item EXCEPT !.at = c.at])
      [] c.type = "sheet" ->
            [doc EXCEPT !.sheet = c.sheet]

\* Fault: removed items come back at the end, not where they were.
RestoreAtEnd(doc, ids) == AddAt(SelectSeq(doc.items, LAMBDA item : item.id \in ids), << >>)

\* Removed items come back at the indices they had.
Restore(doc, ids) ==
    LET gone == SelectSeq([i \in DOMAIN doc.items |-> i], LAMBDA i : doc.items[i].id \in ids)
    IN  AddAt([k \in DOMAIN gone |-> doc.items[gone[k]]], [k \in DOMAIN gone |-> gone[k] - 1])

\* The inverse of a primitive command, relative to the document before it.
InvertOne(doc, c) ==
    CASE c.type = "add"        -> <<RemoveIds(IdsOf(c.items))>>
      [] c.type = "remove" -> <<Restore(doc, c.ids)>>
      [] c.type = "update"     -> IF HasItem(doc, c.id) THEN <<Update(c.id, ItemOf(doc, c.id).tag)>> ELSE << >>
      [] c.type = "move"       -> <<Move(c.ids, -c.delta)>>
      [] c.type = "set-points" -> IF HasItem(doc, c.id) /\ ItemOf(doc, c.id).kind = "line"
                                  THEN <<SetPoints(c.id, ItemOf(doc, c.id).at)>> ELSE << >>
      [] c.type = "sheet"      -> <<SetSheet(doc.sheet)>>

-----------------------------------------------------------------------------
(* Commands.                                                               *)

\* Op(e).  The set makes TLC evaluate e once, not at every place Op uses it.
Once(Op(_), e) == CHOOSE r \in {Op(v) : v \in {e}} : TRUE

\* applyCommand
Apply(doc, command) ==
    LET after[n \in 0..Len(command)] ==
            IF n = 0 THEN doc ELSE Once(LAMBDA before : ApplyOne(before, command[n]), after[n - 1])
    IN  after[Len(command)]

\* invertCommand: each part against the document its predecessors left.
Invert(doc, command) ==
    LET undone[n \in 0..Len(command)] ==
            IF n = 0 THEN [doc |-> doc, inverse |-> << >>]
            ELSE Once(LAMBDA before : [doc |-> ApplyOne(before.doc, command[n]),
                                       inverse |-> InvertOne(before.doc, command[n]) \o before.inverse],
                      undone[n - 1])
    IN  undone[Len(command)].inverse

\* isNoop
IsNoop(command) ==
    \A i \in DOMAIN command :
        CASE command[i].type = "add"    -> command[i].items = << >>
          [] command[i].type = "remove" -> command[i].ids = {}
          [] command[i].type = "move"   -> command[i].ids = {} \/ command[i].delta = 0
          [] OTHER                      -> FALSE

-----------------------------------------------------------------------------
(* Commands the editor builds from what the user does (edit.ts).           *)

\* Lines that end where a moved symbol was follow it, unless they move themselves.
AttachedTo(doc, ids) ==
    {item \in {doc.items[i] : i \in DOMAIN doc.items} :
        /\ item.kind = "line"
        /\ item.id \notin ids
        /\ \E i \in DOMAIN doc.items : /\ doc.items[i].id \in ids
                                       /\ doc.items[i].kind = "symbol"
                                       /\ doc.items[i].at = item.at}

MoveItems(doc, ids, delta) ==
    LET lines == SetToSeq(AttachedTo(doc, ids))
    IN  <<Move(ids, delta)>> \o [k \in DOMAIN lines |-> SetPoints(lines[k].id, Plus(lines[k].at, delta))]

\* One patch for every item of the selection, as one step of the history.
UpdateAll(ids, tag) ==
    LET order == SetToSeq(ids) IN [k \in DOMAIN order |-> Update(order[k], tag)]

=============================================================================
