--------------------------- MODULE DocumentStore ----------------------------
(***************************************************************************)
(* One open sheet of the drafting page: the document, its undo and redo    *)
(* stacks and the counters that tell a saved document from an unsaved one  *)
(* (store.ts), the drag and the lock of the editor on top (editor.ts), and *)
(* the saves the page has under way (DraftingPage.tsx, save).              *)
(*                                                                         *)
(* An action is one event handler: the browser runs each to its end, so    *)
(* only a save, which waits for its answer, spans several.  A command is   *)
(* applied through Editor.dispatch, which drops it while the editor is     *)
(* read-only.  The selection is left out: a command takes any set of the   *)
(* items there are.  load and markDirty have no caller.                    *)
(***************************************************************************)
EXTENDS Commands, FiniteSets

CONSTANTS
    Ids,           \* item ids
    KindOf,        \* KindOf[id]: the kind of the item an id is given to
    Tags,          \* what an update patches
    SheetFormats,  \* the sheet settings, frame template included
    InitialDoc,    \* the document as loaded
    HistoryLimit,  \* undo entries kept
    NoKey,         \* an entry outside any drag
    NoDrag,
    MaxAt,         \* bound: coordinates are 0..MaxAt
    MaxStep,       \* bound: how far one pointer event moves
    MaxVersion,    \* bound: changes of the document
    MaxSaves       \* bound: saves under way at a time

Positions == 0..MaxAt

Items == {item \in [id : Ids, kind : Kinds, at : Positions, tag : Tags] : item.kind = KindOf[item.id]}

Documents == [items : Seq(Items), sheet : SheetFormats]

ASSUME EditorAssumption ==
    /\ HistoryLimit \in Nat \ {0}
    /\ MaxVersion \in Nat
    /\ InitialDoc \in Documents
    /\ NoKey \notin Nat

VARIABLES
    doc,
    undoStack,     \* entries [forward, inverse, key]
    redoStack,
    version,
    savedVersion,
    drag,          \* NoDrag, or the drag in progress
    readOnly,
    saves,         \* saves sent and not answered: [version, doc]
    stored         \* ghost: the document of the save (or load) that set savedVersion

history == <<undoStack, redoStack>>
storeVars == <<doc, undoStack, redoStack, version, savedVersion>>
vars == <<doc, undoStack, redoStack, version, savedVersion, drag, readOnly, saves, stored>>

Top(stack) == stack[Len(stack)]

dirty == version # savedVersion

KeysInUse == {undoStack[i].key : i \in DOMAIN undoStack} \cup {redoStack[i].key : i \in DOMAIN redoStack}

\* `move-${Date.now()}`: a key no other drag has.
FreshKey == CHOOSE k \in 0..(Len(undoStack) + Len(redoStack)) : k \notin KeysInUse

Init ==
    /\ doc = InitialDoc
    /\ undoStack = << >>
    /\ redoStack = << >>
    /\ version = 0
    /\ savedVersion = 0
    /\ drag = NoDrag
    /\ readOnly \in BOOLEAN
    /\ saves = {}
    /\ stored = InitialDoc

-----------------------------------------------------------------------------
(* The store.                                                              *)

Changed == version' = version + 1

\* Fault: the length is compared before the entry is on the stack.
PushedPastLimit(entry) ==
    IF Len(undoStack) > HistoryLimit THEN Append(Tail(undoStack), entry) ELSE Append(undoStack, entry)

Pushed(entry) ==
    IF Len(undoStack) = HistoryLimit THEN Append(Tail(undoStack), entry) ELSE Append(undoStack, entry)

\* Fault: the inverses of a drag are kept in the order of its steps.
FoldedInOrder(command) ==
    [undoStack EXCEPT ![Len(undoStack)] =
        [forward |-> @.forward \o command, inverse |-> @.inverse \o Invert(doc, command), key |-> @.key]]

Folded(command) ==
    [undoStack EXCEPT ![Len(undoStack)] =
        [forward |-> @.forward \o command, inverse |-> Invert(doc, command) \o @.inverse, key |-> @.key]]

\* Fault: every step of a drag is an entry of its own.
NeverCoalesces(key) == FALSE

Coalesces(key) == key # NoKey /\ undoStack # << >> /\ Top(undoStack).key = key

Dispatch(command, key) ==
    /\ ~IsNoop(command)
    /\ doc' = Apply(doc, command)
    /\ undoStack' = IF Coalesces(key) THEN Folded(command)
                    ELSE Pushed([forward |-> command, inverse |-> Invert(doc, command), key |-> key])
    /\ redoStack' = << >>
    /\ Changed
    /\ UNCHANGED savedVersion

EndCoalescing ==
    undoStack' = IF undoStack = << >> THEN undoStack
                 ELSE [undoStack EXCEPT ![Len(undoStack)].key = NoKey]

-----------------------------------------------------------------------------
(* The editor: commands.                                                   *)

InRange(d) == \A i \in DOMAIN d.items : d.items[i].at \in Positions

MayChange == ~readOnly /\ version < MaxVersion

\* Editor.dispatch
Edit(command, key) == MayChange /\ InRange(Apply(doc, command)) /\ Dispatch(command, key)

Present == IdsOf(doc.items)

AddedBy(command) ==
    UNION {IdsOf(command[i].items) : i \in {j \in DOMAIN command : command[j].type = "add"}}

\* makeId: an id that no item of the document has, nor one an undo or redo brings back.
Unused ==
    LET entries == {undoStack[i] : i \in DOMAIN undoStack} \cup {redoStack[i] : i \in DOMAIN redoStack}
    IN  Ids \ (Present \cup UNION {AddedBy(e.forward) \cup AddedBy(e.inverse) : e \in entries})

\* placeClick, addSymbolAt, addLabel, addNote, finishWire; addEquipment adds at the back.
AddItem(id, at, tag, indices) ==
    /\ Edit(<<AddAt(<<[id |-> id, kind |-> KindOf[id], at |-> at, tag |-> tag]>>, indices)>>, NoKey)
    /\ UNCHANGED <<drag, readOnly, saves, stored>>

\* duplicateSelection, paste: a copy of an item, moved.
CopyItem(id, copy, delta) ==
    /\ KindOf[copy] = KindOf[id]
    /\ LET item == [ItemOf(doc, id) EXCEPT !.id = copy, !.at = Plus(@, delta)]
       IN  Edit(<<AddAt(<<item>>, << >>)>>, NoKey)
    /\ UNCHANGED <<drag, readOnly, saves, stored>>

\* deleteSelection
DeleteItems(ids) ==
    /\ Edit(<<RemoveIds(ids)>>, NoKey)
    /\ UNCHANGED <<drag, readOnly, saves, stored>>

\* updateSelection, setLineType, renumberSelection, a list edit: one patch per item.
UpdateItems(ids, tag) ==
    /\ Edit(UpdateAll(ids, tag), NoKey)
    /\ UNCHANGED <<drag, readOnly, saves, stored>>

\* rotateSelection, mirrorSelection: a field of the item, and its lines follow.
TurnItem(id, tag, at) ==
    /\ KindOf[id] = "symbol"
    /\ LET lines == SetToSeq(AttachedTo(doc, {id}))
       IN  Edit(<<Update(id, tag)>> \o [k \in DOMAIN lines |-> SetPoints(lines[k].id, at)], NoKey)
    /\ UNCHANGED <<drag, readOnly, saves, stored>>

\* nudgeSelection
NudgeItems(ids, delta) ==
    /\ Edit(MoveItems(doc, ids, delta), NoKey)
    /\ UNCHANGED <<drag, readOnly, saves, stored>>

\* alignSelection, distributeSelection: each move is built for the document the moves
\* before it leave, and all of them are one command.
AlignItems(first, second, deltas) ==
    /\ first # second
    /\ LET move == MoveItems(doc, {first}, deltas[1])
       IN  Edit(move \o MoveItems(Apply(doc, move), {second}, deltas[2]), NoKey)
    /\ UNCHANGED <<drag, readOnly, saves, stored>>

\* The sheet settings, and the effect that follows the drawing's frame template.
FormatSheet(format) ==
    /\ format # doc.sheet
    /\ Edit(<<SetSheet(format)>>, NoKey)
    /\ UNCHANGED <<drag, readOnly, saves, stored>>

-----------------------------------------------------------------------------
(* The editor: drags, undo, the lock.                                      *)

\* selectToolDown: on an item, with the items to move ...
BeginMove(ids) ==
    /\ ~readOnly
    /\ drag = NoDrag
    /\ drag' = [kind |-> "move", ids |-> ids, applied |-> 0, key |-> FreshKey]
    /\ UNCHANGED <<storeVars, readOnly, saves, stored>>

\* ... or on a segment of a line.
BeginSegment(id) ==
    /\ ~readOnly
    /\ drag = NoDrag
    /\ KindOf[id] = "line"
    /\ drag' = [kind |-> "segment", ids |-> {id}, applied |-> 0, key |-> FreshKey]
    /\ UNCHANGED <<storeVars, readOnly, saves, stored>>

(* selectToolMove: the pointer is at `wanted` from where the drag began, a  *)
(* multiple of the grid, or with Alt wherever it is.                       *)
DragTo(wanted) ==
    /\ MayChange
    /\ drag # NoDrag
    /\ drag.kind = "move"
    /\ wanted # drag.applied
    /\ Edit(MoveItems(doc, drag.ids, wanted - drag.applied), drag.key)
    /\ drag' = [drag EXCEPT !.applied = wanted]
    /\ UNCHANGED <<readOnly, saves, stored>>

\* A line that was deleted meanwhile is left alone.
DragSegmentTo(at) ==
    /\ MayChange
    /\ drag # NoDrag
    /\ drag.kind = "segment"
    /\ \E id \in drag.ids \cap Present : Edit(<<SetPoints(id, at)>>, drag.key)
    /\ UNCHANGED <<drag, readOnly, saves, stored>>

\* pointerUp, and Escape (cancel), which keeps what was dragged so far.
EndDrag ==
    /\ drag # NoDrag
    /\ EndCoalescing
    /\ drag' = NoDrag
    /\ UNCHANGED <<doc, redoStack, version, savedVersion, readOnly, saves, stored>>

\* setTool, startPlacing: the drag is dropped, its entry keeps the key.
AbandonDrag ==
    /\ drag # NoDrag
    /\ drag' = NoDrag
    /\ UNCHANGED <<storeVars, readOnly, saves, stored>>

\* Also in the middle of a drag: the keyboard is not the pointer's.
Undo ==
    /\ MayChange
    /\ undoStack # << >>
    /\ doc' = Apply(doc, Top(undoStack).inverse)
    /\ redoStack' = Append(redoStack, Top(undoStack))
    /\ undoStack' = Front(undoStack)
    /\ Changed
    /\ UNCHANGED <<savedVersion, drag, readOnly, saves, stored>>

Redo ==
    /\ MayChange
    /\ redoStack # << >>
    /\ LET entry == Top(redoStack)
       IN  /\ doc' = Apply(doc, entry.forward)
           /\ undoStack' = Append(undoStack, [entry EXCEPT !.inverse = Invert(doc, entry.forward)])
    /\ redoStack' = Front(redoStack)
    /\ Changed
    /\ UNCHANGED <<savedVersion, drag, readOnly, saves, stored>>

\* setReadOnly: the drawing was released, or the user may not write.
Lock ==
    /\ ~readOnly
    /\ readOnly' = TRUE
    /\ IF drag = NoDrag THEN UNCHANGED undoStack ELSE EndCoalescing
    /\ drag' = NoDrag
    /\ UNCHANGED <<doc, redoStack, version, savedVersion, saves, stored>>

Unlock ==
    /\ readOnly
    /\ readOnly' = FALSE
    /\ UNCHANGED <<storeVars, drag, saves, stored>>

-----------------------------------------------------------------------------
(* Saves.  Edits go on while one is under way, and so may a second save.   *)

SendSave ==
    /\ ~readOnly
    /\ dirty
    /\ Cardinality(saves) < MaxSaves
    /\ saves' = saves \cup {[version |-> version, doc |-> doc]}
    /\ UNCHANGED <<storeVars, drag, readOnly, stored>>

\* Fault: the answer marks what is there now as saved.
AnswerMarksCurrent(save) ==
    /\ saves' = saves \ {save}
    /\ savedVersion' = version
    /\ stored' = save.doc
    /\ UNCHANGED <<doc, undoStack, redoStack, version, drag, readOnly>>

\* The server stored the document: markSaved with the version captured at the send.
Answer(save) ==
    /\ saves' = saves \ {save}
    /\ savedVersion' = IF save.version < version THEN save.version ELSE version
    /\ stored' = save.doc
    /\ UNCHANGED <<doc, undoStack, redoStack, version, drag, readOnly>>

\* The request failed or its answer was lost.
Fail(save) ==
    /\ saves' = saves \ {save}
    /\ UNCHANGED <<storeVars, drag, readOnly, stored>>

-----------------------------------------------------------------------------
Steps == (-MaxStep..MaxStep) \ {0}

Command ==
    \/ \E id \in Unused, at \in Positions, tag \in Tags, indices \in {<< >>, <<0>>} : AddItem(id, at, tag, indices)
    \/ \E id \in Present, copy \in Unused, delta \in Steps : CopyItem(id, copy, delta)
    \/ \E ids \in SUBSET Present : DeleteItems(ids)
    \/ \E ids \in SUBSET Present \ {{}}, tag \in Tags : UpdateItems(ids, tag)
    \/ \E id \in Present, tag \in Tags, at \in Positions : TurnItem(id, tag, at)
    \/ \E ids \in SUBSET Present \ {{}}, delta \in Steps : NudgeItems(ids, delta)
    \/ \E first, second \in Present, deltas \in Steps \X Steps : AlignItems(first, second, deltas)
    \/ \E format \in SheetFormats : FormatSheet(format)

Pointer ==
    \/ \E ids \in SUBSET Present \ {{}} : BeginMove(ids)
    \/ \E id \in Present : BeginSegment(id)
    \/ \E wanted \in -MaxAt..MaxAt : DragTo(wanted)
    \/ \E at \in Positions : DragSegmentTo(at)
    \/ EndDrag
    \/ AbandonDrag

Next ==
    \/ MayChange /\ Command
    \/ Pointer
    \/ Undo
    \/ Redo
    \/ Lock
    \/ Unlock
    \/ SendSave
    \/ \E save \in saves : Answer(save) \/ Fail(save)

Spec == Init /\ [][Next]_vars

-----------------------------------------------------------------------------
(* Properties.                                                             *)

\* Item ids stay unique, and no save is ahead of the document.
TypeOK ==
    /\ doc \in Documents
    /\ Cardinality(Present) = Len(doc.items)
    /\ \A i \in DOMAIN undoStack : undoStack[i].key \in {NoKey} \cup Nat
    /\ \A i \in DOMAIN redoStack : redoStack[i].key \in {NoKey} \cup Nat
    /\ version \in 0..MaxVersion
    /\ savedVersion \in 0..version
    /\ drag \in {NoDrag} \cup [kind : {"move", "segment"}, ids : SUBSET Ids, applied : Int, key : Nat]
    /\ readOnly \in BOOLEAN
    /\ \A save \in saves : save.version \in 0..version /\ save.doc \in Documents

(* The limit holds for both stacks together.  redo pushes without looking  *)
(* at it (store.ts, redo), which is right only because an entry it pushes  *)
(* was counted before it was undone.                                       *)
HistoryBounded == Len(undoStack) + Len(redoStack) <= HistoryLimit

(* Two entries that follow each other never belong to the same drag: as    *)
(* long as nothing else is edited in between, a drag is one undo step,     *)
(* through undo and redo in the middle of it and drags that were dropped   *)
(* without closing their entry (setTool).                                  *)
NoSplitDrag ==
    \A i \in 1..(Len(undoStack) - 1) :
        undoStack[i].key # NoKey => undoStack[i].key # undoStack[i + 1].key

(* No edit is taken for saved that was not sent: while the store is not    *)
(* dirty, the document is the one the last answered save sent (or the one  *)
(* loaded), whatever was edited, undone or saved again in the meantime.    *)
(* In which order the server stored two saves is not known here.           *)
CleanIsSaved == ~dirty => doc = stored

(* The documents the entries of a stack lead to, the top of it first.      *)
Unwound(stack, Side(_)) ==
    LET docs[i \in 1..(Len(stack) + 1)] ==
            IF i > Len(stack) THEN doc
            ELSE Once(LAMBDA later : Apply(later, Side(stack[i])), docs[i + 1])
    IN  [i \in DOMAIN stack |-> docs[i]]

History == INSTANCE EditHistory WITH
    Limit <- HistoryLimit,
    past <- Unwound(undoStack, LAMBDA entry : entry.inverse),
    now <- doc,
    future <- Unwound(redoStack, LAMBDA entry : entry.forward),
    open <- drag # NoDrag /\ undoStack # << >> /\ Top(undoStack).key = drag.key

(* Undo is exact: the stacks of commands and inverses do what remembering  *)
(* every document would do, with coalesced drags, the limit, and edits,    *)
(* undo and redo in the middle of a drag.                                  *)
ImplementsHistory == History!Spec

=============================================================================
