------------------------------ MODULE PartsGrid ------------------------------
(***************************************************************************)
(* Editing the parts catalog in its grid (DataGrid.tsx, PartsCatalog.tsx):  *)
(* edits show at once in an overlay over the loaded rows, a save goes part  *)
(* by part or through the bulk endpoint, and what the server answers is     *)
(* merged into the list of the page, which shows with the next render.      *)
(* Saves run side by side; the buttons of the page run one work at a time.  *)
(*                                                                         *)
(* Names, documents and messages are left out.  Cells are <<part, field>>.  *)
(***************************************************************************)
EXTENDS Integers, Sequences, FiniteSets, SequencesExt

CONSTANTS
    PartIds,
    NumberFields, FlagFields,  \* fields edited as numbers and as checkboxes
    RequiredFields,            \* fields whose column refuses a blank
    BulkFields,                \* fields the bulk endpoint takes
    CellTexts, Blank,          \* what is typed or pasted; Blank \in CellTexts
    Readings, FlagReadings,    \* Readings[text]: the number, the flag the text reads as
    Refusals,                  \* numbers the server refuses
    UsedParts,                 \* parts placed on drawings, which are not deleted
    Ranges,                    \* sets of cells a paste or Delete may span
    None,                   \* a blank cell; nothing
    Gone,                      \* no part under this id
    MaxCalls                   \* bound: saves of the grid and works of the page

FieldIds == NumberFields \cup FlagFields
CellsOf(p) == {<<p, f>> : f \in FieldIds}
GridCells == UNION {CellsOf(p) : p \in PartIds}

\* What a cell may hold, what the grid shows over a cell and what is typed into one.
CellValues == Int \cup BOOLEAN \cup {None} \cup {Readings[text] : text \in DOMAIN Readings}
OverlayEntries == [value : CellValues, status : {"pending", "committed"}, token : Nat, fresh : BOOLEAN]
CellEditors == [cell : GridCells, session : Nat, open : BOOLEAN]
Edits(cells) == {<< >>} \cup [cells -> CellValues]
PartRows(parts) == {<< >>} \cup [parts -> [FieldIds -> CellValues] \cup {Gone}]
Works(cells, parts) ==
    [kind : {"bulk_set", "delete", "update", "create"}, ids : SUBSET PartIds, edits : Edits(cells),
     stage : {"asked", "list", "merge", "reload"}, answer : PartRows(parts)]

ASSUME PartsAssumption ==
    /\ Ranges \subseteq SUBSET GridCells
    /\ BulkFields \subseteq FieldIds
    /\ None \notin OverlayEntries \cup CellEditors
    /\ \A cells \in SUBSET GridCells, parts \in SUBSET PartIds : None \notin Works(cells, parts)

VARIABLES
    catalog,     \* the server's parts: catalog[p][f], or Gone
    partsList,   \* the page's list as last set
    shownList,   \* the list of the last render, which both refs hold
    unrendered,  \* the list was set since
    overlay,     \* overlay[cell] = [value, status, token, fresh], or None
    cellErrors,  \* cells flagged
    cellEditor,  \* [cell, session, open]: the open editor, or None
    activeEdit,  \* session whose commit still counts, or 0
    saves,       \* saves[n]: the n-th save of the grid
    work,        \* what the page runs, or None
    works,       \* works begun
    excused      \* not in the code: calls overlapped on a part, or an answer was lost

partsVars == <<catalog, partsList, shownList, unrendered, overlay, cellErrors, cellEditor,
               activeEdit, saves, work, works, excused>>

FirstRow == [f \in FieldIds |-> IF f \in FlagFields THEN FALSE ELSE 0]

PartsInit ==
    /\ \E gone \in {{}} \cup {{p} : p \in PartIds} :
         catalog = [p \in PartIds |-> IF p \in gone THEN Gone ELSE FirstRow]
    /\ partsList = catalog
    /\ shownList = catalog
    /\ unrendered = FALSE
    /\ overlay = [cell \in GridCells |-> None]
    /\ cellErrors = {}
    /\ cellEditor = None
    /\ activeEdit = 0
    /\ saves = << >>
    /\ work = None
    /\ works = 0
    /\ excused = FALSE

-----------------------------------------------------------------------------
(* Reading and preparing edits.                                            *)

\* A committed entry shows until the rows it was committed against are replaced.
OverlayShows(cell) == overlay[cell] # None /\ (overlay[cell].status = "pending" \/ overlay[cell].fresh)

\* effectiveRow.
ShownValue(cell) == IF OverlayShows(cell) THEN overlay[cell].value ELSE shownList[cell[1]][cell[2]]

\* A text that reads as no number is an error, as is a blank where one is required.
ParseCell(cell, text) ==
    IF cell[2] \in FlagFields THEN text # Blank /\ FlagReadings[text]
    ELSE IF text = Blank THEN None ELSE Readings[text]

Unreadable(cell, text) ==
    IF text = Blank THEN cell[2] \in RequiredFields
    ELSE text \notin DOMAIN (IF cell[2] \in FlagFields THEN FlagReadings ELSE Readings)

\* requests[cell] is the text for the cell; cells of rows that are gone are skipped, and
\* a value that shows already is not sent.
Present(cells) == {cell \in cells : shownList[cell[1]] # Gone}
BadCells(requests) == {cell \in Present(DOMAIN requests) : Unreadable(cell, requests[cell])}

PrepareEdits(requests) ==
    LET good == Present(DOMAIN requests) \ BadCells(requests)
        changed == {cell \in good : ShownValue(cell) # ParseCell(cell, requests[cell])}
    IN  [cell \in changed |-> ParseCell(cell, requests[cell])]

RecordErrors(touched, errors) == cellErrors' = (cellErrors \ touched) \cup errors

-----------------------------------------------------------------------------
(* Saving.                                                                 *)

PartsIn(cells) == {cell[1] : cell \in cells}

\* One field set to one value on several parts goes to the bulk endpoint.
SameChange(edits) ==
    /\ Cardinality(DOMAIN edits) > 1
    /\ Cardinality({cell[2] : cell \in DOMAIN edits}) = 1
    /\ {cell[2] : cell \in DOMAIN edits} \subseteq BulkFields
    /\ Cardinality({edits[cell] : cell \in DOMAIN edits}) = 1

\* The ids a call still under way is about; a reload is about all of them.
SaveParts(n) == IF saves[n].stage = "done" THEN {} ELSE PartsIn(DOMAIN saves[n].edits)
WorkParts == IF work = None THEN {} ELSE IF work.kind = "bulk_set" THEN work.ids ELSE PartIds
UnderWay == WorkParts \cup UNION {SaveParts(n) : n \in DOMAIN saves}

\* left: the parts not asked for yet; answer: what the server made of the call asked.
NewSave(edits) ==
    [edits |-> edits, bulk |-> SameChange(edits), left |-> PartsIn(DOMAIN edits), asked |-> {},
     stage |-> "asked", answer |-> << >>, saved |-> << >>, failed |-> {}]

\* The first parts asked for; the order of a batch is that of its cells.
Asked(save, p) ==
    LET ask == IF save.bulk THEN save.left ELSE {p}
    IN  [save EXCEPT !.asked = ask, !.left = save.left \ ask, !.stage = "asked"]

Overlaid(edits, token) ==
    [cell \in GridCells |->
        IF cell \in DOMAIN edits
        THEN [value |-> edits[cell], status |-> "pending", token |-> token, fresh |-> FALSE]
        ELSE overlay[cell]]

\* runCommit up to its await, with the first call of saveEdits.
RunCommit(edits) ==
    IF DOMAIN edits = {} THEN UNCHANGED <<overlay, saves, excused>>
    ELSE /\ Len(saves) + works < MaxCalls
         /\ \E p \in PartsIn(DOMAIN edits) : saves' = Append(saves, Asked(NewSave(edits), p))
         /\ overlay' = Overlaid(edits, Len(saves) + 1)
         /\ excused' = (excused \/ UnderWay \cap PartsIn(DOMAIN edits) # {})

CommitRequests(requests) ==
    /\ RecordErrors(Present(DOMAIN requests), BadCells(requests))
    /\ RunCommit(PrepareEdits(requests))

\* The server takes the changes of a call, or refuses all of it; it answers with the rows.
Taken(parts, edits) ==
    [p \in PartIds |->
        IF p \in parts THEN [f \in FieldIds |-> IF <<p, f>> \in DOMAIN edits THEN edits[<<p, f>>] ELSE catalog[p][f]]
        ELSE catalog[p]]

Refuses(parts, edits) ==
    \/ \E p \in parts : catalog[p] = Gone
    \/ \E cell \in DOMAIN edits : cell[1] \in parts /\ cell[2] \in NumberFields /\ edits[cell] \in Refusals

ServeSave(n) ==
    LET s == saves[n]
    IN  /\ s.stage = "asked"
        /\ \/ /\ ~Refuses(s.asked, s.edits)
              /\ catalog' = Taken(s.asked, s.edits)
              /\ saves' = [saves EXCEPT ![n] = [s EXCEPT !.stage = "answered",
                                                         !.answer = [p \in s.asked |-> catalog'[p]]]]
              /\ UNCHANGED excused
           \/ /\ Refuses(s.asked, s.edits)
              /\ saves' = [saves EXCEPT ![n] = [s EXCEPT !.stage = "answered", !.answer = << >>]]
              /\ UNCHANGED <<catalog, excused>>
           \/ /\ ~Refuses(s.asked, s.edits)   \* taken, but the answer is lost
              /\ catalog' = Taken(s.asked, s.edits)
              /\ saves' = [saves EXCEPT ![n] = [s EXCEPT !.stage = "answered", !.answer = << >>]]
              /\ excused' = TRUE
        /\ UNCHANGED <<partsList, shownList, unrendered, overlay, cellErrors, cellEditor, activeEdit, work, works>>

\* The save with the answer of the call that was asked taken in.
Collected(s) ==
    [s EXCEPT !.saved = [p \in DOMAIN s.saved \cup DOMAIN s.answer |->
                            IF p \in DOMAIN s.answer THEN s.answer[p] ELSE s.saved[p]],
              !.failed = IF s.answer = << >> THEN @ \cup {cell \in DOMAIN s.edits : cell[1] \in s.asked} ELSE @]

\* One bad part only rolls back its own cells: the others go on.
SaveNext(n, p) ==
    /\ saves[n].stage = "answered"
    /\ p \in saves[n].left
    /\ saves' = [saves EXCEPT ![n] = Asked(Collected(saves[n]), p)]
    /\ UNCHANGED <<catalog, partsList, shownList, unrendered, overlay, cellErrors, cellEditor, activeEdit, work,
                   works, excused>>

\* Fault: only one of the saved parts is replaced.
MergedFirst(saved) ==
    [p \in PartIds |-> IF DOMAIN saved # {} /\ p = (CHOOSE q \in DOMAIN saved : TRUE) /\ shownList[p] # Gone
                       THEN saved[p] ELSE shownList[p]]

\* mergeParts, into the list the ref holds: that of the last render.
Merged(saved) == [p \in PartIds |-> IF p \in DOMAIN saved /\ shownList[p] # Gone THEN saved[p] ELSE shownList[p]]

MergeParts(saved) ==
    IF DOMAIN saved = {} THEN UNCHANGED <<partsList, unrendered, excused>>
    ELSE /\ partsList' = Merged(saved)
         /\ unrendered' = TRUE
         /\ excused' = (excused \/ unrendered)

\* Fault: an answer settles the cell whatever was typed since.
OwnsAnyEntry(n, cell) == overlay[cell] # None

OwnsEntry(n, cell) == overlay[cell] # None /\ overlay[cell].token = n

\* After the await: failed cells show the loaded value again, the others are committed
\* against the rows rendered last, and entries of earlier rows are dropped.
Settled(n, s) ==
    [cell \in GridCells |->
        IF cell \in DOMAIN s.edits /\ OwnsEntry(n, cell)
        THEN IF cell \in s.failed THEN None
             ELSE [overlay[cell] EXCEPT !.status = "committed", !.fresh = TRUE]
        ELSE IF overlay[cell] # None /\ overlay[cell].status = "committed" /\ ~overlay[cell].fresh
             THEN None
        ELSE overlay[cell]]

SaveDone(n) ==
    /\ saves[n].stage = "answered"
    /\ saves[n].left = {}
    /\ LET s == Collected(saves[n])
       IN  /\ MergeParts(s.saved)
           /\ overlay' = Settled(n, s)
           /\ cellErrors' = cellErrors \cup s.failed
           /\ saves' = [saves EXCEPT ![n] = [s EXCEPT !.stage = "done", !.saved = << >>, !.answer = << >>,
                                                      !.asked = {}]]
    /\ UNCHANGED <<catalog, shownList, cellEditor, activeEdit, work, works>>

-----------------------------------------------------------------------------
(* What the user does in the grid.                                         *)

\* A render shows the list as set, and its effects move the refs on; committed entries
\* of the rows before stop showing.  A closed editor goes.
Render ==
    /\ unrendered \/ (cellEditor # None /\ ~cellEditor.open)
    /\ shownList' = partsList
    /\ unrendered' = FALSE
    /\ overlay' = IF ~unrendered THEN overlay
                  ELSE [cell \in GridCells |-> IF overlay[cell] = None THEN None
                                               ELSE [overlay[cell] EXCEPT !.fresh = FALSE]]
    /\ cellEditor' = IF cellEditor # None /\ ~cellEditor.open THEN None ELSE cellEditor
    /\ UNCHANGED <<catalog, partsList, cellErrors, activeEdit, saves, work, works, excused>>

Editable(cell) == shownList[cell[1]] # Gone

StartEdit(cell) ==
    /\ cellEditor = None
    /\ Editable(cell)
    /\ cell[2] \in NumberFields
    /\ Len(saves) + works < MaxCalls
    /\ cellEditor' = [cell |-> cell, session |-> activeEdit + 1, open |-> TRUE]
    /\ activeEdit' = activeEdit + 1
    /\ UNCHANGED <<catalog, partsList, shownList, unrendered, overlay, cellErrors, saves, work, works, excused>>

\* Enter and Tab commit, and so does leaving the editor; what is typed and cannot be read
\* keeps the editor open, or is discarded and flagged when the focus has gone.  The blur
\* of an editor that has been committed finds its session over.
CommitEditor(text, fromBlur) ==
    /\ cellEditor # None
    /\ activeEdit = cellEditor.session
    /\ LET cell == cellEditor.cell
           requests == [c \in {cell} |-> text]
           bad == BadCells(requests) # {}
       IN  /\ bad => fromBlur
           /\ activeEdit' = 0
           /\ cellEditor' = [cellEditor EXCEPT !.open = FALSE]
           /\ RecordErrors(Present({cell}), BadCells(requests))
           /\ RunCommit(IF bad THEN << >> ELSE PrepareEdits(requests))
    /\ UNCHANGED <<catalog, partsList, shownList, unrendered, work, works>>

CancelEditor ==
    /\ cellEditor # None /\ cellEditor.open
    /\ activeEdit' = 0
    /\ cellEditor' = [cellEditor EXCEPT !.open = FALSE]
    /\ UNCHANGED <<catalog, partsList, shownList, unrendered, overlay, cellErrors, saves, work, works, excused>>

\* Delete clears the range.
ClearRange(cells) ==
    /\ cellEditor = None
    /\ CommitRequests([cell \in cells |-> Blank])
    /\ UNCHANGED <<catalog, partsList, shownList, unrendered, cellEditor, activeEdit, work, works>>

\* A pasted block, or one value, fills the range.
PasteRange(cells, text) ==
    /\ cellEditor = None
    /\ CommitRequests([cell \in cells |-> text])
    /\ UNCHANGED <<catalog, partsList, shownList, unrendered, cellEditor, activeEdit, work, works>>

ToggleFlag(cell) ==
    /\ cellEditor = None
    /\ Editable(cell)
    /\ cell[2] \in FlagFields
    /\ RecordErrors({cell}, {})
    /\ RunCommit([c \in {cell} |-> ~ShownValue(cell)])
    /\ UNCHANGED <<catalog, partsList, shownList, unrendered, cellEditor, activeEdit, work, works>>

-----------------------------------------------------------------------------
(* The page's works; their buttons are off while one runs.                 *)

StartWork(kind, ids, edits) ==
    /\ work = None
    /\ Len(saves) + works < MaxCalls
    /\ work' = [kind |-> kind, ids |-> ids, edits |-> edits, stage |-> "asked", answer |-> << >>]
    /\ works' = works + 1
    /\ excused' = (excused \/ UnderWay \cap (IF kind = "bulk_set" THEN ids ELSE PartIds) # {})
    /\ UNCHANGED <<catalog, partsList, shownList, unrendered, overlay, cellErrors, cellEditor, activeEdit, saves>>

Loaded == {p \in PartIds : shownList[p] # Gone}

BulkSet(ids, field, value) == StartWork("bulk_set", ids, [cell \in ids \X {field} |-> value])
BulkDelete(ids) == StartWork("delete", ids, << >>)
SubmitPart(p, field, value) == StartWork("update", {p}, [cell \in {<<p, field>>} |-> value])
CreatePart(p) == catalog[p] = Gone /\ StartWork("create", {p}, << >>)

\* The first call of a work: parts that are used are not deleted.
WorkResult ==
    CASE work.kind = "delete" -> [p \in PartIds |-> IF p \in work.ids \ UsedParts THEN Gone ELSE catalog[p]]
      [] work.kind = "create" -> [catalog EXCEPT ![CHOOSE p \in work.ids : TRUE] = FirstRow]
      [] OTHER -> Taken(work.ids, work.edits)

WorkRefused == work.kind \in {"bulk_set", "update"} /\ Refuses(work.ids, work.edits)

ServeWork ==
    /\ work # None /\ work.stage = "asked"
    /\ IF WorkRefused THEN work' = None /\ UNCHANGED catalog
       ELSE /\ catalog' = WorkResult
            /\ work' = IF work.kind = "bulk_set"
                       THEN [work EXCEPT !.stage = "merge", !.answer = [p \in work.ids |-> catalog'[p]]]
                       ELSE [work EXCEPT !.stage = "list"]
    /\ UNCHANGED <<partsList, shownList, unrendered, overlay, cellErrors, cellEditor, activeEdit, saves, works,
                   excused>>

\* Every work but a bulk edit then lists the parts anew.
ServeList ==
    /\ work # None /\ work.stage = "list"
    /\ work' = [work EXCEPT !.stage = "reload", !.answer = catalog]
    /\ UNCHANGED <<catalog, partsList, shownList, unrendered, overlay, cellErrors, cellEditor, activeEdit, saves,
                   works, excused>>

WorkDone ==
    /\ work # None
    /\ \/ work.stage = "merge" /\ MergeParts(work.answer)
       \/ /\ work.stage = "reload"
          /\ partsList' = work.answer
          /\ unrendered' = TRUE
          /\ UNCHANGED excused
    /\ work' = None
    /\ UNCHANGED <<catalog, shownList, overlay, cellErrors, cellEditor, activeEdit, saves, works>>

\* The connection fails before or after the server did its part.
WorkFails ==
    /\ work # None /\ work.stage \in {"list", "merge", "reload"}
    /\ work' = None
    /\ excused' = TRUE
    /\ UNCHANGED <<catalog, partsList, shownList, unrendered, overlay, cellErrors, cellEditor, activeEdit, saves,
                   works>>

PartsNext ==
    \/ Render
    \/ CancelEditor
    \/ \E n \in DOMAIN saves : ServeSave(n) \/ SaveDone(n) \/ \E p \in PartIds : SaveNext(n, p)
    \/ \E cell \in GridCells : StartEdit(cell) \/ ToggleFlag(cell)
    \/ \E text \in CellTexts, fromBlur \in BOOLEAN : CommitEditor(text, fromBlur)
    \/ \E cells \in Ranges : ClearRange(cells) \/ \E text \in CellTexts \ {Blank} : PasteRange(cells, text)
    \/ \E ids \in SUBSET Loaded \ {{}} :
         \/ BulkDelete(ids)
         \/ \E field \in BulkFields, text \in DOMAIN Readings : BulkSet(ids, field, Readings[text])
    \/ \E p \in Loaded, field \in NumberFields, text \in DOMAIN Readings : SubmitPart(p, field, Readings[text])
    \/ \E p \in PartIds : CreatePart(p)
    \/ ServeWork \/ ServeList \/ WorkDone \/ WorkFails

PartsSpec == PartsInit /\ [][PartsNext]_partsVars

-----------------------------------------------------------------------------
(* Properties.                                                             *)

\* When every call has been answered and its answer shows, the grid shows what the
\* server holds, however saves of different parts were interleaved and whichever were
\* refused; only calls on one part at once, a reload beside a save, a merge before the
\* render of the one before it, or a lost answer can leave it behind.
QuietGridShowsCatalog ==
    UnderWay = {} /\ ~unrendered /\ ~excused =>
        /\ shownList = catalog
        /\ \A cell \in GridCells : catalog[cell[1]] # Gone => ShownValue(cell) = catalog[cell[1]][cell[2]]

\* The last save of the grid that carries the cell.
LastSave(cell) ==
    CHOOSE n \in DOMAIN saves : /\ cell \in DOMAIN saves[n].edits
                                /\ \A k \in DOMAIN saves : cell \in DOMAIN saves[k].edits => k <= n

\* While the save of what was last typed into a cell is under way, the cell shows that,
\* whatever earlier saves of the cell answer in the meantime.
PendingShowsLastTyped ==
    \A cell \in GridCells :
        (\E n \in DOMAIN saves : cell \in DOMAIN saves[n].edits) =>
            LET s == saves[LastSave(cell)]
            IN  s.stage # "done" => overlay[cell] # None /\ overlay[cell].value = s.edits[cell]

\* A commit that resolves after another one merges into the newest list: a row of the list
\* changes only with a call about it, so that no merge takes back what another one put
\* there (PartsCatalog.tsx:319-323).  It does not hold: the ref that mergeParts starts from
\* moves on in an effect, after the render, and a second merge before that starts from the
\* list without the first.
MergesKeepRows ==
    [][\A p \in PartIds : partsList'[p] # partsList[p] => p \in UnderWay]_partsVars

=============================================================================
