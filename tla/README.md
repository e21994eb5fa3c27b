# FSDP: a TLA+ model of the drawing backend and its drafting client

FSDP is a web application for fluid system design: drawings made of sheets, a
parts catalog, requirements, bills of material. The backend
(`src/backend/app`, FastAPI, SQLAlchemy, PostgreSQL) stores everything; the
frontend (`src/frontend/src`, React) holds the drawing engine, which edits a
sheet's document, derives its index and its design rule checks (DRC), and sends
both with a save. The server never recomputes them: it gates the release of a
drawing on rows that a browser computed at some earlier time. Most of what is
hard about this program follows from that.

This directory holds the TLA+ modules, the TLC configurations and the TLAPS
proofs about it. `PROJECT.json` lists every run, mutant, theorem, finding and
hazard, and maps each definition to the lines it models.

## The system

| Part | State | Operations | Modules |
| --- | --- | --- | --- |
| Drawing release workflow (`api/drawing_routes.py`, `services/release.py`, `DrawingWorkflow.tsx`; projects and systems in `api/routes.py`) | drawings, revisions with their release snapshots | create, update, delete, add revision, edit revision, submit, withdraw, release, revise; delete a project or a system | `DrawingRelease`, `Baselines`, `ReleaseRequests`, `ReleasePanel` |
| Sheets, index, DRC, staleness (`api/drawing_routes.py`, `services/sheet_index.py`, `services/drc.py`) | sheet documents, index rows, DRC results, waivers, `index_stale` | create, save, delete and renumber sheets; waive, unwaive; flag stale | `DrawingRelease`, `ReleaseRequests` |
| Parts catalog and its documents (`api/routes.py`, `services/catalog.py`, `PartsCatalog.tsx`) | parts, sequence counters, files on disk | create (generated names), update, obsolete, delete; upload and delete documents | partly: handlers that reach sheets in `DrawingRelease`, the page in `PartsGrid` |
| Requirements and trace links (`api/routes.py`, `services/traceability.py`, `RequirementsPage.tsx`) | requirements, links between any two records | create, update, delete; clean up links on delete | partly: as they reach sheets and findings in `DrawingRelease`, the page in `PageLoads` |
| Bills of material (`api/routes.py`, `services/bom.py`, `BomPage.tsx`) | BoM snapshots with revision, status and the sheets stale at that time | generate, set status, release behind a readiness gate | partly: the page in `PageLoads` |
| Bulk import, edit, delete (`api/bulk_routes.py`, `services/bulk_import.py`, `ImportWizard.tsx`) | a batch of rows over parts or requirements | dry run, report, apply all or nothing | partly: `ImportWizard`, `PartsGrid` |
| Accounts (`api/auth_routes.py`, `core/`) | users, roles, sessions | log in, create, change role, deactivate | no |
| Change impact, lists, export (`services/change_impact.py`, `services/lists.py`, `services/export.py`) | none of their own | read-only reports | partly: the lists drawer in `ListsDrawer`, list rows in `DesignRules` |
| Document history (`engine/store.ts`, `commands.ts`) | a document, undo and redo stacks, version counters | commands and their inverses, undo, redo, save points | `DocumentStore`, `Commands`, `EditHistory` |
| Drawing engine (`engine/*.ts`, `SchematicCanvas.tsx`) | an editor session; what is derived from the document | tools and gestures, edits that keep lines attached, tags, connectivity, design rules, index rows | `TagRules`, `FieldEdits`, `Geometry`, `Connectivity`, `LineEdits`, `SpatialIndex`, `DesignRules`, `EditorTools`; text layout and styles not |
| Drafting page (`pages/DraftingPage.tsx`, `useStaleReindex.ts`, `sheetEdits.ts`) | open sheet, editor session, saves in flight, re-index run | open, edit, save, list edits, workflow buttons, background re-index | `DraftingPage`, `ListsDrawer`, `ReleasePanel` |
| Rendering, geometry, symbols | pictures; custom symbols | symbol editor, picking | partly: `Geometry`, `SpatialIndex`, `SymbolEditor` |
| Other pages and grids (`components/datagrid/*`, `workspace/*`, `pages/*`) | selections, loaded lists, sort, filters, checks | gestures, loads, reloads after a change | partly: `GridView`, `PartsGrid`, `PageLoads`, `Workspace`, `ImportWizard` |
| Migrations, seed data, deployment | none that lasts | run once | no |

How they interact:

- A save (`PUT /sheets/{id}`) carries a document with the index rows and DRC
  findings the browser derived from it. Index and DRC together clear
  `index_stale`; a document alone, or half the derived data, sets it.
- A part change flags the sheets whose *index rows* assign the part, a
  requirement change all sheets of the project, both only in unreleased
  drawings. Deleting a part is refused while an index row assigns it.
- A release reads sheets, index, DRC and waivers, refuses when a sheet is
  stale or has an open error, and copies everything onto the revision.
  The drawing, revision, sheet and waiver handlers refuse every change of a released
  drawing until a new revision is started, which flags all sheets, since parts may
  have changed meanwhile.
- Three handlers know nothing of that lock. Deleting a project takes its drawings
  with it, released ones and their snapshots too; deleting a system or a requirement
  empties the columns that refer to it, in released drawings as well.
- Endpoints are plain functions that FastAPI runs in a thread pool. Each has a
  session and a transaction of its own. The database runs READ COMMITTED, no
  row is locked on reading and no row has a version (`db.py`): two requests
  that overlap are ordered only by their statements.
- The drafting page re-indexes stale sheets by itself, one at a time, next to
  the user's own saves.

Hard behaviours: overlapping requests on one drawing; the gap between the check
of the release gate and the copy it guards; staleness flags set from rows
that may themselves be out of date; baselines that must never change; saves in
flight while the user edits on; several steps with a file and a database row.
The `hazards` of `PROJECT.json` list them at the line where each bites.

What makes each part correct, in short: a released revision never changes, holds
what the drawing held and goes only with its project or its unreleased drawing; a sheet that is not flagged has derived data that
matches its inputs; sheet numbers are 1 to n; overlapping requests lose nothing
that was promised; undo returns the exact document; an edit made while a save
is in flight is still known to be unsaved; a stale sheet is eventually
re-indexed while its drawing is open; released BoMs do not change; generated
names and revision numbers are unique.

## Modules

### `DrawingRelease`: the handlers, one at a time

State: `drawings` (status, project, system, title, revisions in sequence order),
`sheets` (the sheet row with the index, findings and waivers that hang on it) and
`listed` (the ids of the parts, projects and requirements there are). One action is
one request that ran alone; the refusals (404, 409) are the guards, and a refused
request is no step. The action names follow the handlers: `CreateDrawing`,
`UpdateDrawing`, `DeleteDrawing`, `CreateSheet`, `SaveSheet` (with `SavedRow` for what
`update_sheet` does to a row), `DeleteSheet`, `Waive`, `Unwaive`,
`CreateRevision`, `UpdateRevision`, `Submit`, `Withdraw`, `Release`, `Revise`;
from the catalog `UpdatePart`, `ObsoletePart`, `DeletePart`; and what reaches drawings
through foreign keys: `CreateProject`, `DeleteProject` (CASCADE: drawings in any status),
`DeleteSystem`, `CreateRequirement`, `UpdateRequirement`, `DeleteRequirement` (SET NULL).
A system has no life of its own here: any system of the project may be named, and a
deletion takes it out of the drawings.

A snapshot has the content and, in `links`, the columns that refer to rows elsewhere:
the drawing's system and, per finding, its requirement. Parts are no links in this
sense, since a part that an index row assigns cannot be deleted. The rows of
requirement checks, which go with their requirement, are in no snapshot and are left out.

Documents are members of a set, each with the parts its items assign; an index
is the set of parts its rows assign; a DRC run is the set of keys of its
error findings, since warnings gate nothing. The field `derived` of a sheet is
not a column: it records whether the stored index and DRC are what the engine
would derive now. **A client is assumed to send data derived from current parts
and requirements** (`current` is TRUE in `Next`), and `FreshIsDerived` and its theorem hold
only as long as this is so; a client whose lists are old breaks it (`FreshIsCurrent`
below). The engine also looks at the other
sheets of a drawing (repeated tags, connectors), at the tag scheme and at line
classes; neither the code nor the documentation counts a change there as
staleness, and the model follows them.

Definitions marked "Fault" are single slips the handlers could have made. They
are no part of the specification; `PROJECT.json` names for each property one
that must break it.

### `Baselines`: what a release promises

An abstract specification of few rules: a drawing of a project is open or
locked, locking files the content as it stands under the current number,
filed content stays, and only a reopening under the next number leads on. What it has to
grant beside them is spelled out as actions of their own: `Lapse`, by which a drawing, locked
or not, loses links to what was deleted elsewhere and nothing more (`Loses`), and `Purge`,
the end of a project with its drawings in whatever phase. `Found` adds projects.
`DrawingRelease!ImplementsBaselines` states, with a refinement mapping, that every
request is a step of it or changes nothing it sees; so a locked drawing goes with its
project and in no other way.

### `ReleaseRequests`: the handlers, overlapping

Extends `DrawingRelease` with a pool of `Workers`. `Load` reads the rows and
makes the checks, `Commit` writes. A commit writes the columns whose value differs from
the *loaded* one (`Column`, `Rows`), as SQLAlchemy's unit of work does, and is
stopped only by the unique constraints (revision sequence, sheet number,
waiver key) or by a missing row. A release loads in two steps, because the copy
selects the sheets again: `LoadDocuments` gets the documents, the index and DRC
rows are read at the commit. A request may `Fail` at any time. `Disturb`
stands for the part and requirement handlers, which set their flags with one
UPDATE.

Load and check are one step, and so are the reads that a release makes after
loading documents; the code makes several statements of each, so it has more
interleavings than the model, not fewer. A save replaces the findings by deleting those
it reads and inserting its own; which of the rows that another save stored meanwhile
the DELETE still reaches is left open (`Left`). Creating and deleting projects, systems,
requirements and drawings, deleting parts and the text updates are left to the serial
module. A request keeps only the columns
it reads again when it commits (`KeptRow`, `KeptSheet`).

The flag `alone` of a request is not in the code: it records that nothing else
touched the drawing since it loaded, and lets `LoneRequestsAreSerial` say that
whatever goes wrong needs an overlap.

### `Commands`: documents and commands

Pure operators: a document is a sequence of items and the sheet settings, an item
has an id, a kind, one coordinate for its position (or for all vertices of a
line) and one tag for every field an update may patch. `Apply`, `Invert` and `IsNoop`
are `applyCommand`, `invertCommand` and `isNoop`; `MoveItems` and `AttachedTo` are the
part of `edit.ts` that lets lines follow the symbols they are attached to. A
command is the sequence of its primitive parts, since nested batches apply in
that order. `Plus` rounds sums past `Precision`, as floating-point numbers
do; with a large `Precision` it is addition. There is no RECURSIVE operator;
`Once` only keeps TLC from evaluating an argument again and again.

### `EditHistory`: what a history promises

An abstract editor that remembers whole documents: undo returns the last
one, redo goes forward again, an edit forgets what was undone, and the steps of an
open group count as one edit.

### `DocumentStore`: an open sheet

The store (`doc`, `undoStack`, `redoStack`, `version`, `savedVersion`), the
editor's `drag` and `readOnly`, and the page's `saves` under way. The browser runs
an event handler to its end, so each action is one handler; only a save, which
waits for its answer, takes several steps. The names follow `store.ts`
(`Dispatch`, `EndCoalescing`, `Undo`, `Redo`) and, for what the user does, the
methods of the editor: `AddItem`, `CopyItem`, `DeleteItems`, `UpdateItems`, `TurnItem`,
`NudgeItems`, `AlignItems`, `FormatSheet`, `BeginMove`, `DragTo`, `BeginSegment`,
`DragSegmentTo`, `EndDrag`, `AbandonDrag`, `Lock`, `Unlock`; the save is `SendSave`,
`Answer`, `Fail`. Keyboard commands, undo and redo included, may come in the middle
of a drag.

Abstracted: the selection (a command takes any set of items); a paste or a rotation of
several items is one of one item; ids are new as random ones are, and drag keys as
the clock makes them; two saves of the same version count as one. `stored` is a
history variable, the document of the last answered save. `load` and
`markDirty` have no caller and nothing builds the command `replace`: they are
left out.

`ImplementsHistory` maps the stacks of commands to documents: applying the inverses
from the top down gives the past, applying the forward commands of the redo stack
the future. So it says that undo and redo are exact at every depth of
the stacks and not only for the entry on top.

### `DraftingPage`: the page and its calls

State: the server's side of it (`rows`: the stored document, version and stale
flag of each sheet), `page` (the drawing and sheet on show, the lists it holds,
the editor session, what is loading), `run` (the background re-index) and `jobs`
(calls under way). Between two events nothing else of the page runs, so a handler up
to its next await, with the effects React runs after it, is one action. A call is
handled by the server (`Serve`) and answered (`Answer`) or lost (`Fail`) whenever it
comes to it: calls overtake one another. `User` is the disjunction of what the user
does: switch sheets or drawings, edit, save, commit cells of other sheets in the
lists, add a sheet, press a workflow button, ask for a re-index. `Pump` is the loop of
`useStaleReindex`, and runs before anything else once it may turn, as a microtask
does. `ChangePart` is another user.

A document is the set of the user's edits in it; a session is dirty while its
document is not the saved one. Undo is left to `DocumentStore`, since a document
here only grows. History fields (`home` of an edit, what was dropped or discarded)
serve the properties and nothing else.

`FreshIsCurrent`, that a sheet not flagged stale was derived from current parts, does
not hold: the page derives from the parts it loaded with the workspace, and a save or a
re-index clears the flag (`OldParts.cfg`, see below).

### The drawing engine

- `TagRules` and `FieldEdits`: how a tag is read, checked, written and counted under
  the project's scheme; batches of field edits over two sheets of one drawing,
  placing, pasting and renumbering, which settle tags against the drawing, and the two
  operations that settle nothing: a duplicate keeps the tag of an equipment boundary, and
  the inspector takes any text. `TagsStayDistinct` says of the former that they add no repeat
  to whatever the latter have left. Digits are in base `Radix`, so that a number
  outgrows its places early.
- `Geometry`, `Connectivity`, `LineEdits`, `SpatialIndex`: points, polylines and
  turns in whole hundredths of a millimetre; ports, ends, nets by union-find over a
  grid index, hops; moving, turning, mirroring, aligning and drawing with what is
  attached following; what a click or a window picks. The nets, hops and picks
  the code computes through its indexes are compared with a scan of everything.
- `DesignRules`: the design rule check, its waivers, the index rows and the
  item and line lists made of them, on a sheet given by what its line ends touch.
- `EditorTools`: the session of `editor.ts` with its canvas and the throttled view
  that panels read: tools, drags, wires, placements, buttons and keys in any order,
  undo and locking in the middle of a gesture. Coordinates are left out: where a
  handler depends on what is under the pointer, either outcome is possible. A
  document is its set of items and the number of changes made to it.

### The pages

- `GridView`: the data grid as a view: columns, sort, filters, the range of cells
  under the cursor, checked rows, every key that moves, selects or checks.
- `PartsGrid`: edits of the catalog in that grid: an overlay of pending cells, saves
  side by side, the bulk endpoint, refusals, reloads, and the render that shows them.
- `PageLoads`: the list-and-detail pages (requirements, BoM, settings and others) as
  panels that load for a pick and are guarded in their own ways, with the buttons that
  change something and then reload.
- `Workspace`: sign-in, the selected project and system, the lists loaded for them,
  and the page that creates and deletes both.
- `ImportWizard`: sources, dry run, report and import against a table others change.
- `SymbolEditor`: drafts of custom symbols, their shapes and ports, and the saves.
- `ListsDrawer`: what the drafting page knows of the sheets it does not show, and the
  rows the drawer caches. Its history variable `astray` is set where the code may take
  a late reading (the waivers of a sheet left, a copy read beside a write); what it says of
  the waivers without that excuse is `WaiversFollowSheet`.
- `ReleasePanel`: the workflow actions the page offers, why a release was refused,
  which sheets are out of date and the snapshot shown, while other users act.

Setting state and running the effects of the render that follows are two steps
where answers can come between them (`PageLoads`, `Workspace`, `PartsGrid`).
History variables record the circumstances a property leaves aside; each property
names them in its comment. Where a comment or a document of the code promises something
for exactly such a circumstance, a property without the excuse says so, and TLC finds it
violated ("Promises that do not hold"): `MergesKeepRows`, `ImportIsOfItsReport`,
`ReasonsAreOfDrawing`, `WaiversFollowSheet`. Where none does (failed loads, a forgotten matrix, readings that
overtake one another, rows checked and then filtered away), the hazard is listed with a note.

### Instances and proofs

`MCDrawingRelease`, `MCReleaseRequests`, `MCDocumentStore`, `MCDraftingPage`, `MCEngine`
and `MCPages` give the constants their values. `MCEngine` and `MCPages` put several
modules beside each other: a behaviour is about one of them, which `focus` or `page` names,
and the others keep their first state, so that the state spaces add up and do not
multiply; `MCPartsSpec`, `MCWizardSpec`, `MCListsSpec` and `MCPanelSpec` keep to one
component. `MCDrawingRelease` and `MCReleaseRequests` keep to one instance of a few in the same
way. The modules whose names end in `Proofs` hold the theorems, see below.

## Runs

| Run | Question | Bounds | Result |
| --- | --- | --- | --- |
| `release_workflow` | With requests one at a time: does a release file what the rows hold, what can still change or remove a released drawing, are sheets numbered 1 to n, can an unflagged sheet hold outdated data, does the code implement `Baselines`? | 1 project, 1 system, 1 requirement, 1 drawing, 3 sheets, 2 documents (one with a part), 1 part, 1 finding key, 2 texts, 2 revisions; 79,157 states | holds |
| `request_overlaps` | Does a request that nothing overlapped do what `DrawingRelease` says, and does any overlap lose a filed snapshot? | 2 requests at a time, 2 sheets, 1 finding key, 2 revisions; 986,344 states | holds |
| `drafting_page` | Do edits stay on their sheet, is what counts as saved stored, does the re-index yield to saves it can know of and get to every stale sheet? | 2 drawings, 3 sheets, 2 edits, 2 calls under way, 2 other events; 890,296 states | holds |
| `editing` | Are undo and redo exact at every depth, do both stacks together keep the limit, is a drag one entry, is an unsent edit ever counted as saved? | a symbol and a line attached to it, 3 changes, 2 undo entries, 2 saves; 483,297 states | holds |
| `engine` | Tags, attached lines, indexes, checks and gestures, see the properties | one small sheet per group of modules; 149,896 states | holds |
| `pages` | Do late answers leave a page with what belongs to another selection, and is a quiet page current? | 2 to 3 events, calls or gestures per component; 934,245 states | holds |
| `statuses_agree` | Do a drawing and its current revision move through the states together? | 1 drawing, 1 sheet | violated, finding 1 |
| `withdraw_race` | Is a released revision frozen when requests overlap? | 2 requests at a time, 1 sheet | violated, finding 2 |
| `save_race` | Is a filed sheet free of open errors when requests overlap? | 2 requests at a time, 1 sheet, 1 finding key | violated, finding 3 |
| `alt_drag` | Is undo exact off the grid? | 1 line, sums past 1 are rounded | violated, finding 4 |
| `lost_edits` | Is unsaved work dropped only after asking? | as `drafting_page` | violated, finding 5 |
| `reindex_race` | Does an edit reported as saved stay? | as `drafting_page`, 1 edit | violated, finding 6 |

Why these bounds are enough to be interesting. Two revisions reach a release, a
revise and a second release, so an older snapshot is at stake while a newer one
is made. Three sheets are the fewest where a deletion in the middle moves one and
leaves one. `release_workflow` has three kinds of behaviours (`InFocus` of `MCDrawingRelease`): all
texts, findings and waivers on one sheet; more sheets with one text and no findings; or a
system and a requirement that come and go. Every race found needs two requests. `request_overlaps` has two kinds of
behaviours (`InFocus` of `MCReleaseRequests`): two revisions and findings on the sheets there
are, or sheets created and deleted within the first revision. The same properties were
searched once with two drawings for three million states without a violation, but not
to the end. A second drawing in `drafting_page` is what a session, a run or a late list can
be wrong about; the third sheet is the one that comes with it.

In `DocumentStore`, `MaxVersion` bounds the changes, `MaxAt` and `MaxStep` the
coordinates. `HistoryLimit` is 2 where the code has 200: an entry falls off with
the third edit. Two saves at a time can be answered in either order.

In `engine`, the bounds are `MaxRank`, `MaxEdits`, `MaxCoordinate`, `MaxRuleEdits` and
`MaxChanges`; the editor has two kinds of behaviours, every tool on one change, or a panel over
several changes by few tools. Lines are rearranged by alignment only as the first edit, and a segment is
dragged to two places. In `pages`, `MaxGestures`, `MaxCalls`, `MaxLoads`, `MaxRequests`,
`MaxPicks`, `MaxPresses`, `MaxInputs`, `MaxImports`, `MaxOthers`, `MaxShapes`, `MaxPorts`, `MaxSaves`,
`MaxListEvents` and `MaxPanelEvents` bound the users; `InLists` and `InSymbols` of `MCPages`
keep apart waivers and added sheets, and drawing and placing ports. `ReleasePanel`
was searched once with four events (318,000 states), with the same result.

Deadlock is checked where some request or handler is always possible
(`release_workflow`, `request_overlaps`, `editing` and the violations of their
models). In `drafting_page`, `engine`, `pages` and the violations of their models the
bounds are used up in the end and nothing is left to do.

Fairness. `FairSpec` of `DraftingPage` has weak fairness of `Pump`, since a loop whose
awaited call is answered goes on by itself, and of `AwaitedReindex`, since a request of
the current run is handled and answered, or fails. Users, other calls and other users owe
nothing. `StaleIsTried` is the one liveness property; all others are safety.

## Findings

1. **A revision added in review parts the statuses** (`statuses_agree`).
   `implementation.md` says a drawing and its current revision move through the
   three states together. `create_revision` accepts a drawing in review and
   appends a draft, which becomes the current revision. A release then
   releases a revision nobody submitted; the submitted one stays `in_review`.
2. **A late submit or withdraw unlocks a released drawing** (`withdraw_race`).
   Both decide on the status they loaded and write without a condition. If a
   release commits in between, drawing and revision go back to `in_review` or
   `draft` while the snapshot stays on the revision, which can then be edited
   and released again over its own snapshot.
3. **A save can slip between the gate and the copy** (`save_race`). The release
   checks the sheets, then copies what is there some statements later. A save
   with a new error that commits between the two is in the filed copy.
4. **Undo of an Alt-drag is not exact** (`alt_drag`). `commands.ts` and
   `implementation.md` call the inverses exact. The inverse of a move adds the
   negated delta, which is exact on the grid; with Alt a drag moves by raw
   pointer offsets, whose sums are rounded, and `(x + d) - d` is then often a
   neighbour of `x` (in double precision the last bit; the model's format has
   fewer bits).
5. **An edit can be dropped unasked** (`lost_edits`). `DraftingPage.tsx` says that it asks
   before an unsaved sheet is dropped. Leave a sheet, and return before the other one has
   loaded: the old editor shows again while its sheet is loaded a second time, and the load
   replaces the session whatever was edited meanwhile.
6. **A re-index can overwrite a save** (`reindex_race`). The page says that a background
   re-index stands down for a save. It looks at the touch count once, before its PUT goes
   out with the whole document; a save that the server handles before that PUT is reported
   as successful and then overwritten.

## Promises that do not hold

The findings above are runs of `PROJECT.json`. Beside them are seven properties that state what a
document or a comment of the code says, and that the models break as well: most are the promise of a
property that holds, without the circumstance it excuses. They have a configuration but no run;
`tlc -config <cfg> <module>` finds each violated within seconds, and none is counted as holding.

| Configuration | Module | Property | Bounds |
| --- | --- | --- | --- |
| `LockedRows.cfg` | `MCDrawingRelease` | `LockedRowsAreFiled` | 1 drawing, 1 sheet, 1 system |
| `LateSave.cfg` | `MCReleaseRequests` | `ReleasedSheetsLocked` | 2 requests at a time, 1 sheet, 2 documents |
| `OldParts.cfg` | `MCDraftingPage` | `FreshIsCurrent` | as `drafting_page`, 1 edit |
| `MergeRace.cfg` | `MCPages` | `MergesKeepRows` | as `pages`, 2 parts, 2 calls |
| `LateDryRun.cfg` | `MCPages` | `ImportIsOfItsReport` | as `pages` |
| `LateRefusal.cfg` | `MCPages` | `ReasonsAreOfDrawing` | as `pages`, 2 drawings |
| `LateWaivers.cfg` | `MCPages` | `WaiversFollowSheet` | as `pages`, 2 sheets |

- **A lock that deletions reach around** (`LockedRowsAreFiled`). `implementation.md` says that the
  metadata of a released drawing is locked. Deleting a system sets the reference of
  released drawings to it to NULL, while the snapshot keeps it; a deleted requirement does
  the same to the findings of released sheets. `SnapshotIsLive` says that nothing else parts.
  That deleting a project deletes released drawings and their snapshots is no
  contradiction to a document, but worth knowing: no handler asks.
- **A late save changes a released drawing** (`ReleasedSheetsLocked`). `update_sheet` checks the
  status when it loads; one that loaded before a release committed stores its document on the
  released drawing, whose sheet is then not the one filed.
- **Old parts clear the flag** (`FreshIsCurrent`). `implementation.md` says that a sheet is stale when
  an assigned part changes. The page derives index and DRC from the parts loaded with the
  workspace; a save, and the re-index that the flag itself starts, sends them as complete and
  clears the flag, and the sheet may be released on checks of the old part.
- **A merge takes a row back** (`MergesKeepRows`). `PartsCatalog.tsx` says that a commit merges into
  the newest list. Its ref moves on after the render only: of two answers before it, the second
  merges into the list without the first.
- **A dry run outlives its source** (`ImportIsOfItsReport`). `ImportWizard.tsx` says that any change of
  source or mode invalidates the dry run. One that is under way at the change brings its report
  afterwards and enables the import of a source nobody checked.
- **Reasons on the wrong drawing** (`ReasonsAreOfDrawing`). The reasons of a refused release are said
  to be forgotten when another drawing opens; a refusal answered after that shows them there.
- **Waivers on the wrong sheet** (`WaiversFollowSheet`). The waivers are said to be the open sheet's; a
  waiver given before a switch of sheets and answered after it sets those of the sheet left.

## Proofs

TLC checks a small instance; these theorems hold for every value of the constants.

### `DrawingReleaseProofs`

Assumptions: `ConstantsAssumption` and `NoSnapshotAssumption` of `DrawingRelease` (the
special values are not members of the sets they stand beside, parts, projects and
requirements have different ids, every system and requirement has a project, the empty
document assigns no part, there are finitely many sheet ids, at least one text and one revision).

| Theorem | Statement |
| --- | --- |
| `TypeCorrect` | `Spec => []TypeOK` |
| `ReleasesAreSound` | `Spec => []SnapshotIsLive` |
| `SnapshotsMarkReleases` | `Spec => []ReleasedRevisionsHaveSnapshots` |
| `ReleasedStaysClean` | `Spec => []ReleasedIsClean` |
| `ReleasedStaysFrozen` | `Spec => ReleasedRevisionFrozen` |
| `FlagsAreTrue` | `Spec => []FreshIsDerived` (with `current` TRUE, see above) |
| `AssignedPartsStay` | `Spec => []AssignedPartsExist` |
| `NumbersHaveNoGap` | `Spec => []SheetsContiguous` |
| `BaselinesImplemented` | `Spec => ImplementsBaselines` |

Type correctness goes action by action; the one delicate place is the assignment to the
last revision, which needs that an existing drawing has a revision. The release properties
are proved together, since they lean on each other: a released drawing keeps its snapshot
live because every handler that could change one of its rows is guarded by `Editable`; that
the current revision of an *un*released drawing is never itself released (the last conjunct
of `ReleasedRevisionsHaveSnapshots`) is what keeps `Submit`, `Withdraw` and `Release` from
touching a released revision. `SnapshotIsLive` allows for lost links, so a deletion must be shown to
take nothing else: that is what the two kinds of steps without a guard, `DeleteSystem` and
`DeleteRequirement`, come to. `ReleasedStaysFrozen` names the two ways a released revision goes, the
deletion of an unreleased drawing and of a project. A released drawing may hold outdated derived data, which is no
breach of `FreshIsDerived`, and `Revise` flags all of its sheets at the moment they begin to
count again; that no index row assigns a deleted part holds for released drawings too.

`SheetsContiguous` is proved as `NumberedInv`: an existing drawing has a sheet, the numbers of its
sheets lie within 1 and their count, and no two are equal; that they are then exactly
1 to n is a fact about finite sets (an injection of a finite set into a set of the same
size is onto), and the renumbering after a deletion is the order-preserving map
that closes the gap.

The refinement maps a drawing to the phase of `Baselines`, the content it shows and what is
filed per revision number. Every action is one step of `Baselines` or leaves its view alone;
`Release` locks, `Revise` reopens under the next number, the handlers that change rows
are steps only of open drawings, deletions of systems and requirements are `Lapse`
(all drawings at once, each losing links at most), and that of a project is `Purge`. Its invariants are those above and the bound on revisions.

### `ReleaseRequestsProofs`

| Theorem | Statement |
| --- | --- |
| `RequestsTypeCorrect` | the tables and what each request has read stay well typed |
| `BaselinesStay` | `SpecRequests => BaselineStays` |
| `LoneRequests` | `SpecRequests => LoneRequestsAreSerial` |

`Readable` types what a request has read. For snapshots it is enough that revisions are only
appended at sequences the drawing does not have, whoever read what (`Keeps`). For lone requests
the invariant `LoneInv` says that what a request with its flag `alone` has read is what
the tables hold, and that no other request under way is on its drawing; each commit is then compared with the action of `DrawingRelease`,
column by column. A lone save has read every finding there is, so what its DELETE leaves is
nothing but what it has not seen, which is none.

### `DocumentStoreProofs`

Assumptions: `EditorAssumption` (the limit is positive, the first document is one, `NoKey` is no
key) and `PrecisionAssumption`.

| Theorem | Statement |
| --- | --- |
| `CleanMeansSaved` | `Spec => []CleanIsSaved` |
| `HistoryIsSound` | `Spec => [](HistoryBounded /\ NoSplitDrag)` |

`CleanIsSaved` is not inductive: an answer makes a version clean that was sent long
ago. The invariant adds that a save under way with the current version carries the
current document, and that no save is ahead; it needs that every change counts
the version up, undo and redo too. `NoSplitDrag` speaks of the undo stack alone, but undo and
redo carry entries across: the invariant states it of both stacks laid end to end, with the
seam between the tops. The limit is inductive as the sum of the two lengths.

### `DraftingPageProofs`

Assumptions: `ConstantsAssumption` and `NoRunAssumption`.

| Theorem | Statement |
| --- | --- |
| `TypeCorrect` | `Spec => [](TypeOK /\ OneReindexAtATime)` |
| `EditsAreAtHome` | `Spec => []EditsStayOnTheirSheet` |
| `SavedIsStored` | `Spec => []SavedMeansStored` |
| `ReindexYields` | `Spec => []ReindexYieldsToSaves` |

Types need that a waiting run has exactly one call of its own and that the answers that
carry a list of drawings have one (`Typed`). The last three theorems are one induction (`Sound`). An edit is in a session, a job or a row only of its
home sheet, since a job carries the sheet it was made for and a load replaces document and
sheet at once. What a session counts as saved was stored, since an answer marks the version its
call captured. A re-index in the page's hands that read a sheet before a save is known by
the touch count, or, while the save has not gone out, by the unsaved edits in the session (`Noticed`); neither alone would do.

### `EditorToolsProofs`

Assumption: `EditorAssumption` of `EditorTools`.

| Theorem | Statement |
| --- | --- |
| `GesturesStayFit` | `EditorSpec => []GesturesFitTool` |
| `ViewsKeepUp` | `EditorSpec => []ViewsFollowDocument` |

Every handler is a composition of a few functions of the session (`Emit`, `Applied`, `WithTool`,
`Cancelled` and so on), and a lemma says of each what it keeps. The views are told in one
way only (`Emit`, `OnDocumentChanged`), so they follow once the invariant `Good` adds what
a skipped derivation leaves behind: a derivation is out of date only during a drag with a frame
to come, and a panel's view is always of one document.

### `WorkspaceProofs`

Assumption: `WorkspaceAssumption` (ids are positive numbers, every system has one project).

| Theorem | Statement |
| --- | --- |
| `ListsFollow` | `WorkspaceSpec => []ListsFollowSelection` |

The two guards of `WorkspaceContext.tsx`, a generation for the loads of details and refs for what the
pages reload, are each sound only with the other. The invariant (`WorkspaceInv`) says of a load of the
latest generation that it is of the project the refs name, of a request that its reload is of the
project it began with, and, as long as no selection crossed a request, that the system it will
select is in the list it brings. The induction found two behaviours the first bounds of the run did
not hold: two requests of which one deletes what the other changes, and a project with two systems.
The model now refuses to change a row that is gone, as the server does.

### `DraftingPanelsProofs`

Assumptions: `PanelAssumption` (sheets of different drawings are different); `ListsAssumption` (a
drawing's sheets are different, and it has one at least).

| Theorem | Statement |
| --- | --- |
| `PanelTells` | `PanelSpec => []PanelTellsStanding` |
| `QuietDrawer` | `ListsSpec => []QuietDrawerIsCurrent` |

An answer under way is true of every drawing nobody changed since (`SoundCall`); the others it is marked
with (`old`). A drawing that no other user changed is shown as it is on the server, or an answer
to come will tell of it (`RowsTold`): this is what a page with two calls at once needs, since the first
answer shows a state that the second has left already. The reasons of a refusal stand for as long as
no write under way has cleared them (`ReasonsStand`).

The drawer's rows are a function of the page (`RowsDerived`): a cached index is used only when the
document and the target it was made from are the same, so no cache of true indices can be told from
none (`DrawnFacts`). This is the half of the property that the cache could break. The other half is the page:
its copies cover the other sheets once each, in the numbers the server has unless a removal is on its way
back, and each is as filed or an edit that was stored will bring its document (`CopiesKept`); copies on
their way are as filed (`CopiesRead`). Of a sheet that is not open there is, unless the history says
otherwise, no save and one commit of cells at most. Of the waivers, a call alone tells what is stored
(`WaiversTrue`). TLC checked this invariant (`DrawerInv`) on a drawing of two sheets and one to add before it
was proved. The proof showed that two operators of the model, `HandleWrite` and `TakeWaived`, chose
between cases that overlap, which TLC takes in their order and TLA+ does not; these cases, and
those of three operators elsewhere, exclude one another now.

### `PagesProofs`

Assumptions: `SymbolAssumption`; `ImportAssumption` (what a source holds are rows of known keys and of
cells some setting can read; the empty report is no report and no call); `PartsAssumption` (a range is
a set of cells, the value that stands for nothing is no entry, editor or work); `PageLoadsAssumption`
(a pick below another is numbered in decimals, so that a list has at most nine rows);
`GridAssumption` (columns are finite in number; the rows of a list have ids of their own, and
cells that are blank or have a number, or a label's number, that sorts them).

| Theorem | Statement |
| --- | --- |
| `PicksAndPorts` | `SymbolSpec => []PicksAndPortsHold` |
| `ImportWritesItsReport` | `WizardSpec => ImportsWhatWasShown` |
| `PendingShows` | `PartsSpec => []PendingShowsLastTyped` |
| `QuietGrid` | `PartsSpec => []QuietGridShowsCatalog` |
| `PicksShown` | `LoadsSpec => []PanelsShowTheirPick` |
| `QuietPages` | `LoadsSpec => []QuietPagesAreCurrent` |
| `ViewInOrder` | `GridViewSpec => []ViewIsOrdered` |
| `HiddenStayUnchecked` | `GridViewSpec => HiddenRowsStayUnchecked` |

Symbols. The shapes of a draft have distinct identities, and that is inductive only with the
counter they are drawn from: every identity in the draft is at most the number given out. With it the
three ways a list of shapes shrinks (removing one, undoing the last, an edit that drops the
selected one) keep the selected place on the picked shape. A new port's id is one past the
largest number in use, shown distinct from all of them by the least element of the upper bounds.
What a call carries is copied when it is sent, so the invariant also holds the ports of
saves under way distinct, however late their answers come.

Imports. The invariant says what a report is about: without errors, and unless the
inputs changed under its check (`late`), it is about what the inputs hold now, since every change
of the inputs clears it. An import then carries the body and mode its button's report had. The rest
is about the server: a plan without errors meets each key once, so the table it commits holds
each row's value, and "create only" touches no row that was there. The dry run's plan is not
used: others may have changed the table since, and the server plans anew.

Parts. Cells are saved one call per part, side by side, and merged into the list as they were answered.
The last save of a cell that is under way owns the cell's entry in the overlay: token, value and
status are its own, and an older save that ends finds another's token and leaves it (`PendingShows`).
For `QuietGrid` every part is in step with the catalog, or is one of a call under way that will tell the
page of it, and no part is in two calls unless the history excuses it (`SaveSound`,
`SaveCurrent`). An entry that was just accepted waits for the render that drops it, so the
grid never falls back to the old value in between.

Page loads. `PicksShown` needs what an effect has seen and what it has not: a pick that is not touched is as the
last effects had it, a load that cancels is of that pick, and data that stay belong to
it or are about to be replaced. `QuietPages` is stated of every panel whose effects are done, at any moment
(`PaneQuiet`): it shows the current data, or something under way brings them, which is a load not answered or
answered with the current data, a button that will read the panel again, or, for the matrix, the
requirements whose arrival makes it load again (`Coming`). And an older answer under way does no harm,
since what follows it is still to come (`UpToDate`); if nothing is, the history says that
the older reading came last. Both hold for any number of picks, rows, and presses the numbering has room for.

The grid. Filtering and sorting are both a rearrangement: the elements at some places of a sequence,
in some order of the places (`Arranged`). A strict order ranks finitely many places from 1 on
without gaps (`RanksFill`, by counting: an injection between finite sets of one size is onto), so a
rearrangement loses nothing and doubles nothing (`ArrangedFacts`). What is left is that the comparison of
`sortRows` is a strict order of the rows, for any number of keys, directions and blanks
(`RowsOrdered`): the first key on which two rows differ decides, which is what `ViewInOrder` says of the
result. `HiddenStayUnchecked` follows, since a key or a click checks rows of the view
only, at a place that is clamped into it; a Shift range starts at an anchor that shows.

### What is only model-checked

- `StaleIsTried`: liveness under fairness.
- `ImplementsHistory`: what `Apply` and `Invert` compute for commands of any length is an
  induction over data.
- `SwapsAreAccepted`, `TagsStayDistinct`, `NetsAreComponents`, `CrossingsMatchScan`,
  `PickingMatchesScan`, `EndsFollowPorts`, `ReliefIsReachability`,
  `WaiverCoversOne`, `IndexRowsAgree`: what folds over sequences return, again inductions
  over data.

Type invariants of the proved modules are no properties of runs: the theorems say
more of them than a bounded search could.

## Not modelled

- Rendering, text layout, styles, SVG output, built-in symbols: no state whose order matters.
- Change impact and export: read-only over rows modelled elsewhere.
- The backend of BoMs and of bulk imports, generated part names, documents on disk, trace
  links, accounts: each is a hazard with a note in `PROJECT.json` where something can go wrong.
- On the drafting page: deleting sheets and drawings (in `ListsDrawer` a sheet), creating
  drawings, legacy diagrams, settings, export, and reloading the part cache. A conversion
  of a legacy diagram is a `CreateSheet` whose document is not empty.
- Migrations, seed data, deployment; texts of change events, stamps and dates.

## Plan

1. The backend of bills of material and of part names: the requests that overlap there, with the
   unique names and revision numbers they promise.
2. Documents on disk beside their rows, and accounts.
3. Of the engine, what needs no induction over data: the last step of `TagsStayDistinct`, and that
   a move keeps the attached ends on their ports.
