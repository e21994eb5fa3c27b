--------------------------- MODULE DrawingRelease ---------------------------
(***************************************************************************)
(* The drawing tables of the FSDP backend and the handlers that write      *)
(* them: drawings, their revisions and their sheets, the release workflow  *)
(* (draft, in_review, released), the DRC waivers, and the part and         *)
(* requirement handlers that flag sheets stale.  Deleting a project takes  *)
(* its drawings along, released or not, and deleting a system or a         *)
(* requirement empties the columns that refer to it (ON DELETE SET NULL),  *)
(* in released drawings as well.                                           *)
(*                                                                         *)
(* One action is one HTTP request that ran alone from its first read to    *)
(* its commit.  A refused request (4xx) changes nothing and is no step.    *)
(* What two overlapping requests do is the subject of ReleaseRequests.     *)
(*                                                                         *)
(* Data is reduced to what the rules tell apart.  A sheet document is a    *)
(* member of Documents with the parts its items assign; the index of a     *)
(* sheet is the set of parts its SheetItem rows assign; a DRC run is the   *)
(* set of keys of its error findings (warnings and infos gate nothing).    *)
(* A text that is only stored and copied (titles, revision descriptions)   *)
(* is a member of Texts.  Change events, trace links, stamps, numbers      *)
(* printed on the drawing and the diagram a sheet was converted from are   *)
(* left out.  An id in use is never taken again; an id that no row has any *)
(* more stands for a new one.                                              *)
(*                                                                         *)
(* A definition marked "Fault" is no part of the specification: it stands  *)
(* just before the one it would replace and is a slip the code could have  *)
(* made, kept to see that a property notices it.                           *)
(***************************************************************************)
EXTENDS Integers, Sequences, FiniteSets

CONSTANTS
    Drawings,       \* drawing ids; one not in use is free to be created
    Sheets,         \* sheet ids, of all drawings
    Documents,      \* sheet documents
    EmptyDocument,  \* the document without items
    Parts,          \* the part ids documents refer to
    PartsOf,        \* PartsOf[c]: the parts the items of document c assign
    FindingKeys,    \* keys of DRC error findings
    Projects, Systems, Requirements,    \* their ids
    ProjectOf,      \* ProjectOf[x]: the project of system or requirement x
    RequirementOf,  \* RequirementOf[k]: the requirement finding k is about, or Null
    Null,           \* a reference column without a value
    Texts,          \* titles and descriptions
    Absent,         \* a field the payload of a request leaves out
    NoDrawing,      \* the drawing of a sheet id that is not in use
    NoSnapshot,     \* snapshot column of a revision that was never released
    MaxRevisions    \* bound: revisions a drawing may grow to

ASSUME ConstantsAssumption ==
    /\ EmptyDocument \in Documents
    /\ PartsOf \in [Documents -> SUBSET Parts]
    /\ PartsOf[EmptyDocument] = {}
    /\ Absent \notin Documents /\ Absent \notin Texts
    /\ \A P \in SUBSET Parts : Absent # P
    /\ \A F \in SUBSET FindingKeys : Absent # F
    /\ NoDrawing \notin Drawings
    /\ ProjectOf \in [Systems \cup Requirements -> Projects]
    /\ RequirementOf \in [FindingKeys -> Requirements \cup {Null}]
    /\ Parts \cap (Projects \cup Requirements) = {}
    /\ Projects \cap Requirements = {}
    /\ Null \notin Parts \cup Projects \cup Systems \cup Requirements
    /\ IsFiniteSet(Sheets)
    /\ Texts # {}
    /\ MaxRevisions \in Nat \ {0}

VARIABLES
    drawings,   \* table drawings, each row with its revisions in sequence order
    sheets,     \* table drawing_sheets with the index, DRC and waiver rows of each sheet
    listed      \* ids of the parts, the projects and the requirements there are

vars == <<drawings, sheets, listed>>

-----------------------------------------------------------------------------
(* Rows.                                                                   *)

Status == {"draft", "in_review", "released"}

\* What a release copies of a sheet.
SheetCopy == [no : Nat, title : Texts, doc : Documents, index : SUBSET Parts,
              findings : SUBSET FindingKeys, waivers : SUBSET FindingKeys]

\* What a release copies of a drawing: the title, the revision's text, every sheet, and
\* the links, which are the columns that refer to rows of other tables: the drawing's
\* system, and <<s, k>> where finding k on sheet s names its requirement.  Absent stands
\* for a sheet id that is not one of the drawing's.
Snapshot == [title : Texts, text : Texts,
             sheets : [Sheets -> {Absent} \cup SheetCopy],
             links : SUBSET (Systems \cup (Sheets \X FindingKeys))]

ASSUME NoSnapshotAssumption == NoSnapshot \notin Snapshot

Revision == [status : Status, text : Texts, snapshot : {NoSnapshot} \cup Snapshot]

DrawingRow == [status : Status \cup {"none"}, project : Projects \cup {Null},
               system : Systems \cup {Null}, title : Texts, revs : Seq(Revision)]

\* cites holds the findings whose row names a requirement.  derived is not a column: it
\* is TRUE while the stored index and DRC are what the engine derives from the stored
\* document, the parts and the requirements as they are now.  index_stale is the code's
\* own record of it, stale.  The engine also reads the other sheets' tags, the tag scheme
\* and the symbols, whose changes the code never counts as staleness; neither does derived.
SheetRow == [drawing : Drawings \cup {NoDrawing}, no : Nat, title : Texts,
             doc : Documents, index : SUBSET Parts, findings : SUBSET FindingKeys,
             cites : SUBSET FindingKeys, waivers : SUBSET FindingKeys, stale : BOOLEAN, derived : BOOLEAN]

AnyText == CHOOSE t \in Texts : TRUE

NoRow == [status |-> "none", project |-> Null, system |-> Null, title |-> AnyText,
          revs |-> <<>>]

FreeSheet == [drawing |-> NoDrawing, no |-> 0, title |-> AnyText, doc |-> EmptyDocument,
              index |-> {}, findings |-> {}, cites |-> {}, waivers |-> {},
              stale |-> FALSE, derived |-> TRUE]

TypeOK ==
    /\ drawings \in [Drawings -> DrawingRow]
    /\ sheets \in [Sheets -> SheetRow]
    /\ listed \in SUBSET (Parts \cup Projects \cup Requirements)

-----------------------------------------------------------------------------
(* Reads the handlers share.                                               *)

Exists(d) == drawings[d].status # "none"

SheetsOf(d) == {s \in Sheets : sheets[s].drawing = d}

Current(d) == Len(drawings[d].revs)

CurrentRevision(d) == drawings[d].revs[Current(d)]

\* _ensure_editable: only released refuses; a drawing in review is still edited.
Editable(d) == Exists(d) /\ drawings[d].status # "released"

Unreleased(d) == drawings[d].status # "released"

NeedsIndex(c) == c # EmptyDocument

OpenErrors(s) == sheets[s].findings \ sheets[s].waivers

\* release_blockers is empty.
NoBlockers(d) == \A s \in SheetsOf(d) : ~sheets[s].stale /\ OpenErrors(s) = {}

Copy(row) == [no |-> row.no, title |-> row.title, doc |-> row.doc, index |-> row.index,
              findings |-> row.findings, waivers |-> row.waivers]

Links(d) == ({drawings[d].system} \ {Null}) \cup
            {link \in SheetsOf(d) \X FindingKeys : link[2] \in sheets[link[1]].cites}

\* release_snapshot of drawing d, for the revision with this text.
Content(d, text) == [title |-> drawings[d].title, text |-> text,
                     sheets |-> [s \in Sheets |-> IF s \in SheetsOf(d) THEN Copy(sheets[s])
                                                  ELSE Absent],
                     links |-> Links(d)]

NewSheet(d, no, t, c) ==
    [FreeSheet EXCEPT !.drawing = d, !.no = no, !.title = t, !.doc = c,
                      !.stale = NeedsIndex(c), !.derived = ~NeedsIndex(c)]

NewRevision(t) == [status |-> "draft", text |-> t, snapshot |-> NoSnapshot]

Init ==
    /\ drawings = [d \in Drawings |-> NoRow]
    /\ sheets = [s \in Sheets |-> FreeSheet]
    /\ listed = Parts

-----------------------------------------------------------------------------
(* Projects and systems.                                                   *)

\* POST /projects.
CreateProject(j) ==
    /\ j \notin listed
    /\ listed' = listed \cup {j}
    /\ UNCHANGED <<drawings, sheets>>

\* The findings on a row that still name their requirement once those in gone are deleted.
Citing(row, gone) == {k \in row.cites : RequirementOf[k] \notin gone}

RequirementsOf(j) == {r \in Requirements : ProjectOf[r] = j}

\* DELETE /projects/{id}: the requirements, systems and drawings of the project go with
\* it, drawings that are released and the snapshots on their revisions included.
DeleteProject(j) ==
    /\ j \in listed
    /\ listed' = listed \ ({j} \cup RequirementsOf(j))
    /\ drawings' = [d \in Drawings |-> IF drawings[d].project = j THEN NoRow ELSE drawings[d]]
    /\ sheets' = [s \in Sheets |->
         IF \E d \in Drawings : drawings[d].project = j /\ s \in SheetsOf(d) THEN FreeSheet
         ELSE [sheets[s] EXCEPT !.cites = Citing(sheets[s], RequirementsOf(j))]]

\* DELETE /systems/{id}: the drawings that refer to it stay, without a system.
DeleteSystem(y) ==
    /\ drawings' = [d \in Drawings |-> IF drawings[d].system = y
                                        THEN [drawings[d] EXCEPT !.system = Null]
                                        ELSE drawings[d]]
    /\ UNCHANGED <<sheets, listed>>

-----------------------------------------------------------------------------
(* Drawings.                                                               *)

\* The system a payload names must be of the drawing's project; it may name none.
SystemsOf(j) == {y \in Systems : ProjectOf[y] = j} \cup {Null}

\* POST /projects/{id}/drawings: the row, its first sheet and its first revision.
CreateDrawing(d, s, j, y, t, c) ==
    /\ j \in listed
    /\ y \in SystemsOf(j)
    /\ ~Exists(d)
    /\ sheets[s].drawing = NoDrawing
    /\ drawings' = [drawings EXCEPT ![d] = [status |-> "draft", project |-> j, system |-> y,
                                             title |-> t, revs |-> <<NewRevision(t)>>]]
    /\ sheets' = [sheets EXCEPT ![s] = NewSheet(d, 1, t, c)]
    /\ UNCHANGED listed

\* PUT /drawings/{id}: metadata only, the status is never set here.
UpdateDrawing(d, y, t) ==
    /\ Editable(d)
    /\ y \in SystemsOf(drawings[d].project)
    /\ drawings' = [drawings EXCEPT ![d].title = t, ![d].system = y]
    /\ UNCHANGED <<sheets, listed>>

\* Fault: a released drawing is deleted too.
DeleteDrawingUnguarded(d) ==
    /\ Exists(d)
    /\ drawings' = [drawings EXCEPT ![d] = NoRow]
    /\ sheets' = [s \in Sheets |-> IF s \in SheetsOf(d) THEN FreeSheet ELSE sheets[s]]
    /\ UNCHANGED listed

\* DELETE /drawings/{id}: sheets and revisions go with the row (cascade).
DeleteDrawing(d) ==
    /\ Editable(d)
    /\ drawings' = [drawings EXCEPT ![d] = NoRow]
    /\ sheets' = [s \in Sheets |-> IF s \in SheetsOf(d) THEN FreeSheet ELSE sheets[s]]
    /\ UNCHANGED listed

-----------------------------------------------------------------------------
(* Sheets.                                                                 *)

\* The one number after the highest of the drawing's sheets, 1 when it has none.
NextNo(d) == {no \in {1} \cup {sheets[s].no + 1 : s \in SheetsOf(d)} :
                  \A s \in SheetsOf(d) : sheets[s].no < no}

CreateSheet(d, s, t, c) ==
    /\ Editable(d)
    /\ sheets[s].drawing = NoDrawing
    /\ \E no \in NextNo(d) : sheets' = [sheets EXCEPT ![s] = NewSheet(d, no, t, c)]
    /\ UNCHANGED <<drawings, listed>>

\* What PUT /sheets/{id} makes of a row.  Each of title t, document c, index ix and drc
\* may be Absent.  Parts the catalog does not know are dropped from the index rows, and a
\* finding about a requirement that is not known is stored without naming it.
\* Index and DRC together clear the flag, a document or half of them set it.  current:
\* the sender derived ix and drc from the document this save leaves stored and from
\* the parts and requirements as they are now.
SavedRow(row, t, c, ix, drc, current) ==
    LET complete == ix # Absent /\ drc # Absent
        partial  == ~complete /\ (c # Absent \/ ix # Absent \/ drc # Absent)
    IN  [row EXCEPT !.title    = IF t = Absent THEN row.title ELSE t,
                    !.doc      = IF c = Absent THEN row.doc ELSE c,
                    !.index    = IF ix = Absent THEN row.index ELSE ix \cap listed,
                    !.findings = IF drc = Absent THEN row.findings ELSE drc,
                    !.cites    = IF drc = Absent THEN row.cites
                                 ELSE {k \in drc : RequirementOf[k] \in listed},
                    !.stale    = ~complete /\ (partial \/ row.stale),
                    !.derived  = IF complete THEN current ELSE ~partial /\ row.derived]

SaveSheet(s, t, c, ix, drc, current) ==
    /\ sheets[s].drawing # NoDrawing
    /\ Editable(sheets[s].drawing)
    /\ sheets' = [sheets EXCEPT ![s] = SavedRow(sheets[s], t, c, ix, drc, current)]
    /\ UNCHANGED <<drawings, listed>>

\* Fault: the remaining sheets keep their numbers.
DeleteSheetKeepingNumbers(s) ==
    /\ sheets[s].drawing # NoDrawing
    /\ Editable(sheets[s].drawing)
    /\ SheetsOf(sheets[s].drawing) # {s}
    /\ sheets' = [sheets EXCEPT ![s] = FreeSheet]
    /\ UNCHANGED <<drawings, listed>>

\* DELETE /sheets/{id}: the sheets that remain are numbered 1, 2, ... in their order.
DeleteSheet(s) ==
    LET d    == sheets[s].drawing
        rest == SheetsOf(d) \ {s}
    IN  /\ d # NoDrawing
        /\ Editable(d)
        /\ rest # {}
        /\ sheets' = [r \in Sheets |->
             IF r = s THEN FreeSheet
             ELSE IF r \in rest
                  THEN [sheets[r] EXCEPT
                          !.no = 1 + Cardinality({q \in rest : sheets[q].no < sheets[r].no})]
                  ELSE sheets[r]]
        /\ UNCHANGED <<drawings, listed>>

\* PUT /sheets/{id}/drc/waivers: a second waiver of the same key rewrites the first.
Waive(s, k) ==
    /\ sheets[s].drawing # NoDrawing
    /\ Editable(sheets[s].drawing)
    /\ sheets' = [sheets EXCEPT ![s].waivers = @ \cup {k}]
    /\ UNCHANGED <<drawings, listed>>

Unwaive(s, k) ==
    /\ sheets[s].drawing # NoDrawing
    /\ Editable(sheets[s].drawing)
    /\ k \in sheets[s].waivers
    /\ sheets' = [sheets EXCEPT ![s].waivers = @ \ {k}]
    /\ UNCHANGED <<drawings, listed>>

-----------------------------------------------------------------------------
(* Revisions and the release workflow.                                     *)

\* POST /drawings/{id}/revisions: also while the drawing is in review.
CreateRevision(d, t) ==
    /\ Editable(d)
    /\ Current(d) < MaxRevisions
    /\ drawings' = [drawings EXCEPT ![d].revs = Append(@, NewRevision(t))]
    /\ UNCHANGED <<sheets, listed>>

\* Fault: the revision's own status is not looked at, only the drawing's.
UpdateAnyRevision(d, n, t) ==
    /\ Editable(d)
    /\ n \in 1..Current(d)
    /\ drawings' = [drawings EXCEPT ![d].revs[n].text = t]
    /\ UNCHANGED <<sheets, listed>>

\* PUT /revisions/{id} of revision n.
UpdateRevision(d, n, t) ==
    /\ Editable(d)
    /\ n \in 1..Current(d)
    /\ drawings[d].revs[n].status # "released"
    /\ drawings' = [drawings EXCEPT ![d].revs[n].text = t]
    /\ UNCHANGED <<sheets, listed>>

\* The drawing and its current revision, and only that one, take the status.
SetStatus(d, status) ==
    drawings' = [drawings EXCEPT ![d].status = status,
                                 ![d].revs[Current(d)].status = status]

Submit(d) ==
    /\ drawings[d].status = "draft"
    /\ SetStatus(d, "in_review")
    /\ UNCHANGED <<sheets, listed>>

Withdraw(d) ==
    /\ drawings[d].status = "in_review"
    /\ SetStatus(d, "draft")
    /\ UNCHANGED <<sheets, listed>>

\* The current revision once it is released: stamped, with the copy of the drawing on it.
Filed(d) ==
    [CurrentRevision(d) EXCEPT !.status = "released",
                               !.snapshot = Content(d, CurrentRevision(d).text)]

Release(d) ==
    /\ Editable(d)
    /\ NoBlockers(d)
    /\ drawings' = [drawings EXCEPT
         ![d].status = "released",
         ![d].revs[Current(d)] = Filed(d)]
    /\ UNCHANGED <<sheets, listed>>

\* Fault: the released revision itself is reopened.
ReopenRevision(d, t) ==
    /\ drawings[d].status = "released"
    /\ SetStatus(d, "draft")
    /\ UNCHANGED <<sheets, listed>>

\* Fault: what changed while the drawing was released is not made up for.
ReviseUnflagged(d, t) ==
    /\ drawings[d].status = "released"
    /\ Current(d) < MaxRevisions
    /\ drawings' = [drawings EXCEPT ![d].status = "draft",
                                    ![d].revs = Append(@, NewRevision(t))]
    /\ UNCHANGED <<sheets, listed>>

\* mark_drawing_sheets_stale for the new revision.
Revise(d, t) ==
    /\ drawings[d].status = "released"
    /\ Current(d) < MaxRevisions
    /\ drawings' = [drawings EXCEPT ![d].status = "draft",
                                    ![d].revs = Append(@, NewRevision(t))]
    /\ sheets' = [s \in Sheets |-> IF s \in SheetsOf(d)
                                   THEN [sheets[s] EXCEPT !.stale = TRUE]
                                   ELSE sheets[s]]
    /\ UNCHANGED listed

-----------------------------------------------------------------------------
(* Parts and requirements, as far as they reach the sheets.                *)

InUse(s) == sheets[s].drawing # NoDrawing

\* Fault: released drawings are flagged as well.
MarkableAny(s) == InUse(s)

\* The rows the UPDATE of a mark_*_stale reaches: of unreleased drawings only.
Markable(s) == InUse(s) /\ Unreleased(sheets[s].drawing)

\* Row s after an UPDATE that flags the sheets in marked; those in touched no longer hold
\* derived data that matches its inputs.
Flagged(s, marked, touched) == [sheets[s] EXCEPT !.stale = @ \/ s \in marked,
                                                 !.derived = @ /\ s \notin touched]

FlagSheets(marked, touched) == sheets' = [s \in Sheets |-> Flagged(s, marked, touched)]

\* mark_sheets_stale_for_part finds the sheets by their index rows, not by their
\* documents.
AssignedOn(p) == {s \in Sheets : Markable(s) /\ p \in sheets[s].index}

\* Sheets whose document refers to p: what the engine derives from them depends on p.
DependOn(p) == {s \in Sheets : InUse(s) /\ p \in PartsOf[sheets[s].doc]}

\* PUT /parts/{id} that changes a value; one that changes none marks nothing.
UpdatePart(p) ==
    /\ p \in listed
    /\ FlagSheets(AssignedOn(p), DependOn(p))
    /\ UNCHANGED <<drawings, listed>>

\* POST /parts/{id}/obsolete marks whether or not the part was obsolete before.
ObsoletePart(p, changed) ==
    /\ p \in listed
    /\ FlagSheets(AssignedOn(p), IF changed THEN DependOn(p) ELSE {})
    /\ UNCHANGED <<drawings, listed>>

\* Fault: only index rows of unreleased drawings keep a part.
DeletePartOfReleased(p) ==
    /\ p \in listed
    /\ \A s \in Sheets : Markable(s) => p \notin sheets[s].index
    /\ listed' = listed \ {p}
    /\ FlagSheets({}, DependOn(p))
    /\ UNCHANGED drawings

\* DELETE /parts/{id}: refused while an index row of any drawing assigns the part.
DeletePart(p) ==
    /\ p \in listed
    /\ \A s \in Sheets : InUse(s) => p \notin sheets[s].index
    /\ listed' = listed \ {p}
    /\ FlagSheets({}, DependOn(p))
    /\ UNCHANGED drawings

SheetsUnder(j) == {s \in Sheets : InUse(s) /\ drawings[sheets[s].drawing].project = j}

\* mark_project_sheets_stale, run when a requirement with a constraint comes or goes or
\* one that had or has a constraint is changed.
MarkedFor(r) == {s \in SheetsUnder(ProjectOf[r]) : Markable(s)}

CreateRequirement(r, constrained) ==
    /\ ProjectOf[r] \in listed
    /\ r \notin listed
    /\ listed' = listed \cup {r}
    /\ IF constrained THEN FlagSheets(MarkedFor(r), SheetsUnder(ProjectOf[r]))
                       ELSE UNCHANGED sheets
    /\ UNCHANGED drawings

\* changed: the constraint differs afterwards, so the checks of every sheet of the project
\* would come out anew.
UpdateRequirement(r, changed) ==
    /\ r \in listed
    /\ FlagSheets(MarkedFor(r), IF changed THEN SheetsUnder(ProjectOf[r]) ELSE {})
    /\ UNCHANGED <<drawings, listed>>

\* Fault: the findings go with the requirement they are about.
DeleteRequirementAndFindings(r, constrained) ==
    LET marked  == IF constrained THEN MarkedFor(r) ELSE {}
        touched == IF constrained THEN SheetsUnder(ProjectOf[r]) ELSE {}
    IN  /\ r \in listed
        /\ listed' = listed \ {r}
        /\ sheets' = [s \in Sheets |->
             [Flagged(s, marked, touched) EXCEPT
                !.cites = Citing(sheets[s], {r}),
                !.findings = {k \in @ : RequirementOf[k] # r}]]
        /\ UNCHANGED drawings

\* DELETE /requirements/{id}: its findings stay and no longer name it.
DeleteRequirement(r, constrained) ==
    LET marked  == IF constrained THEN MarkedFor(r) ELSE {}
        touched == IF constrained THEN SheetsUnder(ProjectOf[r]) ELSE {}
    IN  /\ r \in listed
        /\ listed' = listed \ {r}
        /\ sheets' = [s \in Sheets |->
             [Flagged(s, marked, touched) EXCEPT !.cites = Citing(sheets[s], {r})]]
        /\ UNCHANGED drawings

-----------------------------------------------------------------------------

\* Derived data comes from the engine, which indexes the document the save leaves.
IndexOf(s, c) == PartsOf[IF c = Absent THEN sheets[s].doc ELSE c]

SheetRequest(s) ==
    \/ \E d \in Drawings, t \in Texts, c \in Documents :
          \/ \E j \in Projects : \E y \in SystemsOf(j) : CreateDrawing(d, s, j, y, t, c)
          \/ CreateSheet(d, s, t, c)
    \/ \E t \in Texts \cup {Absent}, c \in Documents \cup {Absent},
          drc \in (SUBSET FindingKeys) \cup {Absent} :
          \E ix \in {Absent, IndexOf(s, c)} : SaveSheet(s, t, c, ix, drc, TRUE)
    \/ DeleteSheet(s)
    \/ \E k \in FindingKeys : Waive(s, k) \/ Unwaive(s, k)

DrawingRequest(d) ==
    \/ \E y \in Systems \cup {Null}, t \in Texts : UpdateDrawing(d, y, t)
    \/ DeleteDrawing(d)
    \/ \E t \in Texts : CreateRevision(d, t)
    \/ \E n \in 1..Current(d), t \in Texts : UpdateRevision(d, n, t)
    \/ Submit(d)
    \/ Withdraw(d)
    \/ Release(d)
    \/ \E t \in Texts : Revise(d, t)

CatalogRequest(p) ==
    \/ UpdatePart(p)
    \/ \E changed \in BOOLEAN : ObsoletePart(p, changed)
    \/ DeletePart(p)

RequirementRequest(r) ==
    \/ \E constrained \in BOOLEAN : CreateRequirement(r, constrained)
    \/ \E changed \in BOOLEAN : UpdateRequirement(r, changed)
    \/ \E constrained \in BOOLEAN : DeleteRequirement(r, constrained)

Next ==
    \/ \E j \in Projects : CreateProject(j) \/ DeleteProject(j)
    \/ \E y \in Systems : DeleteSystem(y)
    \/ \E s \in Sheets : SheetRequest(s)
    \/ \E d \in Drawings : DrawingRequest(d)
    \/ \E p \in Parts : CatalogRequest(p)
    \/ \E r \in Requirements : RequirementRequest(r)

Spec == Init /\ [][Next]_vars

-----------------------------------------------------------------------------
(* Properties.                                                             *)

\* The baselines the release workflow promises: a drawing is locked while released, a
\* reader sees its rows, and revision n is filed as the snapshot on it.
Promise == INSTANCE Baselines WITH
    Nothing <- NoSnapshot,
    projects <- listed \cap Projects,
    home <- [d \in Drawings |-> drawings[d].project],
    phase <- [d \in Drawings |-> IF ~Exists(d) THEN "none"
                                 ELSE IF Unreleased(d) THEN "open" ELSE "locked"],
    content <- [d \in Drawings |-> IF Exists(d) THEN Content(d, CurrentRevision(d).text)
                                   ELSE NoSnapshot],
    number <- [d \in Drawings |-> Current(d)],
    baseline <- [d \in Drawings |-> [n \in 1..MaxRevisions |->
                    IF n \in 1..Current(d) THEN drawings[d].revs[n].snapshot
                    ELSE NoSnapshot]]

\* Every request is a step of Baselines or leaves what it sees alone: a release files
\* exactly what the rows hold, nothing but a release files anything, a locked drawing
\* loses no more than links, and goes only with its project.
ImplementsBaselines == Promise!Spec

\* A released drawing stays releasable: no sheet of it turns stale or gains an open
\* error, whatever requests follow (release_blockers, _ensure_editable, and the
\* unreleased filter of the mark_*_stale updates).
ReleasedIsClean ==
    \A d \in Drawings : drawings[d].status = "released" => NoBlockers(d)

\* While a drawing is released its current revision is released too, and the drawing's
\* rows hold what the snapshot on it holds, except for links to a system or a
\* requirement that has been deleted since (release_drawing, release_snapshot, every
\* handler that _ensure_editable guards, and the columns set NULL by delete_system and
\* delete_requirement).
SnapshotIsLive ==
    \A d \in Drawings : drawings[d].status = "released" =>
        /\ CurrentRevision(d).status = "released"
        /\ Promise!Loses(CurrentRevision(d).snapshot, Content(d, CurrentRevision(d).text))

\* implementation.md says that the metadata of a released drawing is locked until a new
\* revision is started: the rows hold all that the snapshot holds.
LockedRowsAreFiled ==
    \A d \in Drawings : drawings[d].status = "released" =>
        CurrentRevision(d).snapshot = Content(d, CurrentRevision(d).text)

\* A revision has a snapshot exactly when it is released, a drawing has a revision as
\* long as it exists, and the current revision of an unreleased drawing is not released:
\* nothing leads back from released except a new revision.
ReleasedRevisionsHaveSnapshots ==
    \A d \in Drawings :
        /\ \A n \in 1..Current(d) :
              LET rev == drawings[d].revs[n]
              IN  rev.status = "released" <=> rev.snapshot # NoSnapshot
        /\ Exists(d) <=> Current(d) > 0
        /\ Editable(d) => CurrentRevision(d).status # "released"

\* As long as every save derives its data from the parts and requirements as they are
\* (current is TRUE in Next; a client whose lists are old breaks this, see DraftingPage),
\* the flag of an unreleased sheet can be trusted: when index_stale is FALSE the stored
\* index and DRC are what the engine would derive now, and the index assigns the parts
\* of the document, so the next part change finds the sheet (update_sheet,
\* mark_sheets_stale_for_part, mark_project_sheets_stale, revise_drawing).
FreshIsDerived ==
    \A s \in Sheets : Markable(s) /\ ~sheets[s].stale =>
        /\ sheets[s].derived
        /\ sheets[s].index = PartsOf[sheets[s].doc] \cap listed

\* No index row assigns a part the catalog has deleted, in released drawings either.
AssignedPartsExist ==
    \A s \in Sheets : sheets[s].index \subseteq listed

\* The sheets of a drawing are numbered 1, 2, ... without a gap or a repeat, and there
\* is at least one ("2 OF 3", delete_sheet; create_sheet takes the highest plus one).
SheetsContiguous ==
    \A d \in Drawings : Exists(d) =>
        /\ SheetsOf(d) # {}
        /\ {sheets[s].no : s \in SheetsOf(d)} = 1..Cardinality(SheetsOf(d))

KeepsReleased ==
    \A d \in Drawings : \A n \in 1..Current(d) :
        drawings[d].revs[n].status = "released" =>
            \/ n \in 1..Current(d)' /\ drawings'[d].revs[n] = drawings[d].revs[n]
            \/ drawings[d].status # "released" /\ ~Exists(d)'
            \/ drawings[d].project \in listed \ listed' /\ ~Exists(d)'

\* A released revision never changes again: not its status, text or snapshot.  It goes
\* only with the whole drawing, which has to be unreleased then, or with the whole
\* project (delete_project asks for no status).
ReleasedRevisionFrozen == [][KeepsReleased]_vars

\* implementation.md says that a drawing and its current revision move through the
\* three states together.
StatusesAgree ==
    \A d \in Drawings : Exists(d) => CurrentRevision(d).status = drawings[d].status

=============================================================================
