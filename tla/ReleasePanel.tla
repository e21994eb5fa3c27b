---------------------------- MODULE ReleasePanel ----------------------------
(***************************************************************************)
(* The release workflow as the drafting page shows it (DraftingPage.tsx,    *)
(* DrawingWorkflow.tsx): the actions offered for the open drawing, why its   *)
(* last release was refused, which of its sheets are out of date, and the    *)
(* snapshot of a released revision.  All of it is the page's copy: other     *)
(* users act on the drawings, calls are lost, answers come in any order.     *)
(*                                                                         *)
(* DrawingRelease models the server; here a drawing is its status, the       *)
(* number of its revision and what its sheets say to a release.              *)
(***************************************************************************)
EXTENDS Integers, FiniteSets

CONSTANTS
    PanelDrawings,
    SheetsOf,        \* SheetsOf[d]: the sheets of drawing d
    FirstStale,      \* the sheets out of date to begin with
    NoView,
    MaxPanelEvents   \* bound: what the users do, and calls lost

AllSheets == UNION {SheetsOf[d] : d \in PanelDrawings}

ASSUME PanelAssumption ==
    /\ \A d, e \in PanelDrawings : d # e => SheetsOf[d] \cap SheetsOf[e] = {}
    /\ FirstStale \subseteq AllSheets
    /\ NoView \notin PanelDrawings \X Nat

VARIABLES
    served,   \* the server's drawings
    panel,    \* the page
    posted,   \* calls to the server under way
    refusal,  \* history: reasons of the last refusal that still hold and were not dismissed
    missed,   \* history: drawings changed without the page being told
    mended,   \* history: as missed, for the reasons shown
    mixed,  \* history: an answer came after another drawing was opened
    panelEvents

panelHistory == <<refusal, missed, mended, mixed>>
panelVars == <<served, panel, posted, panelHistory, panelEvents>>

Moves == {"submit", "withdraw", "release", "revise"}
Writes == {"save", "index"}

\* Of a drawing: its status, its revision, which revisions are released, its stale sheets.
RowOf(world, d) ==
    [status |-> world.status[d], revision |-> world.revision[d], released |-> world.released[d],
     stale |-> world.stale \cap SheetsOf[d]]

\* Why a release is refused.
ReasonsOf(world, d) ==
    {[code |-> "index_stale", sheet |-> s] : s \in world.stale \cap SheetsOf[d]}
    \cup {[code |-> "drc_errors", sheet |-> s] : s \in (world.errors \ world.stale) \cap SheetsOf[d]}

RequestOf(kind, d) ==
    [kind |-> kind, drawing |-> d, sheet |-> 0, next |-> "nothing", step |-> "sent", holds |-> FALSE,
     reasons |-> {}, errors |-> FALSE, rows |-> [e \in {} |-> RowOf(served, e)], old |-> {}]

PanelInit ==
    /\ served = [status |-> [d \in PanelDrawings |-> "draft"], revision |-> [d \in PanelDrawings |-> 1],
                 released |-> [d \in PanelDrawings |-> {}], stale |-> FirstStale, errors |-> {}]
    /\ \E d \in PanelDrawings : \E s \in SheetsOf[d] :
          panel = [rows |-> [e \in PanelDrawings |-> RowOf(served, e)], open |-> d, sheet |-> s, dirty |-> FALSE,
                   reasons |-> {}, busy |-> FALSE, view |-> NoView, snapshot |-> NoView]
    /\ posted = {}
    /\ refusal = {} /\ missed = {} /\ mended = FALSE /\ mixed = FALSE
    /\ panelEvents = 0

Happened == panelEvents < MaxPanelEvents /\ panelEvents' = panelEvents + 1

ShownStatus == panel.rows[panel.open].status

\* canEdit
ShownEditable == ShownStatus # "released"

-----------------------------------------------------------------------------
(* The user of the page.                                                   *)

\* WorkflowPanel: the buttons of a drawing with this status.
Offered(status) ==
    {kind \in Moves :
        \/ kind = "submit" /\ status = "draft"
        \/ kind = "withdraw" /\ status = "in_review"
        \/ kind = "release" /\ status # "released"
        \/ kind = "revise" /\ status = "released"}

\* save of the open sheet; what is to follow it goes with it.
SaveThen(next) == [RequestOf("save", panel.open) EXCEPT !.sheet = panel.sheet, !.next = next]

\* Submitting and releasing save an edited sheet first; the buttons are not disabled while they do.
PressAction(kind) ==
    /\ ~panel.busy /\ kind \in Offered(ShownStatus)
    /\ IF panel.dirty /\ kind \in {"submit", "release"}
       THEN posted' = posted \cup {SaveThen(kind)} /\ UNCHANGED panel
       ELSE /\ posted' = posted \cup {RequestOf(kind, panel.open)}
            /\ panel' = [panel EXCEPT !.busy = TRUE]
    /\ Happened /\ UNCHANGED <<served, panelHistory>>

\* switchDrawing: the reasons and the snapshot of the drawing left are forgotten.
ShowDrawing(d, s) ==
    /\ d # panel.open /\ s \in SheetsOf[d]
    /\ panel' = [panel EXCEPT !.open = d, !.sheet = s, !.dirty = FALSE, !.reasons = {}, !.view = NoView, !.snapshot = NoView]
    /\ posted' = {c \in posted : c.kind # "snapshot"}
    /\ refusal' = {} /\ mended' = FALSE /\ mixed' = FALSE
    /\ Happened /\ UNCHANGED <<served, missed>>

\* openBlocker: the sheet a reason is about is opened, and an edit of the one left is discarded.
OpenBlocker(reason) ==
    /\ reason \in panel.reasons /\ reason.sheet \in SheetsOf[panel.open] \ {panel.sheet}
    /\ panel' = [panel EXCEPT !.sheet = reason.sheet, !.dirty = FALSE]
    /\ Happened /\ UNCHANGED <<served, posted, panelHistory>>

DismissReasons ==
    /\ panel.reasons # {}
    /\ panel' = [panel EXCEPT !.reasons = {}]
    /\ refusal' = {}
    /\ Happened /\ UNCHANGED <<served, posted, missed, mended, mixed>>

\* DraftingPage models edits made while the sheet is saved.
EditShownSheet ==
    /\ ShownEditable /\ ~panel.dirty /\ \A c \in posted : c.kind # "save"
    /\ panel' = [panel EXCEPT !.dirty = TRUE]
    /\ Happened /\ UNCHANGED <<served, posted, panelHistory>>

SaveShownSheet ==
    /\ ShownEditable /\ panel.dirty
    /\ posted' = posted \cup {SaveThen("nothing")}
    /\ Happened /\ UNCHANGED <<served, panel, panelHistory>>

\* The background re-index, or the button beside a reason: one sheet at a time, never one with edits.
ReindexSheet(s) ==
    /\ ShownEditable /\ \A c \in posted : c.kind # "index"
    /\ s \in panel.rows[panel.open].stale \cup {r.sheet : r \in {q \in panel.reasons : q.code = "index_stale"}}
    /\ s \in SheetsOf[panel.open] /\ ~(panel.dirty /\ s = panel.sheet)
    /\ posted' = posted \cup {[RequestOf("index", panel.open) EXCEPT !.sheet = s]}
    /\ Happened /\ UNCHANGED <<served, panel, panelHistory>>

\* addSheet and the like read the list of drawings again.
RereadDrawings ==
    /\ \A c \in posted : c.kind # "list"
    /\ posted' = posted \cup {RequestOf("list", panel.open)}
    /\ Happened /\ UNCHANGED <<served, panel, panelHistory>>

\* RevisionTable: a released revision can be viewed.
ViewRevision(r) ==
    /\ panel.view = NoView /\ r \in panel.rows[panel.open].released
    /\ panel' = [panel EXCEPT !.view = <<panel.open, r>>]
    /\ posted' = posted \cup {[RequestOf("snapshot", panel.open) EXCEPT !.sheet = r]}
    /\ Happened /\ UNCHANGED <<served, panelHistory>>

CloseView ==
    /\ panel.view # NoView
    /\ panel' = [panel EXCEPT !.view = NoView, !.snapshot = NoView]
    /\ posted' = {c \in posted : c.kind # "snapshot"}
    /\ Happened /\ UNCHANGED <<served, panelHistory>>

-----------------------------------------------------------------------------
(* The server, and the users of other pages.                               *)

Accepts(kind, d) ==
    \/ kind \in {"list", "snapshot"}
    \/ kind \in Writes /\ served.status[d] # "released"
    \/ kind \in Offered(served.status[d]) /\ (kind = "release" => ReasonsOf(served, d) = {})

\* The drawings after an accepted call; a write stores whether the sheet has errors.
After(kind, d, s, errors) ==
    CASE kind = "submit" -> [served EXCEPT !.status[d] = "in_review"]
      [] kind = "withdraw" -> [served EXCEPT !.status[d] = "draft"]
      [] kind = "release" ->
            [served EXCEPT !.status[d] = "released", !.released[d] = served.released[d] \cup {served.revision[d]}]
      [] kind = "revise" ->
            [served EXCEPT !.status[d] = "draft", !.revision[d] = served.revision[d] + 1, !.stale = served.stale \cup SheetsOf[d]]
      [] kind \in Writes ->
            [served EXCEPT !.stale = served.stale \ {s}, !.errors = (served.errors \ {s}) \cup {q \in {s} : errors}]
      [] OTHER -> served

\* What drawing d's change to world makes of the answers under way and of the reasons that hold.
Changes(world, d, calls, answers) ==
    /\ served' = world
    /\ posted' = answers \cup (IF world = served THEN calls
                              ELSE {IF c.step = "sent" THEN c ELSE [c EXCEPT !.old = c.old \cup {d}] : c \in calls})
    /\ refusal' = refusal \cap UNION {ReasonsOf(world, e) : e \in PanelDrawings}

ServerHandles(c) ==
    /\ c.step = "sent"
    /\ \E errors \in {e \in BOOLEAN : e => c.kind \in Writes} :
          LET accepted == Accepts(c.kind, c.drawing)
              world == IF accepted THEN After(c.kind, c.drawing, c.sheet, errors) ELSE served
              answered == CASE c.kind \in Moves -> {c.drawing} [] c.kind = "list" -> PanelDrawings [] OTHER -> {}
              why == IF c.kind = "release" /\ served.status[c.drawing] # "released" THEN ReasonsOf(served, c.drawing) ELSE {}
          IN Changes(world, c.drawing, posted \ {c},
                     {IF accepted
                      THEN [c EXCEPT !.step = "done", !.errors = errors, !.rows = [e \in answered |-> RowOf(world, e)]]
                      ELSE [c EXCEPT !.step = "refused", !.reasons = why]})
    /\ UNCHANGED <<panel, missed, mended, mixed, panelEvents>>

\* A call lost before the server handled it, or its answer after.
LoseAnswer(c) ==
    /\ c.step # "failed"
    /\ posted' = (posted \ {c}) \cup {[c EXCEPT !.step = "failed", !.reasons = {}, !.rows = [e \in {} |-> RowOf(served, e)]]}
    /\ LET unheard == c.step = "done" /\ c.kind \in Moves \cup Writes
       IN /\ missed' = IF unheard THEN missed \cup {c.drawing} ELSE missed
          /\ mended' = (mended \/ (unheard /\ c.drawing = panel.open))
    /\ Happened /\ UNCHANGED <<served, panel, refusal, mixed>>

\* What another user's step makes of the drawings: drawing d moved on, one of its sheets saved, or
\* a part or requirement changed that one of its sheets was derived from.
OthersLeave(d) ==
    {After(kind, d, 0, FALSE) : kind \in {k \in Moves : Accepts(k, d)}}
        \cup {After("save", d, s, errors) : s \in {q \in SheetsOf[d] : Accepts("save", d)}, errors \in BOOLEAN}
        \cup {[served EXCEPT !.stale = served.stale \cup {s}] : s \in {q \in SheetsOf[d] : served.status[d] # "released"}}

OthersChange(d) ==
    /\ \E world \in OthersLeave(d) :
          /\ world # served
          /\ Changes(world, d, posted, {})
    /\ missed' = missed \cup {d}
    /\ mended' = (mended \/ d = panel.open)
    /\ Happened /\ UNCHANGED <<panel, mixed>>

-----------------------------------------------------------------------------
(* The page takes an answer.                                               *)

RowsAnswered(c) == [d \in PanelDrawings |-> IF d \in DOMAIN c.rows THEN c.rows[d] ELSE panel.rows[d]]

\* runWorkflow: the drawing answered is shown, and the reasons on show are taken to be settled.
TakeMove(c) ==
    /\ c.kind \in Moves /\ c.step = "done"
    /\ panel' = [panel EXCEPT !.rows = RowsAnswered(c), !.reasons = {}, !.busy = FALSE]
    /\ posted' = posted \ {c}
    /\ missed' = (missed \ {c.drawing}) \cup c.old
    /\ mixed' = (mixed \/ c.drawing # panel.open)
    /\ refusal' = {} /\ UNCHANGED <<served, mended, panelEvents>>

\* A release refused: its reasons are shown, and the list of drawings is read before another action can be chosen.
TakeReasons(c) ==
    /\ c.step = "refused" /\ c.reasons # {}
    /\ panel' = [panel EXCEPT !.reasons = c.reasons]
    /\ posted' = (posted \ {c}) \cup {[RequestOf("list", c.drawing) EXCEPT !.holds = TRUE]}
    /\ refusal' = c.reasons \cap ReasonsOf(served, c.drawing)
    /\ mended' = (c.old # {})
    /\ mixed' = (mixed \/ c.drawing # panel.open)
    /\ UNCHANGED <<served, missed, panelEvents>>

\* Any other failure only ends the action; what was to follow a save does not.
TakeFailure(c) ==
    /\ c.step = "failed" \/ (c.step = "refused" /\ c.reasons = {})
    /\ posted' = posted \ {c}
    /\ panel' = IF c.kind \in Moves \/ c.holds THEN [panel EXCEPT !.busy = FALSE] ELSE panel
    /\ UNCHANGED <<served, panelHistory, panelEvents>>

\* refreshDrawings.
TakeDrawings(c) ==
    /\ c.kind = "list" /\ c.step = "done"
    /\ panel' = [panel EXCEPT !.rows = RowsAnswered(c), !.busy = panel.busy /\ ~c.holds]
    /\ posted' = posted \ {c}
    /\ missed' = c.old
    /\ UNCHANGED <<served, refusal, mended, mixed, panelEvents>>

\* Fault: a sheet just indexed has nothing against a release.
ClearedAll(reasons, s, errors) == {r \in reasons : r.sheet = s}

\* markSheetIndexed, of the reasons: all but a finding of errors that the sheet still has.
Cleared(reasons, s, errors) == {r \in reasons : r.sheet = s /\ ~(r.code = "drc_errors" /\ errors)}

\* A sheet was saved or re-indexed; a save made for an action is followed by it.
TakeWrite(c) ==
    /\ c.kind \in Writes /\ c.step = "done"
    /\ LET follows == c.kind = "save" /\ c.next # "nothing"
       IN /\ panel' = [panel EXCEPT !.rows[c.drawing].stale = panel.rows[c.drawing].stale \ {c.sheet},
                                    !.reasons = panel.reasons \ Cleared(panel.reasons, c.sheet, c.errors),
                                    !.dirty = panel.dirty /\ ~(c.kind = "save" /\ c.sheet = panel.sheet),
                                    !.busy = panel.busy \/ follows]
          /\ posted' = (posted \ {c}) \cup {q \in {RequestOf(c.next, c.drawing)} : follows}
    /\ missed' = missed \cup c.old
    /\ mended' = (mended \/ panel.open \in c.old)
    /\ UNCHANGED <<served, refusal, mixed, panelEvents>>

TakeSnapshot(c) ==
    /\ c.kind = "snapshot" /\ c.step = "done"
    /\ panel' = [panel EXCEPT !.snapshot = <<c.drawing, c.sheet>>]
    /\ posted' = posted \ {c}
    /\ UNCHANGED <<served, panelHistory, panelEvents>>

PanelNext ==
    \/ \E kind \in Moves : PressAction(kind)
    \/ \E d \in PanelDrawings, s \in AllSheets : ShowDrawing(d, s)
    \/ \E reason \in panel.reasons : OpenBlocker(reason)
    \/ DismissReasons
    \/ EditShownSheet
    \/ SaveShownSheet
    \/ \E s \in AllSheets : ReindexSheet(s)
    \/ RereadDrawings
    \/ \E r \in panel.rows[panel.open].released : ViewRevision(r)
    \/ CloseView
    \/ \E c \in posted : ServerHandles(c)
    \/ \E c \in posted : LoseAnswer(c)
    \/ \E d \in PanelDrawings : OthersChange(d)
    \/ \E c \in posted : TakeMove(c)
    \/ \E c \in posted : TakeReasons(c)
    \/ \E c \in posted : TakeFailure(c)
    \/ \E c \in posted : TakeDrawings(c)
    \/ \E c \in posted : TakeWrite(c)
    \/ \E c \in posted : TakeSnapshot(c)

PanelSpec == PanelInit /\ [][PanelNext]_panelVars

-----------------------------------------------------------------------------
\* Once no call is under way and nobody else changed the open drawing, the page shows the drawing's
\* status, revisions and stale sheets as they are, so it offers what the server accepts; a reason
\* shown as out of date is, and no reason of the last refusal that still holds was dropped: a sheet
\* re-indexed with errors still blocks.  Reasons are of the open drawing's sheets unless an answer
\* came after another was opened, and the snapshot shown is the one asked for
\* (DraftingPage.tsx:368-400, 761-790).
PanelTellsStanding ==
    /\ ~mixed => \A r \in panel.reasons : r.sheet \in SheetsOf[panel.open]
    /\ posted = {} /\ panel.open \notin missed => panel.rows[panel.open] = RowOf(served, panel.open)
    /\ posted = {} /\ ~mixed /\ ~mended =>
          /\ refusal \subseteq panel.reasons
          /\ \A r \in panel.reasons : r.code = "index_stale" => r.sheet \in served.stale
    /\ panel.snapshot \in {NoView, panel.view}

\* The reasons of a refused release are forgotten when another drawing opens: those on show are
\* about the open drawing's sheets (DraftingPage.tsx:761-765).  It does not hold: a refusal that is
\* answered after the other drawing opened shows its reasons there (runWorkflow, 782).
ReasonsAreOfDrawing == \A r \in panel.reasons : r.sheet \in SheetsOf[panel.open]

=============================================================================
