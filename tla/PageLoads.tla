------------------------------ MODULE PageLoads ------------------------------
(***************************************************************************)
(* What the pages load for the picks they show, and what their buttons     *)
(* reload.  Each page is a set of panels; a panel belongs to a pick (the    *)
(* project, a drawing, ...), its effect asks for it when a dependency       *)
(* changes, and the answer lands under the panel's guard.  A button changes *)
(* the server and then reloads panels one after another.                    *)
(*                                                                         *)
(* Setting a pick and running the effects of the render are two steps.  The *)
(* data of a panel are a version and, for lists that lead a pick, the rows: *)
(* those of x are numbered from 10 x + 1.                                   *)
(***************************************************************************)
EXTENDS Integers, Sequences, FiniteSets, FiniteSetsExt

CONSTANTS
    Tops,                  \* projects, parts, revisions: what nothing leads
    FirstRows, FirstLeaves,  \* rows a list of a project begins with, snapshots of a drawing
    MaxPicks, MaxPresses   \* bounds: picks of the user on each page, buttons pressed

NoPick == 0
NoData == [of |-> NoPick, version |-> 0, ids |-> {}]

Above(id) == id \div 10
Child(of, k) == 10 * of + k

ASSUME PageLoadsAssumption ==
    /\ Tops \subseteq 1..9 /\ Tops # {}
    /\ FirstRows \in Nat /\ FirstLeaves \in Nat /\ MaxPresses \in Nat
    /\ FirstRows + MaxPresses <= 9 /\ FirstLeaves + MaxPresses <= 9

-----------------------------------------------------------------------------
(* The panels.                                                             *)

\* pick and deps: what it belongs to, what its effect depends on;
\* cleared: the effect drops what was shown; guard: which answers of the effect land
\* ("cancel": none of an effect that ran again, "ref": those for the current pick,
\* "none": all); leads: the pick a list of rows is for; next: what is asked for then;
\* forgets: a failure drops what was shown.
Panel(name, pick, guard) ==
    [name |-> name, pick |-> pick, deps |-> {pick}, guard |-> guard, cleared |-> TRUE,
     asked |-> TRUE, leads |-> "none", next |-> "none", forgets |-> FALSE]

\* The workspace's load of the project's requirements, as its generation guards it.
Requirements == [Panel("requirements", "project", "cancel") EXCEPT !.cleared = FALSE, !.leads = "requirement"]

\* Fault: an answer lands whatever was picked since.
TraceLinksUnguarded == [Panel("traceLinks", "requirement", "none") EXCEPT !.forgets = TRUE]

TraceLinks == [Panel("traceLinks", "requirement", "cancel") EXCEPT !.forgets = TRUE]

\* The matrix, with the drawings and the tagged items to link to; they follow each list
\* of requirements.
Verification == [Panel("verification", "project", "cancel") EXCEPT
                    !.deps = {"project", "requirements"}, !.cleared = FALSE, !.forgets = TRUE]

BomDrawings == [Panel("bomDrawings", "project", "cancel") EXCEPT !.leads = "drawing"]
LegacyBoms == Panel("legacy", "project", "cancel")
Snapshots == [Panel("snapshots", "drawing", "ref") EXCEPT !.deps = {"drawing", "project"}, !.leads = "bom"]
BomReadiness == Panel("readiness", "bom", "cancel")
BomDiff == [Panel("diff", "bom", "ref") EXCEPT !.asked = FALSE]

PartUsage == [Panel("usage", "part", "cancel") EXCEPT !.forgets = TRUE]
PartDocuments == [Panel("documents", "part", "cancel") EXCEPT !.forgets = TRUE]

ProjectDrawings == [Panel("drawings", "project", "cancel") EXCEPT !.next = "drc"]
DrcSummary == [Panel("drc", "project", "cancel") EXCEPT !.asked = FALSE]
Matrix == Panel("matrix", "project", "cancel")

LineClasses == Panel("lineClasses", "project", "cancel")
TagScheme == [Panel("tagScheme", "project", "none") EXCEPT !.cleared = FALSE]
CatalogSettings == [Panel("catalogSettings", "page", "none") EXCEPT !.cleared = FALSE]
UserAccounts == [Panel("users", "page", "cancel") EXCEPT !.cleared = FALSE, !.forgets = TRUE]

ReleasedSnapshot == Panel("released", "revision", "cancel")

\* The lists drawer over the whole project.
ProjectList == [Panel("projectList", "project", "cancel") EXCEPT !.cleared = FALSE]

PanelOf ==
    [requirements |-> Requirements, traceLinks |-> TraceLinks, verification |-> Verification, bomDrawings |-> BomDrawings,
     legacy |-> LegacyBoms, snapshots |-> Snapshots, readiness |-> BomReadiness, diff |-> BomDiff, usage |-> PartUsage,
     documents |-> PartDocuments, drawings |-> ProjectDrawings, drc |-> DrcSummary, matrix |-> Matrix,
     lineClasses |-> LineClasses, tagScheme |-> TagScheme, catalogSettings |-> CatalogSettings, users |-> UserAccounts,
     released |-> ReleasedSnapshot, projectList |-> ProjectList]

PanelsOn ==
    [requirements |-> {Requirements, TraceLinks, Verification},
     bom |-> {BomDrawings, LegacyBoms, Snapshots, BomReadiness, BomDiff},
     parts |-> {PartUsage, PartDocuments},
     dashboard |-> {ProjectDrawings, DrcSummary, Matrix},
     settings |-> {LineClasses, TagScheme, CatalogSettings, UserAccounts},
     snapshot |-> {ReleasedSnapshot},
     lists |-> {ProjectList}]

PickNames == {"page", "project", "requirement", "drawing", "bom", "part", "revision"}

-----------------------------------------------------------------------------
(* The buttons.                                                            *)

\* pick: what the button is about; changes: the panels whose data the call changes;
\* reloads: what is read afterwards, in order; rows: "add", "remove" and "removeIt" (the
\* row picked) change the rows of the list reloaded first; "unlink" removes a trace link; "merge" puts the answer of the call into it, "answer" shows
\* that answer, instead of reading again; free: not off while another one runs.
Button(pick, changes, reloads) ==
    [pick |-> pick, changes |-> changes, reloads |-> reloads, rows |-> "keep",
     free |-> FALSE]

SubmitRequirement == [Button("project", {"requirements", "verification"}, <<"requirements">>)
                        EXCEPT !.rows = "add"]
UpdateRequirement == Button("requirement", {"requirements", "verification"}, <<"requirements">>)
DeleteRequirement == [Button("requirement", {"requirements", "verification"}, <<"requirements">>)
                        EXCEPT !.rows = "removeIt"]
\* The grid: cells, a field for all selected, deleting the selected.
CommitRequirements == [Button("project", {"requirements", "verification"}, <<"requirements">>)
                         EXCEPT !.free = TRUE]
BulkSetRequirements == Button("project", {"requirements", "verification"}, <<"requirements">>)
BulkDeleteRequirements == [Button("project", {"requirements", "verification"}, <<"requirements">>)
                             EXCEPT !.rows = "remove"]
\* Fault: the matrix is not read again.
LinkOnly == Button("requirement", {"traceLinks", "verification"}, <<"traceLinks">>)

LinkToItem == Button("requirement", {"traceLinks", "verification"}, <<"traceLinks", "verification">>)
LinkToDrawing == LinkToItem
RemoveTraceLink == [Button("requirement", {"traceLinks", "verification"}, <<"traceLinks">>)
                      EXCEPT !.rows = "unlink"]

GenerateBom == [Button("drawing", {"snapshots"}, <<"snapshots">>) EXCEPT !.rows = "add"]
ReleaseBom == [Button("bom", {"snapshots"}, <<"snapshots">>) EXCEPT !.rows = "merge", !.free = TRUE]
CompareBoms == Button("bom", {}, <<"diff">>)

UploadDocument == Button("part", {"documents"}, <<"documents">>)
DeleteDocument == Button("part", {"documents"}, <<"documents">>)

CommitLineClasses == [Button("project", {"lineClasses"}, <<"lineClasses">>)
                        EXCEPT !.rows = "merge", !.free = TRUE]
AddLineClass == Button("project", {"lineClasses"}, <<"lineClasses">>)
CreatePasted == Button("project", {"lineClasses"}, <<"lineClasses">>)
RemoveLineClasses == Button("project", {"lineClasses"}, <<"lineClasses">>)
ImportLineClassFile == Button("project", {"lineClasses"}, <<"lineClasses">>)
ImportLineClassText == Button("project", {"lineClasses"}, <<"lineClasses">>)
SaveTagScheme == [Button("project", {"tagScheme"}, <<"tagScheme">>) EXCEPT !.rows = "answer"]
SaveCatalogSettings == [Button("page", {"catalogSettings"}, <<"catalogSettings">>) EXCEPT !.rows = "answer"]
SubmitUser == Button("page", {"users"}, <<"users">>)
UpdateUser == Button("page", {"users"}, <<"users">>)

ButtonsOn ==
    [requirements |-> {SubmitRequirement, UpdateRequirement, DeleteRequirement, CommitRequirements, BulkSetRequirements,
                       BulkDeleteRequirements, LinkToItem, LinkToDrawing, RemoveTraceLink},
     bom |-> {GenerateBom, ReleaseBom, CompareBoms},
     parts |-> {UploadDocument, DeleteDocument},
     settings |-> {CommitLineClasses, AddLineClass, CreatePasted, RemoveLineClasses, ImportLineClassFile,
                   ImportLineClassText, SaveTagScheme, SaveCatalogSettings, SubmitUser, UpdateUser},
     dashboard |-> {}, snapshot |-> {}, lists |-> {}]

-----------------------------------------------------------------------------
VARIABLES
    mounted,     \* the page
    picked,      \* picked[pick]: as last set
    lastPicked,        \* the same as of the last effects
    touched,     \* picks and panels set since
    remembered,  \* remembered[project]: the drawing in the browser's storage
    facts,       \* facts[<<panel, id>>]: the server's [version, ids]
    shown,       \* shown[panel]: [of, version, ids], or NoData
    asks,        \* of the effects, under way: [name, of, n, answer]
    running,     \* buttons whose work is under way: [button, at, n, gone, step, answer]
    moves, presses,
    loadFailed,      \* not in the code: a call loadFailed whose answer was to be shown
    overtaken,   \* not in the code: an older reading replaced a newer one, or one of an earlier pick
    unlinked     \* not in the code: a trace link was removed

loadsVars == <<mounted, picked, lastPicked, touched, remembered, facts, shown, asks, running, moves, presses,
               loadFailed, overtaken, unlinked>>
flags == <<loadFailed, overtaken, unlinked>>

PagePanels == PanelsOn[mounted]
PageNames == DOMAIN PanelsOn

Rows(of) == {Child(of, k) : k \in 1..(IF of \in Tops THEN FirstRows ELSE FirstLeaves)}
Mids == {Child(of, k) : of \in Tops, k \in 1..(FirstRows + MaxPresses)}

\* The ids a pick may take.
PickableIds(pick) ==
    CASE pick = "page" -> {1}
      [] pick \in {"requirement", "drawing"} -> Mids
      [] pick = "bom" -> {Child(of, k) : of \in Mids, k \in 1..(FirstLeaves + MaxPresses)}
      [] OTHER -> Tops

LoadsInit ==
    /\ mounted \in PageNames
    /\ picked = [pick \in PickNames |-> IF pick = "page" THEN 1
                                       ELSE IF PickableIds(pick) = Tops THEN Min(Tops) ELSE NoPick]
    /\ lastPicked = picked
    /\ touched = PickNames
    /\ remembered = [p \in Tops |-> NoPick]
    /\ facts = [key \in UNION {{panel.name} \X PickableIds(panel.pick) : panel \in PagePanels} |->
                  [version |-> 0, ids |-> IF PanelOf[key[1]].leads = "none" THEN {} ELSE Rows(key[2])]]
    /\ shown = [panel \in {panel.name : panel \in PagePanels} |-> NoData]
    /\ asks = {}
    /\ running = {}
    /\ moves = 0 /\ presses = 0
    /\ loadFailed = FALSE /\ overtaken = FALSE /\ unlinked = FALSE

-----------------------------------------------------------------------------
(* Effects and their answers.                                              *)

NoAnswer == [version |-> -1, ids |-> {}]

\* Asks of one panel are told apart.
Later == 1 + Max({0} \cup {ask.n : ask \in asks})

\* What no button changes reads the same whenever the server reads it.
Changing == UNION {button.changes : button \in UNION {ButtonsOn[page] : page \in PageNames}}

AskFor(name, of, n) ==
    [name |-> name, of |-> of, n |-> n, answer |-> IF name \in Changing THEN NoAnswer ELSE facts[<<name, of>>]]

Due == {panel \in PagePanels : panel.deps \cap touched # {}}

\* The effects that are due drop the answers of their last run, clear and ask anew; a
\* list that is cleared takes its pick along, which the next effects see.
Effects ==
    /\ touched # {}
    /\ \E due \in {Due} :
          LET cancelled == {panel.name : panel \in {p \in due : p.guard = "cancel"}}
              led == {panel.leads : panel \in {p \in due : p.cleared /\ p.leads # "none"}}
              emptied == {panel.name : panel \in {p \in due : p.cleared \/ picked[p.pick] = NoPick}}
          IN  /\ lastPicked' = picked
              /\ asks' = {ask \in asks : ask.name \notin cancelled
                                           /\ (\A panel \in due : panel.next = ask.name => panel.guard # "cancel")}
                          \cup {AskFor(panel.name, picked[panel.pick], Later) : panel \in {p \in due : p.asked /\ picked[p.pick] # NoPick}}
              /\ shown' = [name \in DOMAIN shown |-> IF name \in emptied THEN NoData ELSE shown[name]]
              /\ picked' = [pick \in PickNames |-> IF pick \in led THEN NoPick ELSE picked[pick]]
              /\ touched' = {pick \in led : picked[pick] # NoPick}
              /\ remembered' = IF Snapshots \in due /\ picked["drawing"] # NoPick
                               THEN [remembered EXCEPT ![picked["project"]] = picked["drawing"]] ELSE remembered
    /\ UNCHANGED <<mounted, facts, running, moves, presses, flags>>

ServeAsk(ask) ==
    /\ ask.answer = NoAnswer
    /\ asks' = (asks \ {ask}) \cup {[ask EXCEPT !.answer = facts[<<ask.name, ask.of>>]]}
    /\ UNCHANGED <<mounted, picked, lastPicked, touched, remembered, facts, shown, running, moves, presses, flags>>

Accepted(name, of) == PanelOf[name].guard = "none" \/ of = lastPicked[PanelOf[name].pick]

First(ids) == IF ids = {} THEN NoPick ELSE Min(ids)

\* What a list selects: what it was told to, what is selected, what was remembered, the first.
PickAfter(name, ids, told) ==
    LET current == picked[PanelOf[name].leads]
        last == IF name = "bomDrawings" THEN remembered[picked["project"]] ELSE current
    IN  IF told # NoPick THEN told ELSE IF last \in ids THEN last ELSE First(ids)

Pick(pick, id) ==
    /\ picked' = [picked EXCEPT ![pick] = id]
    /\ touched' = IF picked[pick] = id THEN touched ELSE touched \cup {pick}

Show(name, of, answer) ==
    /\ shown' = [shown EXCEPT ![name] = [of |-> of, version |-> answer.version, ids |-> answer.ids]]
    /\ overtaken' = \/ overtaken
                    \/ shown[name].of = of /\ shown[name].version > answer.version
                    \/ PanelOf[name].guard = "none" /\ of # picked[PanelOf[name].pick]

\* Only what an effect depends on makes it run again.
Watched == UNION {panel.deps : panel \in PagePanels}
AndTouch(name) == picked' = picked /\ touched' = touched \cup ({name} \cap Watched)

AskLands(ask) ==
    /\ ask.answer # NoAnswer
    /\ LET panel == PanelOf[ask.name]
           taken == panel.guard = "cancel" \/ Accepted(ask.name, ask.of)
       IN  /\ asks' = (asks \ {ask}) \cup
                         (IF panel.next = "none" THEN {}
                          ELSE {AskFor(panel.next, ask.of, ask.n)})
           /\ IF ~taken THEN UNCHANGED <<shown, overtaken, picked, touched>>
              ELSE /\ Show(ask.name, ask.of, ask.answer)
                   /\ IF panel.leads = "none" THEN AndTouch(ask.name)
                      ELSE LET id == PickAfter(ask.name, ask.answer.ids, NoPick)
                           IN  /\ picked' = [picked EXCEPT ![panel.leads] = id]
                               /\ touched' = touched \cup ({ask.name} \cap Watched)
                                               \cup (IF picked[panel.leads] = id THEN {} ELSE {panel.leads})
    /\ UNCHANGED <<mounted, lastPicked, remembered, facts, running, moves, presses, loadFailed, unlinked>>

\* The server or the connection fails; once is enough.
AskFails(ask) ==
    /\ ~loadFailed
    /\ asks' = asks \ {ask}
    /\ loadFailed' = TRUE
    /\ IF PanelOf[ask.name].forgets
       THEN shown' = [shown EXCEPT ![ask.name] = NoData] /\ AndTouch(ask.name)
       ELSE UNCHANGED <<shown, picked, touched>>
    /\ UNCHANGED <<mounted, lastPicked, remembered, facts, running, moves, presses, overtaken, unlinked>>

-----------------------------------------------------------------------------
(* Picks.                                                                  *)

\* Gestures find the effects of the last render done.
Rendered == touched = {}

PickTop(pick, id) ==
    /\ Rendered /\ moves < MaxPicks[mounted]
    /\ pick \in UNION {panel.deps : panel \in PagePanels}
    /\ id # picked[pick]
    /\ Pick(pick, id)
    /\ moves' = moves + 1
    /\ UNCHANGED <<mounted, lastPicked, remembered, facts, shown, asks, running, presses, flags>>

PickRow(panel, id) ==
    /\ Rendered /\ moves < MaxPicks[mounted]
    /\ panel.leads # "none"
    /\ id \in shown[panel.name].ids /\ id # picked[panel.leads]
    /\ Pick(panel.leads, id)
    /\ moves' = moves + 1
    /\ UNCHANGED <<mounted, lastPicked, remembered, facts, shown, asks, running, presses, flags>>

-----------------------------------------------------------------------------
(* Buttons.                                                                *)

\* The pick of a button is one of the rows shown.
Selected(pick) ==
    /\ picked[pick] # NoPick
    /\ \A panel \in PagePanels : panel.leads = pick => picked[pick] \in shown[panel.name].ids

\* Buttons are off while one of them, or the load of the project's details, runs.
Idle == /\ \A work \in running : work.button.free
        /\ \A ask \in asks : ask.name # "requirements"

\* The rows a deletion is about: the one picked, or those checked.
Deleting(button) ==
    IF button.rows = "removeIt" THEN {{picked[button.pick]}}
    ELSE IF button.rows = "remove" THEN SUBSET shown[button.reloads[1]].ids \ {{}}
    ELSE {{}}

Press(button, gone) ==
    /\ Rendered /\ presses < MaxPresses
    /\ button.free \/ Idle
    /\ Selected(button.pick)
    /\ button.rows = "merge" => shown[button.reloads[1]] # NoData
    /\ running' = running \cup {[button |-> button, at |-> picked[button.pick], n |-> presses, gone |-> gone,
                                 new |-> NoPick, step |-> 0, answer |-> NoAnswer]}
    /\ presses' = presses + 1
    /\ UNCHANGED <<mounted, picked, lastPicked, touched, remembered, facts, shown, asks, moves, flags>>

\* What a panel's data belong to, for a button about something of its own or below it.
OwnerFor(work, name) == IF PanelOf[name].pick = work.button.pick THEN work.at ELSE Above(work.at)

\* A row that is added gets an id above those of the list.
NewRows(work) ==
    LET list == work.button.reloads[1]
        of == OwnerFor(work, list)
    IN  IF work.button.rows # "add" THEN {NoPick}
        ELSE {row \in PickableIds(PanelOf[list].leads) : Above(row) = of /\ \A id \in facts[<<list, of>>].ids : id < row}

\* What the server holds after the call of a button.
AfterChange(work, new) ==
    LET list == work.button.reloads[1]
        of == OwnerFor(work, list)
        changed == {<<name, OwnerFor(work, name)>> : name \in work.button.changes}
    IN  [key \in DOMAIN facts |->
           IF key \notin changed THEN facts[key]
           ELSE [version |-> facts[key].version + 1,
                 ids |-> IF key # <<list, of>> THEN facts[key].ids
                         ELSE (facts[key].ids \ work.gone) \cup ({new} \ {NoPick})]]

\* What the call itself answers is used by those that do not read again.
ServeChange(work) ==
    /\ work.step = 0
    /\ \E new \in NewRows(work) :
          LET list == work.button.reloads[1]
              answer == IF work.button.rows \in {"merge", "answer"}
                        THEN AfterChange(work, new)[<<list, OwnerFor(work, list)>>] ELSE NoAnswer
          IN  /\ facts' = AfterChange(work, new)
              /\ running' = (running \ {work}) \cup {[work EXCEPT !.step = 1, !.new = new, !.answer = answer]}
    /\ unlinked' = (unlinked \/ work.button.rows = "unlink")
    /\ UNCHANGED <<mounted, picked, lastPicked, touched, remembered, shown, asks, moves, presses, loadFailed, overtaken>>

Reloading(work) == work.button.reloads[work.step]

ServeReload(work) ==
    /\ work.step > 0 /\ work.answer = NoAnswer
    /\ running' = (running \ {work}) \cup
         {[work EXCEPT !.answer = facts[<<Reloading(work), OwnerFor(work, Reloading(work))>>]]}
    /\ UNCHANGED <<mounted, picked, lastPicked, touched, remembered, facts, shown, asks, moves, presses, flags>>

\* A reading from before the change is still to land.
OlderUnderWay(name, of, version) ==
    \/ \E ask \in asks : ask.name = name /\ ask.of = of /\ ask.answer # NoAnswer /\ ask.answer.version < version
    \/ \E work \in running : /\ work.step > 0 /\ Reloading(work) = name /\ OwnerFor(work, name) = of
                             /\ work.answer # NoAnswer /\ work.answer.version < version

\* The answer of the call put into the rows shown, if they are of the same pick: rows
\* that are older or newer than it stay so but for what it brings.
Merge(name, of, answer) ==
    LET found == shown[name]
        fits == found # NoData /\ found.of = of /\ found.version = answer.version - 1
    IN  /\ shown' = [shown EXCEPT ![name] = IF fits THEN [found EXCEPT !.version = answer.version] ELSE found]
        /\ overtaken' = \/ overtaken
                        \/ found.of = of /\ ~fits
                        \/ OlderUnderWay(name, of, answer.version)

\* What is selected once the list was read again: a new row; after deleting, the first one.
SelectedThen(work, name) ==
    LET leads == PanelOf[name].leads
        kept == picked[leads] \in work.answer.ids
    IN  IF name = "snapshots" THEN PickAfter(name, work.answer.ids, work.new)
        ELSE IF work.new # NoPick THEN work.new
        ELSE IF work.button.rows = "removeIt" \/ (work.gone # {} /\ ~kept) THEN First(work.answer.ids)
        ELSE picked[leads]

WorkLands(work) ==
    /\ work.answer # NoAnswer
    /\ LET name == Reloading(work)
           of == OwnerFor(work, name)
       IN  /\ IF work.button.rows = "merge" THEN Merge(name, of, work.answer) /\ AndTouch(name)
              ELSE IF work.button.rows = "answer" \/ Accepted(name, of)
              THEN /\ Show(name, of, work.answer)
                   /\ IF PanelOf[name].leads = "none" THEN AndTouch(name)
                      ELSE LET id == SelectedThen(work, name)
                           IN  /\ picked' = [picked EXCEPT ![PanelOf[name].leads] = id]
                               /\ touched' = touched \cup ({name} \cap Watched)
                                   \cup (IF picked[PanelOf[name].leads] = id THEN {} ELSE {PanelOf[name].leads})
              ELSE UNCHANGED <<shown, overtaken, picked, touched>>
           /\ running' = (running \ {work}) \cup
                (IF work.step = Len(work.button.reloads) THEN {}
                 ELSE {[work EXCEPT !.step = @ + 1, !.answer = NoAnswer]})
    /\ UNCHANGED <<mounted, lastPicked, remembered, facts, asks, moves, presses, loadFailed, unlinked>>

\* The call is refused, or a reading after it fails: the work ends there.
ButtonFails(work) ==
    /\ ~loadFailed
    /\ running' = running \ {work}
    /\ loadFailed' = (loadFailed \/ work.step > 0)
    /\ UNCHANGED <<mounted, picked, lastPicked, touched, remembered, facts, shown, asks, moves, presses, overtaken,
                   unlinked>>

LoadsNext ==
    \/ Effects
    \/ \E ask \in asks : ServeAsk(ask) \/ AskLands(ask) \/ AskFails(ask)
    \/ \E pick \in {"project", "part", "revision"}, id \in Tops : PickTop(pick, id)
    \/ \E panel \in PagePanels : \E id \in shown[panel.name].ids : PickRow(panel, id)
    \/ \E button \in ButtonsOn[mounted] : \E gone \in Deleting(button) : Press(button, gone)
    \/ \E work \in running : ServeChange(work) \/ ServeReload(work) \/ WorkLands(work) \/ ButtonFails(work)

LoadsSpec == LoadsInit /\ [][LoadsNext]_loadsVars

-----------------------------------------------------------------------------
(* Properties.                                                             *)

\* Between renders no panel shows the data of something that is not picked any more,
\* however answers of earlier picks, of reloads and of buttons come in; a panel that does
\* not clear keeps the old data until its load is answered.  The tag scheme is guarded
\* by nothing.
PanelsShowTheirPick ==
    Rendered =>
        \A panel \in PagePanels :
            \/ shown[panel.name] = NoData \/ shown[panel.name].of = picked[panel.pick]
            \/ ~panel.cleared /\ (loadFailed \/ \E ask \in asks : ask.name = panel.name)
            \/ panel = TagScheme

\* When everything has been answered, what is shown is what the server holds after all
\* that the page changed: each button reads again, or lets an effect read, what its call
\* changed.  Left out: failures, an older reading that came in after a newer one, and
\* the matrix once a trace link was removed, which no one reads again.
QuietPagesAreCurrent ==
    Rendered /\ asks = {} /\ running = {} /\ ~loadFailed /\ ~overtaken =>
        \A panel \in PagePanels :
            /\ panel.asked /\ picked[panel.pick] # NoPick => shown[panel.name] # NoData
            /\ shown[panel.name] # NoData /\ shown[panel.name].of = picked[panel.pick]
                 => \/ shown[panel.name].version = facts[<<panel.name, picked[panel.pick]>>].version
                    \/ panel = Verification /\ unlinked

=============================================================================
