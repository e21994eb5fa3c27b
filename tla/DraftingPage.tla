---------------------------- MODULE DraftingPage ----------------------------
(***************************************************************************)
(* The drafting page of the browser client: the sheet it shows and the     *)
(* editor session behind it, its saves, list edits and workflow calls, and *)
(* the background re-index of the sheets the server lists as stale         *)
(* (DraftingPage.tsx, useStaleReindex.ts, sheetEdits.ts).                  *)
(*                                                                         *)
(* A call to the server is a job.  The page adds it in step "sent" (or     *)
(* "reading"), the server handles it whenever it gets there, and the page  *)
(* takes the answer later still: calls under way overtake one another.     *)
(* Between two events of the page nothing else of it runs, so a handler up *)
(* to its next await, with the effects React runs after it, is one action. *)
(*                                                                         *)
(* A document is the set of the user's edits in it; undo is left out (see  *)
(* DocumentStore), so a document only grows and a session is dirty while   *)
(* its document is not the saved one.  Of the server (DrawingRelease) only *)
(* what the page reads and writes is kept.                                 *)
(***************************************************************************)
EXTENDS Integers, FiniteSets

CONSTANTS
    Drawings,
    Sheets,         \* sheet ids, in the order the server lists them
    DrawingOf,      \* the drawing of each sheet
    Existing,       \* the sheets that exist at first; the others may be added
    Edits,          \* identities of the edits the user makes
    NoSession,      \* no editor session is open
    NoLoad,         \* no sheet is being loaded
    NoRun,          \* no re-index run is on
    NoView,         \* the answer of a call that carries no drawing list
    MaxJobs,        \* bound: calls of the page under way at once
    MaxEvents       \* bound: how often in all the user switches, adds a sheet, edits a list, asks for a
                    \* re-index or for the workflow, a part is changed, and a call fails

NoSheet == 0

ASSUME ConstantsAssumption ==
    /\ Sheets \subseteq Nat \ {NoSheet}
    /\ IsFiniteSet(Sheets)
    /\ DrawingOf \in [Sheets -> Drawings]
    /\ Existing \subseteq Sheets
    /\ \A d \in Drawings : \E s \in Existing : DrawingOf[s] = d
    /\ {MaxJobs, MaxEvents} \subseteq Nat

VARIABLES
    rows,       \* the server's sheets
    released,   \* the drawings the server holds released
    catalog,    \* how often the parts have changed
    page,       \* what the page shows and knows
    run,        \* the re-index run of useStaleReindex
    jobs,       \* calls under way
    home,       \* history: the sheet each edit was made on, NoSheet before that
    dropped,    \* history: edits the user agreed to discard
    acked,      \* history: edits the page has reported saved
    stored,     \* history: edits some document the server stored has held
    events      \* how many of the events MaxEvents bounds there were

vars == <<rows, released, catalog, page, run, jobs, home, dropped, acked, stored, events>>

-----------------------------------------------------------------------------
(* State.                                                                  *)

Docs == SUBSET Edits

\* parts: the catalog the stored index and DRC were derived with.
Row == [exists : BOOLEAN, doc : Docs, stale : BOOLEAN, parts : 0..MaxEvents]

\* What a drawing list tells: the sheets there are, which are stale, and the released drawings.
View == [sheets : SUBSET Sheets, stale : SUBSET Sheets, locked : SUBSET Drawings]

\* The editor keeps the document it was opened with and what it last saved.
Session == [sheet : Sheets, doc : Docs, saved : Docs]

\* A sheet on its way into a session; found is its document once the server has read it.
Load == [sheet : Sheets, read : BOOLEAN, found : Docs]

Page == [drawing : Drawings, sheet : Sheets \cup {NoSheet}, session : {NoSession} \cup Session,
         load : {NoLoad} \cup Load, view : View, ready : BOOLEAN]

\* pump is "turn" when the loop is to pick a sheet, "await" while a re-index runs.
Run == [drawing : Drawings, attempted : SUBSET Sheets, failed : SUBSET Sheets,
        forced : SUBSET Sheets, pump : {"idle", "turn", "await"}]

ASSUME NoRunAssumption == NoRun \notin Run

\* live: the page still waits for this call - the session that saved is the one it
\* holds, the run that re-indexes is not cancelled.  touched: the sheet's touch count
\* moved since the re-index began.  late (history): a save was stored after the
\* re-index had read, with an edit it had not read and no answer has reported saved.  release: the save is the one a release waits for.
Job == [kind : {"save", "reindex", "open", "list", "add", "workflow", "refresh"}, sheet : Sheets,
        step : {"queued", "reading", "read", "sent", "stored", "refused"}, doc : Docs, parts : 0..MaxEvents,
        view : {NoView} \cup View, live : BOOLEAN, touched : BOOLEAN, late : BOOLEAN,
        release : BOOLEAN]

\* Types; a load is of the sheet shown, a run of the drawing shown, and the run waits
\* exactly while a re-index of its own is under way.
TypeOK ==
    /\ rows \in [Sheets -> Row]
    /\ released \in SUBSET Drawings
    /\ catalog \in 0..MaxEvents
    /\ page \in Page
    /\ run \in {NoRun} \cup Run
    /\ jobs \in SUBSET Job
    /\ home \in [Edits -> Sheets \cup {NoSheet}]
    /\ dropped \in Docs /\ acked \in Docs /\ stored \in Docs
    /\ events \in 0..MaxEvents
    /\ page.load # NoLoad => page.load.sheet = page.sheet
    /\ run # NoRun =>
          /\ run.drawing = page.drawing
          /\ run.pump = "await" <=> \E j \in jobs : j.kind = "reindex" /\ j.live

NewJob(kind, s, step, doc) ==
    [kind |-> kind, sheet |-> s, step |-> step, doc |-> doc, parts |-> 0, view |-> NoView,
     live |-> TRUE, touched |-> FALSE, late |-> FALSE, release |-> FALSE]

Smallest(S) == CHOOSE s \in S : \A r \in S : s <= r

ServerView == [sheets |-> {s \in Sheets : rows[s].exists},
               stale  |-> {s \in Sheets : rows[s].exists /\ rows[s].stale},
               locked |-> released]

\* The sheets of drawing d, and of them the stale ones, as view v lists them.
SheetsIn(v, d) == {s \in v.sheets : DrawingOf[s] = d}
StaleIn(v, d) == {s \in v.stale : DrawingOf[s] = d}

Dirty(ss) == ss # NoSession /\ ss.doc # ss.saved

\* Fault: the session counts as the editor whatever sheet it was loaded from.
HasSession == page.session # NoSession

\* The editor the page works with: the session, if it holds the sheet shown.
HasEditor == page.session # NoSession /\ page.session.sheet = page.sheet

CanEdit == page.drawing \notin page.view.locked

Enabled(p) == p.ready /\ p.drawing \notin p.view.locked

-----------------------------------------------------------------------------
(* Effects: what follows a change of the page before its next event.       *)

\* setSheetId: the sheet is loaded (a load under way is forgotten); the session stays
\* until the new one is there, unless no sheet is left to show.
WithSheet(p, s) ==
    IF s = p.sheet THEN p
    ELSE [p EXCEPT !.sheet = s,
                   !.load = IF s = NoSheet THEN NoLoad
                            ELSE [sheet |-> s, read |-> FALSE, found |-> {}],
                   !.session = IF s = NoSheet THEN NoSession ELSE @]

\* The first sheet of the drawing is shown when the one shown is not in it.
WithFirstSheet(p) ==
    LET own == SheetsIn(p.view, p.drawing)
    IN  IF p.sheet \in own THEN p ELSE WithSheet(p, IF own = {} THEN NoSheet ELSE Smallest(own))

WithDrawing(p, d) == WithFirstSheet([p EXCEPT !.drawing = d])

\* A new list shows another first sheet only when the drawing has more or fewer of them.
WithView(p, v) ==
    LET q == [p EXCEPT !.view = v]
    IN  IF Cardinality(SheetsIn(v, p.drawing)) = Cardinality(SheetsIn(p.view, p.drawing))
        THEN q ELSE WithFirstSheet(q)

NewRun(d) == [drawing |-> d, attempted |-> {}, failed |-> {}, forced |-> {}, pump |-> "turn"]

Woken(r) == IF r.pump = "idle" THEN [r EXCEPT !.pump = "turn"] ELSE r

\* Fault: a run that exists is not told of newly stale sheets.
RunAfterAsleep(q, r) ==
    IF ~Enabled(q) THEN NoRun
    ELSE IF r = NoRun THEN NewRun(q.drawing)
    ELSE IF r.drawing # q.drawing THEN NewRun(q.drawing)
    ELSE r

\* The effect on [drawingId, enabled, staleKey]: the run ends, is replaced, or is woken.
RunAfter(q, r) ==
    IF ~Enabled(q) THEN NoRun
    ELSE IF r = NoRun THEN NewRun(q.drawing)
    ELSE IF r.drawing # q.drawing THEN NewRun(q.drawing)
    ELSE IF StaleIn(q.view, q.drawing) # StaleIn(page.view, page.drawing) THEN Woken(r)
    ELSE r

SameRun(r) == run # NoRun /\ r # NoRun /\ r.drawing = run.drawing

\* The page becomes q with the run now and the calls js: the re-index of a run that is over is cancelled,
\* the answer to a save no longer finds the session it came from.
Become(q, now, js) ==
    LET r    == RunAfter(q, now)
        kept(j) == \/ j.kind = "reindex" /\ SameRun(r)
                   \/ j.kind \in {"save", "open"} /\ q.session # NoSession
                   \/ j.kind \notin {"reindex", "save", "open"}
    IN  /\ page' = q
        /\ run' = r
        /\ jobs' = {[j EXCEPT !.live = @ /\ kept(j)] : j \in js}

\* touchSheet: a re-index of the sheet that has begun and not yet sent stands down.
Touched(js, s) ==
    {[j EXCEPT !.touched = @ \/ (j.kind = "reindex" /\ j.sheet = s)] : j \in js}

Count == events < MaxEvents /\ events' = events + 1

Room == Cardinality(jobs) < MaxJobs

Init ==
    /\ \E unindexed \in SUBSET Existing :
         rows = [s \in Sheets |-> [exists |-> s \in Existing, doc |-> {},
                                   stale |-> s \in unindexed, parts |-> 0]]
    /\ released = {}
    /\ catalog = 0
    /\ \E d \in Drawings :
         page = WithFirstSheet([drawing |-> d, sheet |-> NoSheet, session |-> NoSession, load |-> NoLoad,
                                view |-> ServerView, ready |-> FALSE])
    /\ run = NoRun
    /\ jobs = {}
    /\ home = [e \in Edits |-> NoSheet]
    /\ dropped = {} /\ acked = {} /\ stored = {}
    /\ events = 0

-----------------------------------------------------------------------------
(* The user at the page.                                                   *)

\* No action of the page writes these.
Unused == UNCHANGED <<rows, released, catalog, stored>>

\* confirmDiscard: only what the editor holds unsaved is asked about.
AskedAbout == IF HasEditor THEN page.session.doc \ page.session.saved ELSE {}

Discard == dropped' = dropped \cup AskedAbout

\* Choosing another sheet, by its tab, a blocker or an item of a list.
SwitchSheet(s) ==
    /\ s \in SheetsIn(page.view, page.drawing)
    /\ s # page.sheet
    /\ Count
    /\ Discard
    /\ Become(WithSheet(page, s), run, jobs)
    /\ Unused /\ UNCHANGED <<home, acked>>

SwitchDrawing(d) ==
    /\ d # page.drawing
    /\ Count
    /\ Discard
    /\ Become(WithDrawing(page, d), run, jobs)
    /\ Unused /\ UNCHANGED <<home, acked>>

\* An edit gets the next identity.
Fresh(e) == home[e] = NoSheet /\ \A f \in Edits : f < e => home[f] # NoSheet

Edit(e) ==
    /\ HasEditor /\ CanEdit /\ Fresh(e)
    /\ home' = [home EXCEPT ![e] = page.sheet]
    /\ Become([page EXCEPT !.session.doc = @ \cup {e}], run, jobs)
    /\ Unused /\ UNCHANGED <<dropped, acked, events>>

\* The save goes out with the sheet shown and the document of the editor.
SaveJob == NewJob("save", page.sheet, "sent", page.session.doc)

\* Save, Ctrl+S, and the saves exports and the BoM wait for.
Save ==
    /\ HasEditor /\ Dirty(page.session) /\ CanEdit /\ Room
    /\ Become(page, run, Touched(jobs, page.sheet) \cup {SaveJob})
    /\ Unused /\ UNCHANGED <<home, dropped, acked, events>>

\* Release (after a save of what is unsaved) or, of a released drawing, a new revision.
AskWorkflow ==
    /\ Room /\ page.sheet # NoSheet
    /\ LET ask == [NewJob("workflow", page.sheet, "sent", {}) EXCEPT !.release = CanEdit]
       IN  IF CanEdit /\ HasEditor /\ Dirty(page.session)
           THEN Become(page, run, Touched(jobs, page.sheet) \cup {[SaveJob EXCEPT !.release = TRUE]})
           ELSE Become(page, run, jobs \cup {ask})
    /\ Count
    /\ Unused /\ UNCHANGED <<home, dropped, acked>>

\* "Re-index now" for the sheets S: the open one is saved if it is dirty, the others are
\* tried again.
PressReindex(S) ==
    LET saved == IF HasEditor /\ Dirty(page.session) THEN S \cap {page.sheet} ELSE {}
        asked == S \ saved
        again == IF run = NoRun THEN NoRun
                 ELSE Woken([run EXCEPT !.attempted = @ \ asked, !.failed = @ \ asked,
                                        !.forced = @ \cup asked])
    IN  /\ Room
        /\ Become(page, again, IF saved # {} /\ CanEdit
                               THEN Touched(jobs, page.sheet) \cup {SaveJob} ELSE jobs)
        /\ Count
        /\ Unused /\ UNCHANGED <<home, dropped, acked>>

\* The new sheet s opens in place of this one, once it is created and listed.
AddSheet(s) ==
    /\ ~rows[s].exists /\ \A j \in jobs : j.sheet # s
    /\ DrawingOf[s] = page.drawing
    /\ CanEdit /\ Room /\ Count
    /\ Discard
    /\ Become(page, run, jobs \cup {NewJob("add", s, "sent", {})})
    /\ Unused /\ UNCHANGED <<home, acked>>

\* A cell edited in the lists drawer: of the open sheet it goes to the editor, of
\* another one to the sheet the server stores.  Commits wait for one another.
CommitListEdit(e, s) ==
    /\ s \in SheetsIn(page.view, page.drawing)
    /\ CanEdit /\ Fresh(e) /\ Room /\ Count
    /\ home' = [home EXCEPT ![e] = s]
    /\ Become(page, run, jobs \cup {NewJob(IF HasEditor /\ s = page.sheet THEN "open" ELSE "list",
                                           s, "queued", {e})})
    /\ Unused /\ UNCHANGED <<dropped, acked>>

User ==
    \/ \E s \in Sheets : SwitchSheet(s) \/ AddSheet(s)
    \/ \E d \in Drawings : SwitchDrawing(d)
    \/ \E e \in Edits : Edit(e) \/ \E s \in Sheets : CommitListEdit(e, s)
    \/ Save
    \/ AskWorkflow
    \/ \E S \in {StaleIn(page.view, page.drawing)} \cup {{s} : s \in SheetsIn(page.view, page.drawing)} :
          PressReindex(S)

-----------------------------------------------------------------------------
(* The background re-index.                                                *)

\* The open session has edits no save of it has brought to the server.
OpenWithEdits(s) == page.session # NoSession /\ page.session.sheet = s /\ Dirty(page.session)

\* Fault: unsaved edits are not asked about before the sheet is read.
StartsDirty(s) == s \in page.view.sheets

Starts(s) == s \in SheetsIn(page.view, page.drawing) /\ ~OpenWithEdits(s)

Pending(r) ==
    LET listed == StaleIn(page.view, page.drawing) \ r.attempted
    IN  IF listed # {} THEN listed ELSE r.forced \ r.attempted

\* pump is at the head of its loop.
MayTurn == run # NoRun /\ run.pump = "turn"

\* One turn of the loop in pump, with reindexSheet up to its first await.
Pump ==
    /\ MayTurn
    /\ IF Pending(run) = {}
       THEN run' = [run EXCEPT !.pump = "idle"] /\ UNCHANGED jobs
       ELSE LET s == Smallest(Pending(run))
            IN  /\ run' = [run EXCEPT !.attempted = @ \cup {s}, !.forced = @ \ {s}, !.failed = @ \ {s},
                                      !.pump = IF Starts(s) THEN "await" ELSE "turn"]
                /\ jobs' = IF Starts(s) THEN jobs \cup {NewJob("reindex", s, "reading", {})} ELSE jobs
    /\ Unused /\ UNCHANGED <<page, home, dropped, acked, events>>

\* The run goes on once the re-index j it awaits is over.
Resumed(j, failed) ==
    IF j.live THEN [run EXCEPT !.pump = "turn", !.failed = IF failed THEN @ \cup {j.sheet} ELSE @]
    ELSE run

\* Fault: a save that went out since is not noticed.
StandsDownUntouched(j) == ~j.live \/ ~CanEdit \/ OpenWithEdits(j.sheet)

\* What reindexSheet asks between reading and writing.
StandsDown(j) == ~j.live \/ ~CanEdit \/ OpenWithEdits(j.sheet) \/ j.touched

\* The re-index has its documents: it stands down or sends what it derived.
CheckReindex(j) ==
    /\ j.kind = "reindex" /\ j.step = "read"
    /\ IF StandsDown(j) THEN Become(page, Resumed(j, FALSE), jobs \ {j})
       ELSE Become(page, run, (jobs \ {j}) \cup {[j EXCEPT !.step = "sent"]})
    /\ Unused /\ UNCHANGED <<home, dropped, acked, events>>

\* markSheetIndexed: the list no longer calls the sheet stale.
Indexed(p, s) == [p EXCEPT !.view.stale = @ \ {s}]

EndReindex(j) ==
    /\ j.kind = "reindex" /\ j.step \in {"stored", "refused"}
    /\ IF j.step = "stored" THEN Become(Indexed(page, j.sheet), Resumed(j, FALSE), jobs \ {j})
       ELSE Become(page, Resumed(j, TRUE), jobs \ {j})
    /\ Unused /\ UNCHANGED <<home, dropped, acked, events>>

-----------------------------------------------------------------------------
(* Answers the page takes.                                                 *)

\* Fault: whatever the session holds by now counts as saved.
MarkedSavedAll(p, j) == IF j.live THEN [p EXCEPT !.session.saved = p.session.doc] ELSE p

\* markSaved of the version the save captured.
MarkedSaved(p, j) == IF j.live THEN [p EXCEPT !.session.saved = j.doc] ELSE p

EndSave(j) ==
    /\ j.kind = "save" /\ j.step \in {"stored", "refused"}
    /\ IF j.step = "stored"
       THEN /\ acked' = acked \cup j.doc
            /\ Become(Indexed(MarkedSaved(page, j), j.sheet), run,
                      (jobs \ {j}) \cup (IF j.release
                         THEN {[NewJob("workflow", j.sheet, "sent", {}) EXCEPT !.release = TRUE]}
                         ELSE {}))
       ELSE Become(page, run, jobs \ {j}) /\ UNCHANGED acked
    /\ Unused /\ UNCHANGED <<home, dropped, events>>

\* View v with what w tells of drawing d.
Replaced(v, w, d) ==
    [sheets |-> (v.sheets \ SheetsIn(v, d)) \cup SheetsIn(w, d),
     stale  |-> (v.stale \ StaleIn(v, d)) \cup StaleIn(w, d),
     locked |-> (v.locked \ {d}) \cup (w.locked \cap {d})]

\* The drawing as the server left it; a refusal with reasons reloads the list instead.
EndWorkflow(j) ==
    /\ j.kind = "workflow" /\ j.step \in {"stored", "refused"}
    /\ IF j.step = "stored"
       THEN Become(WithView(page, Replaced(page.view, j.view, DrawingOf[j.sheet])), run, jobs \ {j})
       ELSE Become(page, run, (jobs \ {j}) \cup (IF j.view = NoView THEN {}
                                                 ELSE {NewJob("refresh", j.sheet, "reading", {})}))
    /\ Unused /\ UNCHANGED <<home, dropped, acked, events>>

EndRefresh(j) ==
    /\ j.kind = "refresh" /\ j.step \in {"read", "refused"}
    /\ Become(IF j.step = "read" THEN WithView(page, j.view) ELSE page, run, jobs \ {j})
    /\ Unused /\ UNCHANGED <<home, dropped, acked, events>>

\* addSheet goes on: the list is reloaded, then the new sheet is shown.
GoOnAdding(j) ==
    /\ j.kind = "add" /\ j.step \in {"stored", "refused", "read"}
    /\ CASE j.step = "stored"  -> Become(page, run, (jobs \ {j}) \cup {[j EXCEPT !.step = "reading"]})
         [] j.step = "refused" -> Become(page, run, jobs \ {j})
         [] j.step = "read"    -> Become(WithSheet([page EXCEPT !.view = j.view,
                                                               !.drawing = DrawingOf[j.sheet]],
                                                   j.sheet), run, jobs \ {j})
    /\ Unused /\ UNCHANGED <<home, dropped, acked, events>>

\* No commit of the lists drawer is being worked on.
QueueFree == \A j \in jobs : j.kind \in {"open", "list"} => j.step = "queued"

\* The turn of a commit: into the editor it was made with, or the stored sheet is loaded.
\* An editor disposed of meanwhile takes the edit all the same.
TurnOfCommit(j) ==
    /\ j.kind \in {"open", "list"} /\ j.step = "queued" /\ QueueFree
    /\ IF j.kind = "list"
       THEN Become(page, run, (jobs \ {j}) \cup {[j EXCEPT !.step = "reading"]})
       ELSE Become(IF j.live THEN [page EXCEPT !.session.doc = @ \cup j.doc] ELSE page, run, jobs \ {j})
    /\ Unused /\ UNCHANGED <<home, dropped, acked, events>>

\* The loaded sheet with the edit goes back; a refused one is reported as not edited.
GoOnListing(j) ==
    /\ j.kind = "list" /\ j.step \in {"read", "stored", "refused"}
    /\ CASE j.step = "read"    -> /\ Become(page, run, Touched(jobs \ {j}, j.sheet)
                                                        \cup {[j EXCEPT !.step = "sent"]})
                                  /\ UNCHANGED <<dropped, acked>>
         [] j.step = "stored"  -> /\ Become(Indexed(page, j.sheet), run, jobs \ {j})
                                  /\ acked' = acked \cup j.doc /\ UNCHANGED dropped
         [] j.step = "refused" -> /\ Become(page, run, jobs \ {j})
                                  /\ dropped' = dropped \cup (j.doc \ rows[j.sheet].doc)
                                  /\ UNCHANGED acked
    /\ Unused /\ UNCHANGED <<home, events>>

\* The sheet is open: a session of its own replaces the one there was.
OpenSession ==
    LET ss == [sheet |-> page.load.sheet, doc |-> page.load.found, saved |-> page.load.found]
        js == {[j EXCEPT !.live = @ /\ j.kind \notin {"save", "open"}] : j \in jobs}
    IN  /\ page.load # NoLoad /\ page.load.read
        /\ Become([page EXCEPT !.session = ss, !.load = NoLoad], run, js)
        /\ Unused /\ UNCHANGED <<home, dropped, acked, events>>

\* Background re-indexing waits for the project's tag scheme.
SchemeArrives ==
    /\ ~page.ready
    /\ Become([page EXCEPT !.ready = TRUE], run, jobs)
    /\ Unused /\ UNCHANGED <<home, dropped, acked, events>>

-----------------------------------------------------------------------------
(* The server, the network and the other users.                            *)

Open(s) == rows[s].exists /\ DrawingOf[s] \notin released

\* A read of the document of a sheet or of the drawing list.
Read(j) ==
    /\ j.step = "reading"
    /\ LET answer == CASE j.kind = "list"                -> [j EXCEPT !.doc = @ \cup rows[j.sheet].doc]
                       [] j.kind = "reindex"             -> [j EXCEPT !.doc = rows[j.sheet].doc]
                       [] j.kind \in {"add", "refresh"}  -> [j EXCEPT !.view = ServerView]
       IN  jobs' = (jobs \ {j}) \cup {[answer EXCEPT !.step = "read"]}
    /\ Unused /\ UNCHANGED <<page, run, home, dropped, acked, events>>

\* PUT /sheets/{id} with document, index and DRC.
Store(j) ==
    /\ j.kind \in {"save", "list", "reindex"} /\ j.step = "sent"
    /\ LET late == {[i EXCEPT !.late = @ \/ (/\ i.kind = "reindex" /\ i.step = "read"
                                             /\ i.sheet = j.sheet /\ ~(j.doc \subseteq i.doc \cup acked)
                                             /\ j.kind = "save" /\ j.live)] : i \in jobs \ {j}}
       IN  IF Open(j.sheet)
           THEN /\ rows' = [rows EXCEPT ![j.sheet].doc = j.doc, ![j.sheet].stale = FALSE,
                                        ![j.sheet].parts = j.parts]
                /\ stored' = stored \cup j.doc
                /\ jobs' = late \cup {[j EXCEPT !.step = "stored"]}
           ELSE /\ jobs' = (jobs \ {j}) \cup {[j EXCEPT !.step = "refused"]}
                /\ UNCHANGED <<rows, stored>>
    /\ UNCHANGED <<released, catalog, page, run, home, dropped, acked, events>>

\* A new sheet has an empty document, which needs no index.
Create(j) ==
    /\ j.kind = "add" /\ j.step = "sent"
    /\ IF DrawingOf[j.sheet] \notin released
       THEN /\ rows' = [rows EXCEPT ![j.sheet].exists = TRUE, ![j.sheet].parts = catalog]
            /\ jobs' = (jobs \ {j}) \cup {[j EXCEPT !.step = "stored"]}
       ELSE /\ jobs' = (jobs \ {j}) \cup {[j EXCEPT !.step = "refused"]}
            /\ UNCHANGED rows
    /\ UNCHANGED <<released, catalog, stored, page, run, home, dropped, acked, events>>

Done(j, view) == jobs' = (jobs \ {j}) \cup {[j EXCEPT !.step = "stored", !.view = view]}

Refuse(j, view) == jobs' = (jobs \ {j}) \cup {[j EXCEPT !.step = "refused", !.view = view]}

\* POST release (refused with reasons while a sheet is stale) and revise.
Workflow(j) ==
    LET d == DrawingOf[j.sheet]
    IN  /\ j.kind = "workflow" /\ j.step = "sent"
        /\ \/ /\ j.release /\ d \notin released /\ StaleIn(ServerView, d) = {}
              /\ released' = released \cup {d}
              /\ Done(j, [ServerView EXCEPT !.locked = @ \cup {d}])
              /\ UNCHANGED rows
           \/ /\ j.release /\ d \notin released /\ StaleIn(ServerView, d) # {}
              /\ Refuse(j, ServerView)
              /\ UNCHANGED <<rows, released>>
           \/ /\ ~j.release /\ d \in released
              /\ released' = released \ {d}
              /\ rows' = [s \in Sheets |-> IF DrawingOf[s] = d /\ rows[s].exists
                                           THEN [rows[s] EXCEPT !.stale = TRUE] ELSE rows[s]]
              /\ Done(j, [ServerView EXCEPT !.locked = @ \ {d}, !.stale = @ \cup SheetsIn(ServerView, d)])
           \/ /\ j.release = (d \in released)
              /\ Refuse(j, NoView)
              /\ UNCHANGED <<rows, released>>
        /\ UNCHANGED <<catalog, stored, page, run, home, dropped, acked, events>>

ReadSheet ==
    /\ page.load # NoLoad /\ ~page.load.read
    /\ page' = [page EXCEPT !.load.read = TRUE, !.load.found = rows[page.load.sheet].doc]
    /\ Unused /\ UNCHANGED <<run, jobs, home, dropped, acked, events>>

\* A call fails, before the server handles it or with its answer.
Fail(j) ==
    /\ j.step \in {"reading", "sent", "stored"}
    /\ jobs' = (jobs \ {j}) \cup {[j EXCEPT !.step = "refused", !.view = NoView]}
    /\ Count
    /\ Unused /\ UNCHANGED <<page, run, home, dropped, acked>>

\* Another user changes a part every sheet assigns.
ChangePart ==
    /\ Count
    /\ catalog' = catalog + 1
    /\ rows' = [s \in Sheets |-> IF Open(s) THEN [rows[s] EXCEPT !.stale = TRUE] ELSE rows[s]]
    /\ UNCHANGED <<released, stored, page, run, jobs, home, dropped, acked>>

-----------------------------------------------------------------------------

Serve(j) == Read(j) \/ Store(j) \/ Create(j) \/ Workflow(j)

Answer(j) ==
    \/ CheckReindex(j) \/ EndReindex(j)
    \/ EndSave(j)
    \/ EndWorkflow(j) \/ EndRefresh(j) \/ GoOnAdding(j)
    \/ TurnOfCommit(j) \/ GoOnListing(j)

\* The loop of a run takes its turn before anything else happens at the page.
Next ==
    \/ Pump
    \/ /\ ~MayTurn
       /\ \/ User
          \/ SchemeArrives
          \/ ReadSheet \/ OpenSession
          \/ \E j \in jobs : Serve(j) \/ Answer(j) \/ Fail(j)
          \/ ChangePart

Spec == Init /\ [][Next]_vars

\* Calls of the run that is on are handled and answered, and its loop takes its turns:
\* nothing is asked of the user, of other users, or of any other call.
AwaitedReindex == ~MayTurn /\ \E j \in jobs : /\ j.kind = "reindex" /\ j.live
                                              /\ Read(j) \/ Store(j) \/ CheckReindex(j) \/ EndReindex(j)

FairSpec == Spec /\ WF_vars(Pump) /\ WF_vars(AwaitedReindex)

-----------------------------------------------------------------------------
(* Properties.                                                             *)

\* An edit is stored on no other sheet than the one it was made on: the session of the
\* sheet left is never saved under the id of the sheet being opened (session, save).
EditsStayOnTheirSheet ==
    \A s \in Sheets : \A e \in rows[s].doc : home[e] = s

\* One sheet is re-indexed at a time, however often the run is woken, asked again or
\* replaced (pump, reindexNow).
OneReindexAtATime ==
    \A i, j \in jobs : i.kind = "reindex" /\ j.kind = "reindex" /\ i.live /\ j.live => i = j

\* A re-index does not write over a save the open session made after the re-index had
\* read the sheet: the touch count and the unsaved edits together notice it, whether the
\* save went out before or during the re-index (touchSheet, openWithEdits, reindexSheet).
ReindexYieldsToSaves ==
    \A j \in jobs : j.kind = "reindex" /\ j.step \in {"sent", "stored"} => ~j.late

\* What the page shows as saved the server has stored at some time: of the edits made
\* while a save was under way none is counted in (markSaved of the captured version).
SavedMeansStored == page.session # NoSession => page.session.saved \subseteq stored

\* The sheets the page lists as stale, and those "Re-index now" asked for, all get their
\* turn, unless editing ends or another drawing is opened: no wake-up is lost between a
\* run that ends and a list that changes (pump, the effect on staleKey, reindexNow).
StaleIsTried ==
    (run # NoRun /\ Pending(run) # {}) ~> (run = NoRun \/ Pending(run) = {})

\* DraftingPage.tsx says that the page asks before unsaved work is dropped: an edit the
\* user has not agreed to discard is in the session, under way, or has been stored.
NoSilentLoss ==
    \A e \in Edits : home[e] # NoSheet =>
        \/ e \in dropped \cup stored
        \/ page.session # NoSession /\ e \in page.session.doc
        \/ \E j \in jobs : j.kind \in {"open", "list"} /\ e \in j.doc

\* DraftingPage.tsx and sheetEdits.ts say that a background re-index stands down for a
\* save: an edit reported saved is not written over.
SavedEditsStay ==
    \A e \in acked : e \in rows[home[e]].doc

\* implementation.md (340) says that a sheet's stored index and DRC are stale when an assigned
\* part changes: a sheet not stale was derived with the parts as they are.  It does not hold:
\* the page derives from the parts loaded with the workspace, and its saves and re-indexes
\* clear the flag that a later part change set.
FreshIsCurrent ==
    \A s \in Sheets : Open(s) /\ ~rows[s].stale => rows[s].parts = catalog

=============================================================================
