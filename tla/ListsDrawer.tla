----------------------------- MODULE ListsDrawer -----------------------------
(***************************************************************************)
(* What the drafting page knows of the sheets it does not show, and the      *)
(* lists drawer made of it (DraftingPage.tsx, ListsDrawer.tsx, lists.ts,     *)
(* connectors.ts).  The page keeps a copy of the drawing's other sheets and  *)
(* the waivers of the open one, each read when another sheet is opened; the  *)
(* drawer derives the rows of the open sheet from its editor and caches      *)
(* those of the other sheets.                                               *)
(*                                                                         *)
(* A sheet's document is its one off-page connector: its tag, the reference  *)
(* that pairs it with another sheet's, and the zone it is in.  Drafting-     *)
(* Page models the editor session and the saves, here a save is one step.    *)
(***************************************************************************)
EXTENDS Integers, Sequences, FiniteSets, SequencesExt

CONSTANTS
    ListedIds,      \* identities of sheets
    FirstListed,    \* the sheets of the drawing to begin with, in order
    ConnectorRefs,
    NoRef,          \* a connector without a reference
    NoDocument,     \* no editor is open
    MaxListEvents   \* bound: how often the user switches, edits, saves, waives, adds and deletes, and a call fails

Zones == 1..2
NoSheetOpen == 0

\* A drawing's sheets are different, and it has one at least.
ASSUME ListsAssumption ==
    /\ NoSheetOpen \notin ListedIds
    /\ FirstListed \in Seq(ListedIds) /\ FirstListed # << >>
    /\ \A m, n \in DOMAIN FirstListed : FirstListed[m] = FirstListed[n] => m = n

NoTarget == <<0, 0>>

VARIABLES
    filed,    \* the server's sheets: their order, documents and whether the one finding is waived
    desk,     \* what the page knows
    drawer,   \* whether the drawer is open, its cache and its rows
    asked,    \* calls to the server under way
    astray,   \* history: what the page last read of the other sheets or the waivers may be out of date
    listMoves     \* how many of the events MaxListEvents bounds there were

drawerVars == <<filed, desk, drawer, asked, astray, listMoves>>

Document(tag, ref, zone) == [tag |-> tag, ref |-> ref, zone |-> zone]

Ask(kind, sheet) == [kind |-> kind, sheet |-> sheet, sheets |-> << >>, copies |-> << >>, doc |-> NoDocument, step |-> "sent"]

NumberOf(order, s) == CHOOSE n \in 1..Len(order) : order[n] = s

Listed(order) == {order[n] : n \in 1..Len(order)}

WithoutSheet(order, s) == IF s \in Listed(order) THEN RemoveAt(order, NumberOf(order, s)) ELSE order

-----------------------------------------------------------------------------
(* The rows.                                                               *)

\* The sheets the drawer lists: the open one as it is in the editor, then the copies.
DrawerSheets(d) == <<[sheet |-> d.sheet, no |-> NumberOf(d.order, d.sheet), doc |-> d.doc]>> \o d.others

\* resolveConnectorTargets: sheet number and zone of the first other connector with the reference.
Target(entry, entries) ==
    LET pairs == {n \in 1..Len(entries) : entries[n].sheet # entry.sheet /\ entries[n].doc.ref = entry.doc.ref}
        first == entries[CHOOSE n \in pairs : \A m \in pairs : n <= m]
    IN  IF entry.doc.ref = NoRef \/ pairs = {} THEN NoTarget ELSE <<first.no, first.doc.zone>>

\* buildSheetIndex of a sheet with one connector.
IndexOf(doc, target) == [tag |-> doc.tag, target |-> target]

\* Fault: a sheet's own document decides alone whether its cached index is used.
HitByDocument(cached, entry, target) == cached.sheet = entry.sheet /\ cached.doc = entry.doc

Hit(cached, entry, target) == cached.sheet = entry.sheet /\ cached.doc = entry.doc /\ cached.target = target

\* OtherSheetIndexCache: the index of another sheet, kept while it is listed and unchanged.
CachedIndex(cache, entry, target) ==
    LET hits == {cached \in cache : Hit(cached, entry, target)}
    IN  IF hits = {} THEN [sheet |-> entry.sheet, doc |-> entry.doc, target |-> target, index |-> IndexOf(entry.doc, target)]
        ELSE CHOOSE cached \in hits : TRUE

Row(entry, index) == [sheet |-> entry.sheet, no |-> entry.no, tag |-> index.tag, target |-> index.target]

\* liveSheets and liveRows: nothing is shown while no editor is open, and the cache is gone.
Drawn(d, shown, cache) ==
    IF ~shown \/ d.doc = NoDocument THEN [shown |-> shown, cache |-> {}, rows |-> {}]
    ELSE LET entries == DrawerSheets(d)
             others == {entries[n] : n \in 2..Len(entries)}
             cached(entry) == CachedIndex(cache, entry, Target(entry, entries))
         IN  [shown |-> TRUE, cache |-> {cached(entry) : entry \in others},
              rows |-> {Row(entries[1], IndexOf(d.doc, Target(entries[1], entries)))}
                       \cup {Row(entry, cached(entry).index) : entry \in others}]

\* The page becomes d, and the drawer follows.
Desk(d) == desk' = d /\ drawer' = Drawn(d, drawer.shown, drawer.cache)

-----------------------------------------------------------------------------
(* What is read when another sheet is opened.                               *)

\* Fault: the answer of a load is taken whatever has been opened since.
ForgottenNever(calls, kinds) == calls

\* cancelled: the effects' answers still to come are not taken, so they are left out.
Forgotten(calls, kinds) == {c \in calls : c.kind \notin kinds}

\* The effect on the drawing's sheets and the open one reads the others again.
OthersAsked(order, s) ==
    LET others == WithoutSheet(order, s)
    IN  IF others = << >> THEN {} ELSE {[Ask("others", s) EXCEPT !.sheets = others]}

WithOthers(d) == IF WithoutSheet(d.order, d.sheet) = << >> THEN [d EXCEPT !.others = << >>] ELSE d

\* The page shows sheet s of a drawing with these sheets: its document, its waivers and the others are read.
Opening(order, s, calls) ==
    LET opened == IF s = NoSheetOpen THEN {} ELSE {Ask("open", s), Ask("waivers", s)}
    IN  /\ Desk(WithOthers([desk EXCEPT !.order = order, !.sheet = s, !.doc = NoDocument, !.waived = FALSE]))
        /\ asked' = Forgotten(calls, {"open", "waivers", "others"}) \cup opened \cup OthersAsked(order, s)
        /\ astray' = (\E c \in calls : c.kind \in {"waive", "unwaive", "read_waivers"})

\* A new list of the same drawing: the others are read again if sheets were added or removed.
Relisted(order, calls) ==
    IF Listed(order) = Listed(desk.order) THEN /\ Desk([desk EXCEPT !.order = order]) /\ asked' = calls /\ UNCHANGED astray
    ELSE IF desk.sheet \in Listed(order)
    THEN /\ Desk(WithOthers([desk EXCEPT !.order = order]))
         /\ asked' = Forgotten(calls, {"others"}) \cup OthersAsked(order, desk.sheet)
         /\ UNCHANGED astray
    ELSE Opening(order, order[1], calls)

Counted == listMoves < MaxListEvents /\ listMoves' = listMoves + 1

ListsInit ==
    /\ \E ref \in [Listed(FirstListed) -> ConnectorRefs \cup {NoRef}] :
          filed = [order |-> FirstListed, waived |-> {},
                   docs |-> [s \in ListedIds |-> Document(0, IF s \in Listed(FirstListed) THEN ref[s] ELSE NoRef, 1)]]
    /\ desk = [order |-> FirstListed, sheet |-> FirstListed[1], doc |-> NoDocument, others |-> << >>, waived |-> FALSE]
    /\ drawer = [shown |-> TRUE, cache |-> {}, rows |-> {}]
    /\ asked = {Ask("open", FirstListed[1]), Ask("waivers", FirstListed[1])} \cup OthersAsked(FirstListed, FirstListed[1])
    /\ astray = FALSE
    /\ listMoves = 0

-----------------------------------------------------------------------------
(* The user.                                                               *)

ShowSheet(s) ==
    /\ s \in Listed(desk.order) \ {desk.sheet}
    /\ Opening(desk.order, s, asked)
    /\ Counted /\ UNCHANGED filed

ToggleLists ==
    /\ drawer' = Drawn(desk, ~drawer.shown, {})
    /\ Counted /\ UNCHANGED <<filed, desk, asked, astray>>

\* An edit of the open sheet, on the canvas or in its row.
EditOpenSheet(doc) ==
    /\ desk.doc # NoDocument /\ doc # desk.doc
    /\ Desk([desk EXCEPT !.doc = doc])
    /\ Counted /\ UNCHANGED <<filed, asked, astray>>

SaveOpenSheet ==
    /\ desk.doc # NoDocument
    /\ asked' = asked \cup {[Ask("save", desk.sheet) EXCEPT !.doc = desk.doc]}
    /\ Counted /\ UNCHANGED <<filed, desk, drawer, astray>>

\* A cell or a bulk action of the drawer, on a row of another sheet; commits wait for one another.
CommitCells(row) ==
    /\ row \in drawer.rows /\ row.sheet # desk.sheet
    /\ \A c \in asked : c.kind # "edit"
    /\ asked' = asked \cup {[Ask("edit", row.sheet) EXCEPT !.step = "reading"]}
    /\ Counted /\ UNCHANGED <<filed, desk, drawer, astray>>

AskWaiver(kind) ==
    /\ desk.doc # NoDocument /\ desk.waived = (kind = "unwaive")
    /\ asked' = asked \cup {Ask(kind, desk.sheet)}
    /\ Counted /\ UNCHANGED <<filed, desk, drawer, astray>>

\* removeSheet and addSheet: the list is read again after the change.
RemoveOpenSheet ==
    /\ desk.sheet \in Listed(desk.order) /\ Len(desk.order) > 1
    /\ asked' = asked \cup {Ask("remove", desk.sheet)}
    /\ Counted /\ UNCHANGED <<filed, desk, drawer, astray>>

AddToDrawing(s) ==
    /\ s \notin Listed(filed.order) /\ \A c \in asked : c.kind \notin {"add", "list"}
    /\ asked' = asked \cup {Ask("add", s)}
    /\ Counted /\ UNCHANGED <<filed, desk, drawer, astray>>

-----------------------------------------------------------------------------
(* The server.                                                             *)

InDrawing(s) == s \in Listed(filed.order)

Handled(c, answer) == asked' = (asked \ {c}) \cup {answer}

\* Of a read and a write of a sheet, which end in an order the page does not see, one is under way.
Reading(s) == \E c \in asked : c.kind = "others" /\ c.step = "read" /\ s \in Listed(c.sheets)
Writing(sheets) == \E c \in asked : c.kind \in {"save", "edit"} /\ c.sheet \in sheets

HandleRead(c) ==
    /\ c.step = "sent" /\ c.kind \in {"others", "read_waivers", "list"}
    /\ LET sheets == {c.sheets[n] : n \in 1..Len(c.sheets)}
           copies == [n \in 1..Len(c.sheets) |->
                       [sheet |-> c.sheets[n], no |-> NumberOf(filed.order, c.sheets[n]), doc |-> filed.docs[c.sheets[n]]]]
       IN  CASE c.kind = "others" ->
                  /\ Handled(c, IF \A s \in sheets : InDrawing(s) THEN [c EXCEPT !.step = "read", !.copies = copies]
                                ELSE [c EXCEPT !.step = "failed"])
                  /\ astray' = (astray \/ Writing(sheets))
             [] c.kind = "list" -> Handled(c, [c EXCEPT !.step = "read", !.sheets = filed.order]) /\ UNCHANGED astray
             [] OTHER -> Handled(c, [c EXCEPT !.step = "read", !.sheets = IF c.sheet \in filed.waived THEN <<c.sheet>> ELSE << >>])
                         /\ UNCHANGED astray
    /\ UNCHANGED <<filed, desk, drawer, listMoves>>

\* commitSheetEdits loads the stored sheet, edits it and sends it back.
HandleLoad(c) ==
    /\ c.kind = "edit" /\ c.step = "reading"
    /\ Handled(c, IF InDrawing(c.sheet) THEN [c EXCEPT !.step = "sent", !.doc = [filed.docs[c.sheet] EXCEPT !.tag = 1 - @]]
                  ELSE [c EXCEPT !.step = "failed"])
    /\ UNCHANGED <<filed, desk, drawer, astray, listMoves>>

\* A sheet that is gone is not found, and the last one of a drawing stays.
WriteFails(c) == c.kind # "add" /\ (~InDrawing(c.sheet) \/ (c.kind = "remove" /\ Len(filed.order) = 1))

HandleWrite(c) ==
    /\ c.step = "sent" /\ c.kind \in {"save", "edit", "waive", "unwaive", "remove", "add"}
    /\ filed' = IF WriteFails(c) THEN filed
                ELSE CASE c.kind = "add"     -> [filed EXCEPT !.order = Append(@, c.sheet)]
                       [] c.kind = "waive"   -> [filed EXCEPT !.waived = @ \cup {c.sheet}]
                       [] c.kind = "unwaive" -> [filed EXCEPT !.waived = @ \ {c.sheet}]
                       [] c.kind = "remove"  -> [filed EXCEPT !.order = WithoutSheet(@, c.sheet)]
                       [] OTHER              -> [filed EXCEPT !.docs[c.sheet] = c.doc]
    /\ Handled(c, [c EXCEPT !.step = IF WriteFails(c) THEN "failed" ELSE "read"])
    /\ astray' = (astray \/ (c.kind \in {"save", "edit"} /\ Reading(c.sheet)))
    /\ UNCHANGED <<desk, drawer, listMoves>>

\* A call is lost on its way.
LoseCall(c) ==
    /\ c.step \in {"sent", "reading"}
    /\ Handled(c, [c EXCEPT !.step = "failed"])
    /\ Counted /\ UNCHANGED <<filed, desk, drawer, astray>>

-----------------------------------------------------------------------------
(* Answers.                                                                *)

\* The open sheet's document and waivers are read and taken in one step: nothing but the
\* user of this page writes them.
TakeDocument(c) ==
    /\ c.kind = "open"
    /\ IF c.step = "sent" /\ InDrawing(c.sheet) THEN Desk([desk EXCEPT !.doc = filed.docs[c.sheet]]) ELSE UNCHANGED <<desk, drawer>>
    /\ asked' = asked \ {c} /\ UNCHANGED <<filed, astray, listMoves>>

\* A failed load leaves none.
TakeOthers(c) ==
    /\ c.kind = "others" /\ c.step \in {"read", "failed"}
    /\ Desk([desk EXCEPT !.others = c.copies])
    /\ astray' = (astray \/ c.step = "failed")
    /\ asked' = asked \ {c} /\ UNCHANGED <<filed, listMoves>>

TakeWaivers(c) ==
    /\ c.kind = "waivers"
    /\ Desk([desk EXCEPT !.waived = c.step = "sent" /\ c.sheet \in filed.waived])
    /\ astray' = (astray \/ c.step = "failed")
    /\ asked' = asked \ {c} /\ UNCHANGED <<filed, listMoves>>

\* onSheetSaved: the copy is replaced, if there is one.  A save of the open sheet changes no copy.
TakeStored(c) ==
    /\ c.kind \in {"save", "edit"} /\ c.step \in {"read", "failed"}
    /\ IF c.kind = "edit" /\ c.step = "read"
       THEN Desk([desk EXCEPT !.others = [n \in 1..Len(@) |-> IF @[n].sheet = c.sheet THEN [@[n] EXCEPT !.doc = c.doc] ELSE @[n]]])
       ELSE UNCHANGED <<desk, drawer>>
    /\ astray' = (astray \/ c.step = "failed")
    /\ asked' = asked \ {c} /\ UNCHANGED <<filed, listMoves>>

\* waiveFinding reads the waivers again and shows them, whichever sheet is open by then.
TakeWaived(c) ==
    /\ c.kind \in {"waive", "unwaive", "read_waivers"} /\ c.step \in {"read", "failed"}
    /\ IF c.step = "failed" THEN UNCHANGED <<desk, drawer>> ELSE
       CASE c.kind = "waive"        -> UNCHANGED <<desk, drawer>>
         [] c.kind = "unwaive"      -> Desk([desk EXCEPT !.waived = FALSE])
         [] c.kind = "read_waivers" -> Desk([desk EXCEPT !.waived = c.sheets # << >>])
    /\ asked' = (asked \ {c}) \cup (IF c.kind = "waive" /\ c.step = "read" THEN {Ask("read_waivers", c.sheet)} ELSE {})
    /\ astray' = (astray \/ c.step = "failed" \/ \E other \in asked \ {c} : other.kind \in {"waive", "unwaive", "read_waivers", "waivers"})
    /\ UNCHANGED <<filed, listMoves>>

TakeRemoved(c) ==
    /\ c.kind = "remove" /\ c.step \in {"read", "failed"}
    /\ IF c.step = "failed" THEN asked' = asked \ {c} /\ UNCHANGED <<desk, drawer, astray>>
       ELSE Opening(desk.order, NoSheetOpen, (asked \ {c}) \cup {Ask("list", NoSheetOpen)})
    /\ UNCHANGED <<filed, listMoves>>

TakeAdded(c) ==
    /\ c.kind = "add" /\ c.step \in {"read", "failed"}
    /\ asked' = (asked \ {c}) \cup (IF c.step = "failed" THEN {} ELSE {Ask("list", c.sheet)})
    /\ UNCHANGED <<filed, desk, drawer, astray, listMoves>>

\* The list after a removal shows the first sheet, after an addition the new one.
TakeList(c) ==
    /\ c.kind = "list" /\ c.step \in {"read", "failed"}
    /\ IF c.step = "failed" THEN asked' = asked \ {c} /\ UNCHANGED <<desk, drawer, astray>>
       ELSE IF c.sheet \in Listed(c.sheets) \ {desk.sheet} THEN Opening(c.sheets, c.sheet, asked \ {c})
       ELSE Relisted(c.sheets, asked \ {c})
    /\ UNCHANGED <<filed, listMoves>>

ListsNext ==
    \/ \E s \in ListedIds : ShowSheet(s) \/ AddToDrawing(s)
    \/ ToggleLists
    \/ \E ref \in ConnectorRefs \cup {NoRef}, zone \in Zones : EditOpenSheet(Document(0, ref, zone))
    \/ SaveOpenSheet
    \/ \E row \in drawer.rows : CommitCells(row)
    \/ AskWaiver("waive") \/ AskWaiver("unwaive")
    \/ RemoveOpenSheet
    \/ \E c \in asked :
          \/ HandleRead(c) \/ HandleLoad(c) \/ HandleWrite(c) \/ LoseCall(c)
          \/ TakeDocument(c) \/ TakeOthers(c) \/ TakeWaivers(c) \/ TakeStored(c) \/ TakeWaived(c)
          \/ TakeRemoved(c) \/ TakeAdded(c) \/ TakeList(c)

ListsSpec == ListsInit /\ [][ListsNext]_drawerVars

-----------------------------------------------------------------------------
(* Properties.                                                             *)

\* The document of a sheet as the user has it: the open one from the editor.
Latest(s) == IF s = desk.sheet THEN desk.doc ELSE filed.docs[s]

\* Where a connector may continue: the sheets with its reference, and their zones, as they are now.
Continues(s) ==
    {<<NumberOf(filed.order, t), Latest(t).zone>> : t \in {u \in Listed(filed.order) \ {s} : Latest(u).ref = Latest(s).ref /\ Latest(s).ref # NoRef}}

\* With no call under way the drawer lists every sheet of the drawing once, as it is, with a
\* cross-reference to where its connector continues now, and the waivers are those stored: an
\* edit of the open sheet reaches the rows of the sheets that refer to it, and no late answer
\* of a sheet left takes the place of a newer one (OtherSheetIndexCache, cancelled).  Left
\* aside is what was read while it was being written, and what could not be read.
QuietDrawerIsCurrent ==
    asked = {} /\ ~astray /\ desk.order = filed.order /\ drawer.shown /\ desk.doc # NoDocument =>
        /\ desk.waived = (desk.sheet \in filed.waived)
        /\ {row.sheet : row \in drawer.rows} = Listed(filed.order)
        /\ Cardinality(drawer.rows) = Len(filed.order)
        /\ \A row \in drawer.rows :
              /\ row.no = NumberOf(filed.order, row.sheet)
              /\ row.tag = Latest(row.sheet).tag
              /\ IF Continues(row.sheet) = {} THEN row.target = NoTarget ELSE row.target \in Continues(row.sheet)

\* The waivers shown are those of the open sheet: while it stays open they change only with an
\* answer about it (DraftingPage.tsx:502-519).  It does not hold: waiveFinding and unwaiveFinding
\* set them after their calls whichever sheet is open by then (872, 883).
WaiversFollowSheet ==
    [][desk'.sheet = desk.sheet /\ desk'.waived # desk.waived =>
          \E c \in asked \ asked' : c.sheet = desk.sheet]_drawerVars

=============================================================================
