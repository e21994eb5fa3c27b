------------------------- MODULE EditorToolsProofs -------------------------
(***************************************************************************)
(* Theorems about the editor session of EditorTools.                        *)
(***************************************************************************)
EXTENDS EditorTools, FiniteSetTheorems, TLAPS

Drags == [kind : {"none", "window", "move", "segment"}, moved : BOOLEAN]

Session ==
    [items : SUBSET SheetIds, past : Seq(SUBSET SheetIds), future : Seq(SUBSET SheetIds), no : Nat,
     tool : Tools, selection : SUBSET SheetIds, drag : Drags, wire : Nat, place : BOOLEAN,
     draft : BOOLEAN, measure : {"none", "open", "fixed"}, readOnly : BOOLEAN,
     clipboard : {Cardinality(ids) : ids \in SUBSET SheetIds},
     conn : Nat, stale : BOOLEAN, frame : BOOLEAN, shown : [doc : Nat, conn : Nat],
     panel : [on : BOOLEAN, doc : Nat, conn : Nat, timer : BOOLEAN, was : BOOLEAN, fresh : BOOLEAN]]

\* The properties, of any state of an editor.
Fits(e) ==
    /\ e.wire > 0 => e.tool = "wire"
    /\ e.place => e.tool = "place"
    /\ IsDragging(e) => e.tool = "select"
    /\ e.drag.kind = "window" => e.tool \in {"select", "equipment"}
    /\ e.readOnly => e.tool \in ReadOnlyTools /\ ~IsDragging(e)

Follows(e) ==
    /\ e.shown.doc = e.no
    /\ e.shown.conn # e.no => IsDragging(e) /\ e.frame
    /\ e.panel.on /\ e.panel.doc # e.no => e.panel.timer

\* What is derived is up to date unless it is marked stale, and then a frame will come;
\* the panels' view is of one document.
Settled(e) ==
    /\ ~e.stale => e.conn = e.no
    /\ e.stale => e.frame
    /\ e.panel.conn = e.panel.doc

Good(e) == e \in Session /\ Fits(e) /\ Settled(e) /\ Follows(e) /\ (e.stale => IsDragging(e))

\* What a change tells the views leaves the session and the document alone.
SameSession(e, f) ==
    /\ f.items = e.items /\ f.past = e.past /\ f.future = e.future /\ f.no = e.no
    /\ f.tool = e.tool /\ f.selection = e.selection /\ f.drag = e.drag /\ f.wire = e.wire
    /\ f.place = e.place /\ f.draft = e.draft /\ f.measure = e.measure /\ f.readOnly = e.readOnly
    /\ f.clipboard = e.clipboard

\* A handler that changes the session leaves the document and what is derived to Emit.
SameViews(e, f) ==
    /\ f.no = e.no /\ f.conn = e.conn /\ f.stale = e.stale /\ f.frame = e.frame
    /\ f.shown = e.shown /\ f.panel = e.panel

LEMMA FitsSame ==
    ASSUME NEW e, NEW f, SameSession(e, f), Fits(e)
    PROVE  Fits(f)
BY DEF SameSession, Fits, IsDragging

LEMMA RefreshedFacts ==
    ASSUME NEW e \in Session
    PROVE  /\ Refreshed(e) \in Session /\ SameSession(e, Refreshed(e))
           /\ ~Refreshed(e).stale /\ Refreshed(e).conn = e.no /\ Refreshed(e).frame = e.frame
           /\ Refreshed(e).shown = e.shown /\ Refreshed(e).panel = e.panel
BY DEF Refreshed, Session, SameSession

LEMMA WithConnectivityFacts ==
    ASSUME NEW e \in Session, ~e.stale => e.conn = e.no
    PROVE  /\ WithConnectivity(e) \in Session /\ SameSession(e, WithConnectivity(e))
           /\ ~WithConnectivity(e).stale /\ WithConnectivity(e).conn = e.no
           /\ WithConnectivity(e).frame = e.frame
           /\ WithConnectivity(e).shown = e.shown /\ WithConnectivity(e).panel = e.panel
<1>1. CASE e.stale
  BY <1>1, RefreshedFacts DEF WithConnectivity
<1>2. CASE ~e.stale
  BY <1>2 DEF WithConnectivity, SameSession
<1>3. QED
  BY <1>1, <1>2

\* The panel takes the document as it is.
LEMMA TakenByFacts ==
    ASSUME NEW e \in Session, ~e.stale => e.conn = e.no, e.panel.conn = e.panel.doc
    PROVE  /\ TakenBy(e) \in Session /\ SameSession(e, TakenBy(e))
           /\ ~TakenBy(e).stale /\ TakenBy(e).conn = e.no /\ TakenBy(e).frame = e.frame
           /\ TakenBy(e).shown = e.shown
           /\ TakenBy(e).panel.doc = e.no /\ TakenBy(e).panel.conn = e.no
           /\ TakenBy(e).panel.on = e.panel.on
<1> DEFINE c == WithConnectivity(e)
           t == [c EXCEPT !.panel = [@ EXCEPT !.doc = c.no, !.conn = c.conn, !.fresh = TRUE]]
<1>1. /\ c \in Session /\ SameSession(e, c) /\ ~c.stale /\ c.conn = e.no /\ c.frame = e.frame
      /\ c.shown = e.shown /\ c.panel = e.panel
  BY WithConnectivityFacts
<1>2. TakenBy(e) = IF c.no = c.panel.doc /\ c.conn = c.panel.conn THEN c ELSE t
  BY DEF TakenBy
<1> HIDE DEF c
<1>3. /\ t \in Session /\ SameSession(c, t) /\ t.stale = c.stale /\ t.conn = c.conn /\ t.frame = c.frame
      /\ t.shown = c.shown /\ t.panel.doc = c.no /\ t.panel.conn = c.conn /\ t.panel.on = c.panel.on
  BY <1>1 DEF Session, SameSession
<1> HIDE DEF t
<1>4. QED
  BY <1>1, <1>2, <1>3 DEF SameSession

LEMMA FlushedFacts ==
    ASSUME NEW e \in Session, ~e.stale => e.conn = e.no, e.panel.conn = e.panel.doc
    PROVE  /\ Flushed(e) \in Session /\ SameSession(e, Flushed(e))
           /\ ~Flushed(e).stale /\ Flushed(e).conn = e.no /\ Flushed(e).frame = e.frame
           /\ Flushed(e).shown = e.shown
           /\ Flushed(e).panel.doc = e.no /\ Flushed(e).panel.conn = e.no
           /\ Flushed(e).panel.on = e.panel.on
<1> DEFINE t == [e EXCEPT !.panel.timer = FALSE]
<1>1. /\ t \in Session /\ SameSession(e, t) /\ t.stale = e.stale /\ t.conn = e.conn /\ t.frame = e.frame
      /\ t.shown = e.shown /\ t.panel.doc = e.panel.doc /\ t.panel.conn = e.panel.conn
      /\ t.panel.on = e.panel.on
  BY DEF Session, SameSession
<1>2. Flushed(e) = TakenBy(t)
  BY DEF Flushed
<1> HIDE DEF t
<1>3. t.no = e.no
  BY <1>1 DEF SameSession
<1>4. QED
  BY <1>1, <1>2, <1>3, TakenByFacts DEF SameSession

LEMMA HeardFacts ==
    ASSUME NEW e \in Session, ~e.stale => e.conn = e.no, e.panel.conn = e.panel.doc
    PROVE  /\ HeardByPanel(e) \in Session /\ SameSession(e, HeardByPanel(e))
           /\ ~HeardByPanel(e).stale => HeardByPanel(e).conn = e.no
           /\ HeardByPanel(e).stale => e.stale
           /\ HeardByPanel(e).frame = e.frame /\ HeardByPanel(e).shown = e.shown
           /\ HeardByPanel(e).panel.conn = HeardByPanel(e).panel.doc
           /\ HeardByPanel(e).panel.doc # e.no => HeardByPanel(e).panel.timer
<1> DEFINE n == [e EXCEPT !.panel.was = IsDragging(e)]
           t == [n EXCEPT !.panel.timer = TRUE]
<1>0. IsDragging(e) \in BOOLEAN
  BY DEF IsDragging
<1>1. /\ n \in Session /\ SameSession(e, n) /\ n.stale = e.stale /\ n.conn = e.conn /\ n.frame = e.frame
      /\ n.shown = e.shown /\ n.panel.doc = e.panel.doc /\ n.panel.conn = e.panel.conn
  BY <1>0 DEF Session, SameSession
<1>2. HeardByPanel(e) \in {Flushed(n), t}
  BY DEF HeardByPanel
<1> HIDE DEF n
<1>3. /\ t \in Session /\ SameSession(n, t) /\ t.stale = n.stale /\ t.conn = n.conn /\ t.frame = n.frame
      /\ t.shown = n.shown /\ t.panel.doc = n.panel.doc /\ t.panel.conn = n.panel.conn
      /\ t.panel.timer = TRUE
  BY <1>1 DEF Session, SameSession
<1> HIDE DEF t
<1>4. n.no = e.no
  BY <1>1 DEF SameSession
<1>5. CASE HeardByPanel(e) = t
  BY <1>1, <1>3, <1>4, <1>5 DEF SameSession
<1>6. CASE HeardByPanel(e) = Flushed(n)
  BY <1>1, <1>4, <1>6, FlushedFacts DEF SameSession
<1>7. QED
  BY <1>2, <1>5, <1>6

\* Whatever a handler did to the session, telling the views leaves them at the document.
LEMMA EmitFacts ==
    ASSUME NEW e \in Session, Settled(e)
    PROVE  /\ Emit(e) \in Session /\ SameSession(e, Emit(e))
           /\ Settled(Emit(e)) /\ Follows(Emit(e)) /\ (Emit(e).stale => IsDragging(e))
<1> DEFINE c == IF e.stale /\ ~IsDragging(e) THEN Refreshed(e) ELSE e
           s == [c EXCEPT !.shown = [doc |-> c.no, conn |-> c.conn]]
<1>1. /\ c \in Session /\ SameSession(e, c) /\ (~c.stale => c.conn = e.no) /\ (c.stale => e.stale /\ IsDragging(e))
      /\ c.frame = e.frame /\ c.panel = e.panel
  BY RefreshedFacts DEF Settled, SameSession
<1>2. Emit(e) = IF s.panel.on THEN HeardByPanel(s) ELSE s
  BY DEF Emit
<1> HIDE DEF c
<1>3. /\ s \in Session /\ SameSession(c, s) /\ s.stale = c.stale /\ s.conn = c.conn /\ s.frame = c.frame
      /\ s.panel = c.panel /\ s.shown.doc = c.no /\ s.shown.conn = c.conn
  BY <1>1 DEF Session, SameSession
<1> HIDE DEF s
<1>4. s.no = e.no /\ c.no = e.no /\ s.drag = e.drag
  BY <1>1, <1>3 DEF SameSession
<1>5. CASE ~s.panel.on
  BY <1>1, <1>2, <1>3, <1>4, <1>5 DEF SameSession, Settled, Follows, IsDragging
<1>6. CASE s.panel.on
  <2> DEFINE h == HeardByPanel(s)
  <2>1. /\ h \in Session /\ SameSession(s, h) /\ (~h.stale => h.conn = s.no) /\ (h.stale => s.stale)
        /\ h.frame = s.frame /\ h.shown = s.shown /\ h.panel.conn = h.panel.doc
        /\ (h.panel.doc # s.no => h.panel.timer)
    BY <1>1, <1>3, <1>4, HeardFacts DEF Settled
  <2>2. Emit(e) = h
    BY <1>2, <1>6
  <2> HIDE DEF h
  <2>3. QED
    BY <1>1, <1>3, <1>4, <2>1, <2>2 DEF SameSession, Settled, Follows, IsDragging
<1>7. QED
  BY <1>5, <1>6

LEMMA ChangedFacts ==
    ASSUME NEW e \in Session, e.panel.conn = e.panel.doc
    PROVE  LET f == OnDocumentChanged(e) IN
           /\ f \in Session /\ Settled(f) /\ Follows(f) /\ (f.stale => IsDragging(f))
           /\ f.tool = e.tool /\ f.wire = e.wire /\ f.place = e.place /\ f.drag = e.drag
           /\ f.readOnly = e.readOnly /\ f.items = e.items
<1> DEFINE c == IF IsDragging(e) THEN [e EXCEPT !.stale = TRUE, !.frame = TRUE] ELSE Refreshed(e)
           d == [c EXCEPT !.selection = @ \cap e.items]
<1>1. /\ c \in Session /\ SameSession(e, c) /\ Settled(c)
  <2>1. CASE IsDragging(e)
    BY <2>1 DEF Session, SameSession, Settled
  <2>2. CASE ~IsDragging(e)
    BY <2>2, RefreshedFacts DEF Settled, SameSession
  <2>3. QED
    BY <2>1, <2>2
<1>2. OnDocumentChanged(e) = Emit(d)
  BY DEF OnDocumentChanged
<1> HIDE DEF c
<1>3. /\ d \in Session /\ Settled(d) /\ d.tool = c.tool /\ d.wire = c.wire /\ d.place = c.place
      /\ d.drag = c.drag /\ d.readOnly = c.readOnly /\ d.items = c.items
  BY <1>1 DEF Session, Settled
<1> HIDE DEF d
<1>4. QED
  BY <1>1, <1>2, <1>3, EmitFacts DEF SameSession, IsDragging

\* A change of the sheet leaves tool and gesture alone; a read-only editor does nothing.
LEMMA DispatchFacts ==
    ASSUME NEW e, Good(e), NEW items \in SUBSET SheetIds
    PROVE  LET f == DispatchOn(e, items) IN
           /\ Good(f) /\ f.tool = e.tool /\ f.wire = e.wire /\ f.place = e.place /\ f.drag = e.drag
           /\ f.readOnly = e.readOnly
<1>1. CASE e.readOnly
  BY <1>1 DEF DispatchOn
<1>2. CASE ~e.readOnly
  <2> DEFINE s == Stored(e, items)
  <2>1. /\ s \in Session /\ s.panel = e.panel /\ s.tool = e.tool /\ s.wire = e.wire /\ s.place = e.place
        /\ s.drag = e.drag /\ s.readOnly = e.readOnly
    <3> DEFINE past == IF items = e.items THEN e.past ELSE Append(e.past, e.items)
    <3>1. e \in Session /\ e.items \in SUBSET SheetIds /\ e.past \in Seq(SUBSET SheetIds) /\ e.no + 1 \in Nat
      BY DEF Good, Session
    <3>2. past \in Seq(SUBSET SheetIds) /\ << >> \in Seq(SUBSET SheetIds)
      BY <3>1
    <3>3. s = [e EXCEPT !.items = items, !.past = past, !.future = << >>, !.no = e.no + 1]
      BY DEF Stored
    <3> HIDE DEF past, s
    <3>4. QED
      BY <3>1, <3>2, <3>3 DEF Session
  <2>2. DispatchOn(e, items) = OnDocumentChanged(s)
    BY <1>2 DEF DispatchOn
  <2> HIDE DEF s
  <2>3. QED
    BY <2>1, <2>2, ChangedFacts DEF Good, Settled, Fits, IsDragging
<1>3. QED
  BY <1>1, <1>2

\* The form of most handlers: change the session, tell the views.
LEMMA EmitGood ==
    ASSUME NEW e, Good(e), NEW f \in Session, SameViews(e, f), Fits(f)
    PROVE  /\ Good(Emit(f)) /\ SameSession(f, Emit(f))
<1>1. Settled(f)
  BY DEF Good, Settled, SameViews
<1>2. QED
  BY <1>1, EmitFacts, FitsSame DEF Good, SameSession, IsDragging

LEMMA EmitOnly ==
    ASSUME NEW e, Good(e)
    PROVE  Good(Emit(e))
BY EmitGood DEF Good, SameViews

LEMMA SelectGood ==
    ASSUME NEW e, Good(e), NEW ids \in SUBSET SheetIds
    PROVE  Good(Emit([e EXCEPT !.selection = ids]))
<1> DEFINE f == [e EXCEPT !.selection = ids]
<1>1. f \in Session /\ SameViews(e, f) /\ Fits(f)
  BY DEF Good, Session, SameViews, Fits, IsDragging
<1> HIDE DEF f
<1>2. Good(Emit(f))
  BY <1>1, EmitGood
<1>3. QED
  BY <1>2 DEF f

LEMMA SelectingGood ==
    ASSUME NEW e, Good(e), NEW items \in SUBSET SheetIds, NEW ids \in SUBSET SheetIds
    PROVE  Good(Selecting(e, items, ids))
BY DispatchFacts, SelectGood DEF Selecting

LEMMA SetToolGood ==
    ASSUME NEW e, Good(e), NEW tool \in Tools
    PROVE  Good(SetTool(e, tool))
<1>1. CASE e.readOnly /\ tool \notin ReadOnlyTools
  BY <1>1 DEF SetTool
<1>2. CASE ~(e.readOnly /\ tool \notin ReadOnlyTools)
  <2> DEFINE f == [e EXCEPT !.tool = tool, !.wire = 0, !.drag = NoDragging, !.draft = FALSE,
                            !.measure = "none", !.place = tool = "place" /\ @]
  <2>1. f \in Session /\ SameViews(e, f)
    <3>1. (tool = "place" /\ e.place) \in BOOLEAN
      OBVIOUS
    <3>2. QED
      BY <3>1 DEF Good, Session, SameViews, NoDragging, Drags
  <2>2. Fits(f)
    BY <1>2 DEF Good, Session, Fits, IsDragging, NoDragging
  <2>3. SetTool(e, tool) = Emit(f)
    BY <1>2 DEF SetTool
  <2> HIDE DEF f
  <2>4. QED
    BY <2>1, <2>2, <2>3, EmitGood
<1>3. QED
  BY <1>1, <1>2

LEMMA StartPlacingGood ==
    ASSUME NEW e, Good(e)
    PROVE  Good(StartPlacing(e))
<1>1. CASE e.readOnly
  BY <1>1 DEF StartPlacing
<1>2. CASE ~e.readOnly
  <2> DEFINE f == [e EXCEPT !.tool = "place", !.place = TRUE, !.wire = 0, !.drag = NoDragging,
                            !.selection = {}]
  <2>1. f \in Session /\ SameViews(e, f) /\ Fits(f)
    <3>1. f \in Session /\ SameViews(e, f)
      BY DEF Good, Session, SameViews, NoDragging, Drags, Tools
    <3>2. Fits(f)
      BY <1>2 DEF Good, Session, Fits, IsDragging, NoDragging
    <3>3. QED
      BY <3>1, <3>2
  <2>2. StartPlacing(e) = Emit(f)
    BY <1>2 DEF StartPlacing
  <2> HIDE DEF f
  <2>3. QED
    BY <2>1, <2>2, EmitGood
<1>3. QED
  BY <1>1, <1>2

LEMMA SetReadOnlyGood ==
    ASSUME NEW e, Good(e), NEW readOnly \in BOOLEAN
    PROVE  Good(SetReadOnly(e, readOnly))
<1>1. CASE readOnly = e.readOnly
  BY <1>1 DEF SetReadOnly
<1>2. CASE readOnly # e.readOnly /\ ~readOnly
  <2> DEFINE f == [e EXCEPT !.readOnly = FALSE]
  <2>1. f \in Session /\ SameViews(e, f) /\ Fits(f)
    BY DEF Good, Session, SameViews, Fits, IsDragging
  <2>2. SetReadOnly(e, readOnly) = Emit(f)
    BY <1>2 DEF SetReadOnly
  <2> HIDE DEF f
  <2>3. QED
    BY <2>1, <2>2, EmitGood
<1>3. CASE readOnly # e.readOnly /\ readOnly
  <2> DEFINE tool == IF e.tool \in ReadOnlyTools THEN e.tool ELSE "select"
             f == [e EXCEPT !.readOnly = TRUE, !.tool = tool, !.wire = 0, !.drag = NoDragging,
                            !.place = FALSE, !.draft = FALSE]
  <2>1. tool \in Tools /\ tool \in ReadOnlyTools
    BY DEF Good, Session, Tools, ReadOnlyTools
  <2>2. SetReadOnly(e, readOnly) = Emit(f)
    BY <1>3 DEF SetReadOnly
  <2> HIDE DEF tool
  <2>3. f \in Session /\ SameViews(e, f)
    BY <2>1 DEF Good, Session, SameViews, NoDragging, Drags
  <2>4. Fits(f)
    BY <2>1 DEF Good, Session, Fits, IsDragging, NoDragging
  <2> HIDE DEF f
  <2>5. QED
    BY <2>2, <2>3, <2>4, EmitGood
<1>4. QED
  BY <1>1, <1>2, <1>3

LEMMA NoWireGood ==
    ASSUME NEW e, Good(e)
    PROVE  Good(Emit([e EXCEPT !.wire = 0]))
<1> DEFINE f == [e EXCEPT !.wire = 0]
<1>1. f \in Session /\ SameViews(e, f) /\ Fits(f)
  <2>1. f \in Session /\ SameViews(e, f)
    BY DEF Good, Session, SameViews
  <2>2. Fits(f)
    BY DEF Good, Session, Fits, IsDragging
  <2>3. QED
    BY <2>1, <2>2
<1> HIDE DEF f
<1>2. Good(Emit(f))
  BY <1>1, EmitGood
<1>3. QED
  BY <1>2 DEF f

LEMMA NoDragGood ==
    ASSUME NEW e, Good(e)
    PROVE  Good(Emit([e EXCEPT !.drag = NoDragging]))
<1> DEFINE f == [e EXCEPT !.drag = NoDragging]
<1>1. f \in Session /\ SameViews(e, f)
  BY DEF Good, Session, SameViews, NoDragging, Drags
<1>2. Fits(f)
  BY DEF Good, Session, Fits, IsDragging, NoDragging
<1> HIDE DEF f
<1>3. Good(Emit(f))
  BY <1>1, <1>2, EmitGood
<1>4. QED
  BY <1>3 DEF f

LEMMA MeasureGood ==
    ASSUME NEW e, Good(e), NEW measure \in {"none", "open", "fixed"}
    PROVE  Good(Emit([e EXCEPT !.measure = measure]))
<1> DEFINE f == [e EXCEPT !.measure = measure]
<1>1. f \in Session /\ SameViews(e, f) /\ Fits(f)
  BY DEF Good, Session, SameViews, Fits, IsDragging
<1> HIDE DEF f
<1>2. Good(Emit(f))
  BY <1>1, EmitGood
<1>3. QED
  BY <1>2 DEF f

LEMMA CancelledGood ==
    ASSUME NEW e, Good(e)
    PROVE  Good(Cancelled(e))
<1> DEFINE f == [e EXCEPT !.tool = "select", !.place = FALSE, !.drag = NoDragging, !.draft = FALSE]
           w == Emit([e EXCEPT !.wire = 0])
           m == Emit([e EXCEPT !.measure = "none"])
           d == Emit([e EXCEPT !.drag = NoDragging])
           s == Emit([e EXCEPT !.selection = {}])
<1>1. Good(w) /\ Good(m) /\ Good(d) /\ Good(s)
  BY NoWireGood, NoDragGood, MeasureGood, SelectGood
<1>2. Cancelled(e) \in {w, m, d, s} \/ (Cancelled(e) = Emit(f) /\ ~(e.wire > 0))
  BY DEF Cancelled
<1>3. ASSUME ~(e.wire > 0)
      PROVE  Good(Emit(f))
  <2>1. f \in Session /\ SameViews(e, f)
    BY DEF Good, Session, SameViews, NoDragging, Drags, Tools
  <2>2. Fits(f)
    BY <1>3 DEF Good, Session, Fits, IsDragging, NoDragging, ReadOnlyTools
  <2> HIDE DEF f
  <2>3. QED
    BY <2>1, <2>2, EmitGood
<1> HIDE DEF w, m, d, s, f
<1>4. QED
  BY <1>1, <1>2, <1>3

LEMMA FinishWireGood ==
    ASSUME NEW e, Good(e), NEW points, NEW f \in FinishWire(e, points)
    PROVE  Good(f)
<1>1. CASE f = e
  BY <1>1
<1>2. CASE f = Emit([e EXCEPT !.wire = 0])
  BY <1>2, NoWireGood
<1>3. ASSUME NEW id \in FreshLines(e),
             f = Emit([DispatchOn(e, e.items \cup {id}) EXCEPT !.wire = 0, !.selection = {id}])
      PROVE  Good(f)
  <2> DEFINE s == DispatchOn(e, e.items \cup {id})
             g == [s EXCEPT !.wire = 0, !.selection = {id}]
  <2>1. id \in SheetIds /\ e.items \cup {id} \in SUBSET SheetIds
    BY DEF FreshLines, FreshIds, Good, Session
  <2>2. Good(s)
    BY <2>1, DispatchFacts
  <2> HIDE DEF s
  <2>3. g \in Session /\ SameViews(s, g) /\ Fits(g)
    <3>1. g \in Session /\ SameViews(s, g)
      BY <2>1, <2>2 DEF Good, Session, SameViews
    <3>2. Fits(g)
      BY <2>1, <2>2 DEF Good, Session, Fits, IsDragging
    <3>3. QED
      BY <3>1, <3>2
  <2>4. f = Emit(g)
    BY <1>3 DEF s
  <2> HIDE DEF g
  <2>5. QED
    BY <2>2, <2>3, <2>4, EmitGood
<1>4. QED
  BY <1>1, <1>2, <1>3 DEF FinishWire

LEMMA WireClickGood ==
    ASSUME NEW e, Good(e), e.tool = "wire", NEW f \in WireClicks(e)
    PROVE  Good(f)
<1>1. ASSUME NEW points \in 1..2, f = Emit([e EXCEPT !.wire = points])
      PROVE  Good(f)
  <2> DEFINE g == [e EXCEPT !.wire = points]
  <2>1. g \in Session /\ SameViews(e, g) /\ Fits(g)
    <3>0. points \in Nat
      OBVIOUS
    <3>1. g \in Session /\ SameViews(e, g)
      <4> HIDE DEF g
      <4>1. /\ e \in Session
            /\ g = [e EXCEPT !.wire = points]
        BY DEF Good, g
      <4>2. QED
        BY <3>0, <4>1 DEF Session, SameViews
    <3>2. Fits(g)
      BY DEF Good, Session, Fits, IsDragging
    <3>3. QED
      BY <3>1, <3>2
  <2>2. f = Emit(g)
    BY <1>1
  <2> HIDE DEF g
  <2>3. QED
    BY <2>1, <2>2, EmitGood
<1>2. ASSUME f \in FinishWire(e, 2)
      PROVE  Good(f)
  BY <1>2, FinishWireGood
<1>3. QED
  BY <1>1, <1>2 DEF WireClicks

LEMMA AddItemGood ==
    ASSUME NEW e, Good(e), e.tool \notin {"wire", "place"}, ~IsDragging(e), e.drag.kind # "window",
           NEW f \in AddItem(e)
    PROVE  Good(f)
<1>1. PICK id \in FreshBodies(e) :
         f = Emit([DispatchOn(e, e.items \cup {id}) EXCEPT !.selection = {id}, !.tool = "select"])
  BY DEF AddItem
<1> DEFINE s == DispatchOn(e, e.items \cup {id})
           g == [s EXCEPT !.selection = {id}, !.tool = "select"]
<1>2. id \in SheetIds /\ e.items \cup {id} \in SUBSET SheetIds
  BY DEF FreshBodies, FreshIds, Good, Session
<1>3. Good(s) /\ s.tool = e.tool /\ s.wire = e.wire /\ s.place = e.place /\ s.drag = e.drag
  BY <1>2, DispatchFacts
<1>4. f = Emit(g)
  BY <1>1
<1> HIDE DEF s
<1>5. g \in Session /\ SameViews(s, g)
  BY <1>2, <1>3 DEF Good, Session, SameViews, Tools
<1>6. Fits(g)
  BY <1>3 DEF Good, Session, Fits, IsDragging, ReadOnlyTools
<1> HIDE DEF g
<1>7. QED
  BY <1>3, <1>4, <1>5, <1>6, EmitGood

LEMMA PlaceClickGood ==
    ASSUME NEW e, Good(e), NEW f \in PlaceClick(e)
    PROVE  Good(f)
<1>1. ASSUME NEW id \in FreshBodies(e), f = Selecting(e, e.items \cup {id}, {id})
      PROVE  Good(f)
  <2>1. id \in SheetIds /\ e.items \cup {id} \in SUBSET SheetIds
    BY DEF FreshBodies, FreshIds, Good, Session
  <2>2. QED
    BY <1>1, <2>1, SelectingGood
<1>2. QED
  BY <1>1 DEF PlaceClick

LEMMA PressGood ==
    ASSUME NEW e, Good(e), e.tool = "select", NEW ids \in SUBSET SheetIds,
           NEW kind \in {"window", "move", "segment"}, kind # "window" => ~e.readOnly
    PROVE  /\ Good(Emit([e EXCEPT !.drag = DragOf(kind)]))
           /\ Good(Emit([e EXCEPT !.selection = ids, !.drag = DragOf(kind)]))
<1> DEFINE f == [e EXCEPT !.drag = DragOf(kind)]
           g == [e EXCEPT !.selection = ids, !.drag = DragOf(kind)]
<1>1. DragOf(kind) \in Drags /\ DragOf(kind).kind = kind
  BY DEF DragOf, Drags
<1>2. f \in Session /\ SameViews(e, f) /\ g \in Session /\ SameViews(e, g)
  BY <1>1 DEF Good, Session, SameViews
<1>3. /\ f.drag = DragOf(kind) /\ g.drag = DragOf(kind)
      /\ f.tool = e.tool /\ f.wire = e.wire /\ f.place = e.place /\ f.readOnly = e.readOnly
      /\ g.tool = e.tool /\ g.wire = e.wire /\ g.place = e.place /\ g.readOnly = e.readOnly
  BY DEF Good, Session
<1> HIDE DEF f, g
<1>4. Fits(f) /\ Fits(g)
  BY <1>1, <1>3 DEF Good, Fits, IsDragging
<1>5. Good(Emit(f)) /\ Good(Emit(g))
  BY <1>2, <1>4, EmitGood
<1>6. QED
  BY <1>5 DEF f, g

LEMMA SelectDownGood ==
    ASSUME NEW e, Good(e), e.tool = "select", NEW f \in SelectDowns(e)
    PROVE  Good(f)
<1> DEFINE none == Emit([e EXCEPT !.selection = {}])
<1>0. e.items \subseteq SheetIds /\ e.selection \subseteq SheetIds /\ e.readOnly \in BOOLEAN
  BY DEF Good, Session
<1>1. CASE f = Emit([e EXCEPT !.drag = DragOf("window")])
  BY <1>1, PressGood
<1>2. CASE f = Emit([none EXCEPT !.drag = DragOf("window")])
  <2> DEFINE g == [e EXCEPT !.selection = {}]
  <2>1. g \in Session /\ SameViews(e, g)
    BY DEF Good, Session, SameViews
  <2>2. Fits(g) /\ g.tool = "select"
    BY DEF Good, Session, Fits, IsDragging
  <2>3. none = Emit(g)
    OBVIOUS
  <2> HIDE DEF g, none
  <2>4. Good(none) /\ none.tool = "select"
    BY <2>1, <2>2, <2>3, EmitGood DEF SameSession
  <2>5. QED
    BY <1>2, <2>4, PressGood
<1>3. ASSUME NEW id \in e.items
      PROVE  LET picked == IF id \in e.selection THEN e.selection ELSE {id}
                 toggled == IF id \in e.selection THEN e.selection \ {id} ELSE e.selection \cup {id}
             IN /\ Good(Emit([e EXCEPT !.selection = toggled]))
                /\ Good(Emit([e EXCEPT !.selection = {id}]))
                /\ ~e.readOnly => /\ Good(Emit([e EXCEPT !.selection = picked, !.drag = DragOf("move")]))
                                  /\ Good(Emit([e EXCEPT !.selection = picked, !.drag = DragOf("segment")]))
  <2> DEFINE picked == IF id \in e.selection THEN e.selection ELSE {id}
             toggled == IF id \in e.selection THEN e.selection \ {id} ELSE e.selection \cup {id}
  <2>1. picked \in SUBSET SheetIds /\ toggled \in SUBSET SheetIds /\ {id} \in SUBSET SheetIds
    BY <1>0
  <2> HIDE DEF picked, toggled
  <2>2. /\ Good(Emit([e EXCEPT !.selection = toggled]))
        /\ Good(Emit([e EXCEPT !.selection = {id}]))
    BY <2>1, SelectGood
  <2>3. ASSUME ~e.readOnly
        PROVE  /\ Good(Emit([e EXCEPT !.selection = picked, !.drag = DragOf("move")]))
               /\ Good(Emit([e EXCEPT !.selection = picked, !.drag = DragOf("segment")]))
    BY <2>1, <2>3, PressGood
  <2>4. QED
    BY <2>2, <2>3 DEF picked, toggled
<1>4. QED
  BY <1>1, <1>2, <1>3 DEF SelectDowns

LEMMA PointerDownGood ==
    ASSUME NEW e, Good(e), NEW f \in PointerDowns(e)
    PROVE  Good(f)
<1>0. e.tool \in Tools
  BY DEF Good, Session
<1>1. CASE e.tool = "wire"
  BY <1>1, WireClickGood DEF PointerDowns
<1>2. CASE e.tool = "place"
  BY <1>2, PlaceClickGood DEF PointerDowns
<1>3. CASE e.tool \in {"label", "note"}
  <2>1. ~IsDragging(e) /\ e.drag.kind # "window"
    BY <1>3 DEF Good, Fits
  <2>2. f \in AddItem(e)
    BY <1>3 DEF PointerDowns
  <2>3. QED
    BY <1>3, <2>1, <2>2, AddItemGood
<1>4. CASE e.tool = "measure"
  <2> DEFINE m == IF e.measure = "open" THEN "fixed" ELSE "open"
  <2>1. f = Emit([e EXCEPT !.measure = m])
    BY <1>4 DEF PointerDowns
  <2>2. m \in {"none", "open", "fixed"}
    OBVIOUS
  <2> HIDE DEF m
  <2>3. QED
    BY <2>1, <2>2, MeasureGood
<1>5. CASE e.tool = "equipment"
  <2> DEFINE g == [e EXCEPT !.drag = DragOf("window"), !.draft = FALSE]
  <2>1. f = Emit(g)
    BY <1>5 DEF PointerDowns
  <2>2. DragOf("window") \in Drags /\ DragOf("window").kind = "window"
    BY DEF DragOf, Drags
  <2>3. g \in Session /\ SameViews(e, g)
    BY <2>2 DEF Good, Session, SameViews
  <2>4. /\ g.drag = DragOf("window") /\ g.tool = e.tool /\ g.wire = e.wire /\ g.place = e.place
        /\ g.readOnly = e.readOnly
    BY DEF Good, Session
  <2> HIDE DEF g
  <2>5. Fits(g)
    BY <1>5, <2>2, <2>4 DEF Good, Fits, IsDragging
  <2>6. QED
    BY <2>1, <2>3, <2>5, EmitGood
<1>6. CASE e.tool = "select"
  BY <1>6, SelectDownGood DEF PointerDowns
<1>7. QED
  BY <1>0, <1>1, <1>2, <1>3, <1>4, <1>5, <1>6 DEF Tools

LEMMA DragStepGood ==
    ASSUME NEW e, Good(e), NEW f \in DragSteps(e)
    PROVE  Good(f)
<1>1. CASE f = Emit([DispatchOn(e, e.items) EXCEPT !.drag.moved = e.drag.kind = "move"])
  <2> DEFINE s == DispatchOn(e, e.items)
             moved == e.drag.kind = "move"
             g == [s EXCEPT !.drag.moved = moved]
  <2>1. Good(s) /\ s.drag = e.drag
    BY DispatchFacts DEF Good, Session
  <2>2. moved \in BOOLEAN
    OBVIOUS
  <2>3. f = Emit(g)
    BY <1>1
  <2> HIDE DEF s, moved
  <2>4. g \in Session /\ SameViews(s, g) /\ g.drag.kind = s.drag.kind
    BY <2>1, <2>2 DEF Good, Session, SameViews, Drags
  <2>5. g.tool = s.tool /\ g.wire = s.wire /\ g.place = s.place /\ g.readOnly = s.readOnly
    BY <2>1 DEF Good, Session
  <2> HIDE DEF g
  <2>6. Fits(g)
    BY <2>1, <2>4, <2>5 DEF Good, Fits, IsDragging
  <2>7. QED
    BY <2>1, <2>3, <2>4, <2>6, EmitGood
<1>2. QED
  BY <1>1, EmitOnly DEF DragSteps

LEMMA PointerMoveGood ==
    ASSUME NEW e, Good(e), NEW f \in PointerMoves(e)
    PROVE  Good(f)
<1> DEFINE g == [e EXCEPT !.draft = TRUE]
<1>1. Good(Emit(g))
  <2>1. g \in Session /\ SameViews(e, g)
    BY DEF Good, Session, SameViews
  <2>2. Fits(g)
    BY DEF Good, Session, Fits, IsDragging
  <2> HIDE DEF g
  <2>3. QED
    BY <2>1, <2>2, EmitGood
<1>2. \/ f = Emit(g) \/ f = Emit(e) \/ f = e \/ f \in DragSteps(e)
  BY DEF PointerMoves
<1>3. QED
  BY <1>1, <1>2, EmitOnly, DragStepGood

LEMMA NarrowGood ==
    ASSUME NEW e, Good(e), NEW ids \in SUBSET SheetIds
    PROVE  Good(Emit([e EXCEPT !.drag = NoDragging, !.selection = ids]))
<1> DEFINE g == [e EXCEPT !.drag = NoDragging, !.selection = ids]
<1>1. g \in Session /\ SameViews(e, g)
  BY DEF Good, Session, SameViews, NoDragging, Drags
<1>2. Fits(g)
  BY DEF Good, Session, Fits, IsDragging, NoDragging
<1> HIDE DEF g
<1>3. Good(Emit(g))
  BY <1>1, <1>2, EmitGood
<1>4. QED
  BY <1>3 DEF g

LEMMA WindowEndGood ==
    ASSUME NEW e, Good(e), NEW f \in WindowEnds(e)
    PROVE  Good(f)
<1> DEFINE selections == (SUBSET e.items) \cup {e.selection \cup picked : picked \in SUBSET e.items}
           ends(ids) == Emit([e EXCEPT !.drag = NoDragging, !.selection = ids])
<1>1. WindowEnds(e) = {ends(ids) : ids \in selections}
  BY DEF WindowEnds
<1>2. selections \subseteq SUBSET SheetIds
  BY DEF Good, Session
<1>3. \A ids \in SUBSET SheetIds : Good(ends(ids))
  BY NarrowGood
<1> HIDE DEF ends, selections
<1>4. QED
  BY <1>1, <1>2, <1>3

LEMMA EquipmentEndGood ==
    ASSUME NEW e, Good(e), e.tool = "equipment", NEW f \in EquipmentEnds(e)
    PROVE  Good(f)
<1> DEFINE d == [e EXCEPT !.drag = NoDragging, !.draft = FALSE]
<1>1. d \in Session /\ SameViews(e, d)
  BY DEF Good, Session, SameViews, NoDragging, Drags
<1>2. Fits(d) /\ d.tool = e.tool /\ d.drag = NoDragging
  BY DEF Good, Session, Fits, IsDragging, NoDragging
<1>3. f \in {Emit(d)} \cup AddItem(Emit(d))
  BY DEF EquipmentEnds
<1> HIDE DEF d
<1>4. Good(Emit(d)) /\ Emit(d).tool = e.tool /\ Emit(d).drag = NoDragging
  BY <1>1, <1>2, EmitGood DEF SameSession
<1>5. ~IsDragging(Emit(d)) /\ Emit(d).drag.kind # "window" /\ Emit(d).tool \notin {"wire", "place"}
  BY <1>4 DEF IsDragging, NoDragging
<1>6. QED
  BY <1>3, <1>4, <1>5, AddItemGood

LEMMA DragEndGood ==
    ASSUME NEW e, Good(e), NEW f \in DragEnds(e)
    PROVE  Good(f)
<1> DEFINE ends(hit) == Emit([e EXCEPT !.drag = NoDragging, !.selection = {hit}])
           ended == Emit([e EXCEPT !.drag = NoDragging])
<1>1. f = ended \/ \E hit \in e.items : f = ends(hit)
  <2> DEFINE many == e.drag.kind = "move" /\ ~e.drag.moved /\ Cardinality(e.selection) > 1
  <2>1. DragEnds(e) = {ended} \cup (IF many THEN {ends(hit) : hit \in e.items} ELSE {})
    BY DEF DragEnds
  <2> HIDE DEF ended, ends, many
  <2>2. QED
    BY <2>1
<1>2. Good(ended)
  BY NoDragGood
<1>3. \A hit \in e.items : Good(ends(hit))
  <2>1. \A hit \in e.items : {hit} \in SUBSET SheetIds
    BY DEF Good, Session
  <2>2. QED
    BY <2>1, NarrowGood
<1> HIDE DEF ends, ended
<1>4. QED
  BY <1>1, <1>2, <1>3

LEMMA PointerUpGood ==
    ASSUME NEW e, Good(e), NEW f \in PointerUps(e)
    PROVE  Good(f)
<1>1. CASE e.drag.kind = "none"
  BY <1>1 DEF PointerUps
<1>2. CASE e.drag.kind = "window" /\ e.tool = "equipment"
  BY <1>2, EquipmentEndGood DEF PointerUps
<1>3. CASE e.drag.kind = "window" /\ e.tool # "equipment"
  BY <1>3, WindowEndGood DEF PointerUps
<1>4. CASE e.drag.kind \notin {"none", "window"}
  BY <1>4, DragEndGood DEF PointerUps
<1>5. QED
  BY <1>1, <1>2, <1>3, <1>4

LEMMA DoubleClickGood ==
    ASSUME NEW e, Good(e), NEW f \in DoubleClicks(e)
    PROVE  Good(f)
BY FinishWireGood DEF DoubleClicks

LEMMA FirstGood ==
    ASSUME NEW readOnly \in BOOLEAN
    PROVE  Good(FirstEditor(readOnly))
<1> DEFINE e == FirstEditor(readOnly)
<1>1. 0 \in {Cardinality(ids) : ids \in SUBSET SheetIds}
  <2>1. Cardinality({}) = 0 /\ {} \in SUBSET SheetIds
    BY FS_EmptySet
  <2>2. QED
    BY <2>1
<1>2. << >> \in Seq(SUBSET SheetIds)
  OBVIOUS
<1>3. e \in Session
  BY <1>1, <1>2, EditorAssumption DEF FirstEditor, Session, NoDragging, Drags, Tools
<1>4. Fits(e) /\ Settled(e) /\ Follows(e) /\ ~e.stale
  BY DEF FirstEditor, Fits, Settled, Follows, IsDragging, NoDragging, ReadOnlyTools
<1>5. QED
  BY <1>3, <1>4 DEF Good

LEMMA PressKeeps ==
    ASSUME Good(editor), NEW button, Press(button) \/ Release(button)
    PROVE  Good(editor')
<1>1. \/ editor' = editor
      \/ editor' \in PointerDowns(editor)
      \/ editor' \in PointerMoves(editor)
      \/ editor' \in PointerUps(editor)
  BY DEF Press, Release
<1>2. QED
  BY <1>1, PointerDownGood, PointerMoveGood, PointerUpGood

LEMMA SelectKeeps ==
    ASSUME Good(editor), Select
    PROVE  Good(editor')
<1>1. ASSUME NEW ids \in SUBSET editor.items, editor' = Emit([editor EXCEPT !.selection = ids])
      PROVE  Good(editor')
  <2>1. ids \in SUBSET SheetIds
    BY DEF Good, Session
  <2>2. QED
    BY <1>1, <2>1, SelectGood
<1>2. ASSUME NEW id \in SheetIds, editor' = Emit([SetTool(editor, "select") EXCEPT !.selection = {id}])
      PROVE  Good(editor')
  <2>1. Good(SetTool(editor, "select")) /\ {id} \in SUBSET SheetIds
    BY SetToolGood DEF Tools
  <2>2. QED
    BY <1>2, <2>1, SelectGood
<1>3. ASSUME NEW id \in SheetIds, editor' = Emit([editor EXCEPT !.selection = {id}])
      PROVE  Good(editor')
  BY <1>3, SelectGood
<1>4. QED
  BY <1>1, <1>2, <1>3 DEF Select

LEMMA EditsKeep ==
    ASSUME Good(editor), DeleteSelection \/ UpdateItems
    PROVE  Good(editor')
<1>1. editor.items \in SUBSET SheetIds /\ editor.items \ editor.selection \in SUBSET SheetIds
  BY DEF Good, Session
<1>2. CASE DeleteSelection
  BY <1>1, <1>2, DispatchFacts DEF DeleteSelection
<1>3. CASE UpdateItems
  BY <1>1, <1>3, DispatchFacts, EmitOnly DEF UpdateItems
<1>4. QED
  BY <1>2, <1>3

LEMMA ClipboardGood ==
    ASSUME NEW e, Good(e), NEW n \in {Cardinality(ids) : ids \in SUBSET SheetIds}
    PROVE  Good([e EXCEPT !.clipboard = n])
<1> DEFINE f == [e EXCEPT !.clipboard = n]
<1>1. f \in Session
  BY DEF Good, Session
<1>2. SameViews(e, f)
  BY DEF Good, Session, SameViews
<1>3. f.wire = e.wire /\ f.tool = e.tool /\ f.place = e.place /\ f.drag = e.drag /\ f.readOnly = e.readOnly
  BY DEF Good, Session
<1> HIDE DEF f
<1>4. Good(f)
  BY <1>1, <1>2, <1>3 DEF Good, SameViews, Fits, Settled, Follows, IsDragging
<1>5. QED
  BY <1>4 DEF f

LEMMA CopyKeeps ==
    ASSUME Good(editor), CopySelection
    PROVE  Good(editor')
<1> DEFINE n == Cardinality(editor.selection \cap editor.items)
<1>1. n \in {Cardinality(ids) : ids \in SUBSET SheetIds}
  BY DEF Good, Session
<1>2. QED
  BY <1>1, ClipboardGood DEF CopySelection

LEMMA AddCopiesKeep ==
    ASSUME Good(editor), NEW count, AddCopies(count)
    PROVE  Good(editor')
<1>1. PICK ids \in SUBSET FreshIds(editor) : editor' = Selecting(editor, editor.items \cup ids, ids)
  BY DEF AddCopies
<1>2. ids \in SUBSET SheetIds /\ editor.items \cup ids \in SUBSET SheetIds
  BY DEF FreshIds, Good, Session
<1>3. QED
  BY <1>1, <1>2, SelectingGood

\* Whatever document an undo or a redo puts in its place, everything is told of it.
LEMMA ReplacedGood ==
    ASSUME NEW e, Good(e), ~e.readOnly, NEW items \in SUBSET SheetIds, NEW past \in Seq(SUBSET SheetIds),
           NEW future \in Seq(SUBSET SheetIds)
    PROVE  Good(OnDocumentChanged([e EXCEPT !.no = @ + 1, !.items = items, !.past = past, !.future = future]))
<1> DEFINE n == e.no + 1
           f == [e EXCEPT !.no = n, !.items = items, !.past = past, !.future = future]
<1>1. n \in Nat
  BY DEF Good, Session
<1> HIDE DEF n
<1>2. f \in Session /\ f.panel = e.panel
  BY <1>1 DEF Good, Session
<1>3. f.tool = e.tool /\ f.wire = e.wire /\ f.place = e.place /\ f.drag = e.drag /\ f.readOnly = e.readOnly
  BY DEF Good, Session
<1> HIDE DEF f
<1>4. e.panel.conn = e.panel.doc /\ Fits(e)
  BY DEF Good, Settled
<1>5. Good(OnDocumentChanged(f))
  BY <1>2, <1>3, <1>4, ChangedFacts DEF Good, Fits, IsDragging
<1>6. QED
  BY <1>5 DEF f, n

LEMMA CountedGood ==
    ASSUME NEW e, Good(e)
    PROVE  Good(OnDocumentChanged([e EXCEPT !.no = @ + 1]))
<1> DEFINE n == e.no + 1
           f == [e EXCEPT !.no = n]
<1>1. n \in Nat
  BY DEF Good, Session
<1> HIDE DEF n
<1>2. f \in Session /\ f.panel = e.panel
  BY <1>1 DEF Good, Session
<1>3. f.tool = e.tool /\ f.wire = e.wire /\ f.place = e.place /\ f.drag = e.drag /\ f.readOnly = e.readOnly
  BY DEF Good, Session
<1> HIDE DEF f
<1>4. e.panel.conn = e.panel.doc /\ Fits(e)
  BY DEF Good, Settled
<1>5. Good(OnDocumentChanged(f))
  BY <1>2, <1>3, <1>4, ChangedFacts DEF Good, Fits, IsDragging
<1>6. QED
  BY <1>5 DEF f, n

LEMMA UndoKeeps ==
    ASSUME Good(editor), UndoEdit \/ RedoEdit
    PROVE  Good(editor')
<1> DEFINE counted == [editor EXCEPT !.no = @ + 1]
<1>0. /\ editor.past \in Seq(SUBSET SheetIds) /\ editor.future \in Seq(SUBSET SheetIds)
      /\ editor.items \in SUBSET SheetIds /\ editor \in Session
  BY DEF Good, Session
<1>1. /\ counted.past = editor.past /\ counted.future = editor.future /\ counted.items = editor.items
  BY <1>0 DEF Session
<1>2. ASSUME UndoEdit, editor.past # << >>,
             editor' = OnDocumentChanged([counted EXCEPT !.items = editor.past[Len(editor.past)],
                                            !.past = SubSeq(@, 1, Len(@) - 1), !.future = Append(@, editor.items)])
      PROVE  Good(editor')
  <2> DEFINE items == editor.past[Len(editor.past)]
             past == SubSeq(editor.past, 1, Len(editor.past) - 1)
             future == Append(editor.future, editor.items)
             f == [editor EXCEPT !.no = @ + 1, !.items = items, !.past = past, !.future = future]
  <2>1. items \in SUBSET SheetIds /\ past \in Seq(SUBSET SheetIds) /\ future \in Seq(SUBSET SheetIds)
    BY <1>0, <1>2
  <2>2. editor' = OnDocumentChanged(f)
    BY <1>0, <1>1, <1>2 DEF Session
  <2>3. ~editor.readOnly
    BY <1>2 DEF UndoEdit
  <2> HIDE DEF items, past, future
  <2>4. Good(OnDocumentChanged(f))
    BY <2>1, <2>3, ReplacedGood
  <2>5. QED
    BY <2>2, <2>4
<1>3. ASSUME RedoEdit, editor.future # << >>,
             editor' = OnDocumentChanged([counted EXCEPT !.items = editor.future[Len(editor.future)],
                                            !.future = SubSeq(@, 1, Len(@) - 1), !.past = Append(@, editor.items)])
      PROVE  Good(editor')
  <2> DEFINE items == editor.future[Len(editor.future)]
             future == SubSeq(editor.future, 1, Len(editor.future) - 1)
             past == Append(editor.past, editor.items)
             f == [editor EXCEPT !.no = @ + 1, !.items = items, !.past = past, !.future = future]
  <2>1. items \in SUBSET SheetIds /\ past \in Seq(SUBSET SheetIds) /\ future \in Seq(SUBSET SheetIds)
    BY <1>0, <1>3
  <2>2. editor' = OnDocumentChanged(f)
    BY <1>0, <1>1, <1>3 DEF Session
  <2>3. ~editor.readOnly
    BY <1>3 DEF RedoEdit
  <2> HIDE DEF items, past, future
  <2>4. Good(OnDocumentChanged(f))
    BY <2>1, <2>3, ReplacedGood
  <2>5. QED
    BY <2>2, <2>4
<1>4. ASSUME editor' = OnDocumentChanged(counted)
      PROVE  Good(editor')
  BY <1>4, CountedGood
<1>5. QED
  BY <1>1, <1>2, <1>3, <1>4 DEF UndoEdit, RedoEdit

LEMMA FrameKeeps ==
    ASSUME Good(editor), FrameRuns
    PROVE  Good(editor')
<1> DEFINE f == [editor EXCEPT !.frame = FALSE]
           c == WithConnectivity(f)
<1>1. /\ f \in Session /\ SameSession(editor, f) /\ f.stale = editor.stale /\ f.conn = editor.conn
      /\ f.shown = editor.shown /\ f.panel = editor.panel
  BY DEF Good, Session, SameSession
<1>2. editor' = IF c.shown.conn # c.conn THEN Emit(c) ELSE c
  BY DEF FrameRuns
<1> HIDE DEF f
<1>3. /\ c \in Session /\ SameSession(f, c) /\ ~c.stale /\ c.conn = f.no /\ c.shown = f.shown /\ c.panel = f.panel
  BY <1>1, WithConnectivityFacts DEF Good, Settled, SameSession
<1> HIDE DEF c
<1>4. /\ SameSession(editor, c) /\ Settled(c) /\ c.no = editor.no
  BY <1>1, <1>3 DEF SameSession, Settled, Good
<1>5. CASE c.shown.conn # c.conn
  <2>1. /\ Emit(c) \in Session /\ SameSession(c, Emit(c)) /\ Settled(Emit(c)) /\ Follows(Emit(c))
        /\ (Emit(c).stale => IsDragging(c))
    BY <1>3, <1>4, EmitFacts
  <2>2. Fits(Emit(c))
    BY <1>4, <2>1, FitsSame DEF Good
  <2>3. QED
    BY <1>2, <1>5, <2>1, <2>2 DEF Good, SameSession, IsDragging
<1>6. CASE c.shown.conn = c.conn
  BY <1>1, <1>2, <1>3, <1>4, <1>6, FitsSame DEF Good, Follows, SameSession, IsDragging
<1>7. QED
  BY <1>5, <1>6

LEMMA PanelKeeps ==
    ASSUME Good(editor), OpenPanel \/ ClosePanel \/ IntervalPasses \/ TimerFires
    PROVE  Good(editor')
<1>1. ASSUME NEW e, Good(e)
      PROVE  /\ Good([e EXCEPT !.panel.on = FALSE, !.panel.timer = FALSE])
             /\ Good([e EXCEPT !.panel.fresh = FALSE])
             /\ Good(Flushed(e))
  <2> DEFINE f == [e EXCEPT !.panel.on = FALSE, !.panel.timer = FALSE]
             g == [e EXCEPT !.panel.fresh = FALSE]
  <2>1. f \in Session /\ SameSession(e, f) /\ g \in Session /\ SameSession(e, g)
    BY <1>1 DEF Good, Session, SameSession
  <2>2. /\ f.conn = e.conn /\ f.stale = e.stale /\ f.frame = e.frame /\ f.shown = e.shown
        /\ f.panel.on = FALSE /\ f.panel.doc = e.panel.doc /\ f.panel.conn = e.panel.conn
        /\ g.conn = e.conn /\ g.stale = e.stale /\ g.frame = e.frame /\ g.shown = e.shown
        /\ g.panel.on = e.panel.on /\ g.panel.doc = e.panel.doc /\ g.panel.conn = e.panel.conn
        /\ g.panel.timer = e.panel.timer
    BY <1>1 DEF Good, Session
  <2> HIDE DEF f, g
  <2>3. Good(f) /\ Good(g)
    BY <1>1, <2>1, <2>2, FitsSame DEF Good, Settled, Follows, SameSession, IsDragging
  <2>4. Good(Flushed(e))
    BY <1>1, FlushedFacts, FitsSame DEF Good, Settled, Follows, SameSession, IsDragging
  <2>5. QED
    BY <2>3, <2>4 DEF f, g
<1>2. CASE OpenPanel
  <2> DEFINE was == IsDragging(editor)
             f == [editor EXCEPT !.panel.on = TRUE, !.panel.was = was]
  <2>0. was \in BOOLEAN
    BY DEF IsDragging
  <2>1. editor' = TakenBy(f)
    BY <1>2 DEF OpenPanel
  <2> HIDE DEF was
  <2>2. /\ f \in Session /\ SameSession(editor, f) /\ f.conn = editor.conn /\ f.stale = editor.stale
        /\ f.frame = editor.frame /\ f.shown = editor.shown
        /\ f.panel.doc = editor.panel.doc /\ f.panel.conn = editor.panel.conn
    BY <2>0 DEF Good, Session, SameSession
  <2> HIDE DEF f
  <2>3. QED
    BY <2>1, <2>2, TakenByFacts, FitsSame DEF Good, Settled, Follows, SameSession, IsDragging
<1>3. CASE ClosePanel
  BY <1>1, <1>3 DEF ClosePanel
<1>4. CASE IntervalPasses
  BY <1>1, <1>4 DEF IntervalPasses
<1>5. CASE TimerFires
  BY <1>1, <1>5 DEF TimerFires
<1>6. QED
  BY <1>2, <1>3, <1>4, <1>5

LEMMA StepGood ==
    ASSUME Good(editor), [EditorNext]_editorVars
    PROVE  Good(editor')
<1>1. ASSUME NEW button \in Buttons, Press(button) \/ Release(button)
      PROVE  Good(editor')
  BY <1>1, PressKeeps
<1>2. CASE MovePointer
  BY <1>2, PointerMoveGood DEF MovePointer
<1>3. CASE DoubleClick
  BY <1>3, DoubleClickGood DEF DoubleClick
<1>4. CASE PickTool
  BY <1>4, SetToolGood, StartPlacingGood, CancelledGood DEF PickTool
<1>5. CASE ChangeReadOnly
  BY <1>5, SetReadOnlyGood DEF ChangeReadOnly
<1>6. CASE EnterKey
  BY <1>6, FinishWireGood DEF EnterKey
<1>7. CASE Select
  BY <1>7, SelectKeeps
<1>8. CASE DeleteSelection \/ UpdateItems
  BY <1>8, EditsKeep
<1>9. CASE CopySelection
  BY <1>9, CopyKeeps
<1>10. CASE PasteItems \/ DuplicateSelection
  BY <1>10, AddCopiesKeep DEF PasteItems, DuplicateSelection
<1>11. CASE UndoEdit \/ RedoEdit
  BY <1>11, UndoKeeps
<1>12. CASE SetRegistry
  BY <1>12, CountedGood DEF SetRegistry
<1>13. CASE FrameRuns
  BY <1>13, FrameKeeps
<1>14. CASE OpenPanel \/ ClosePanel \/ IntervalPasses \/ TimerFires
  BY <1>14, PanelKeeps
<1>15. CASE UNCHANGED editorVars
  BY <1>15 DEF editorVars
<1>16. QED
  BY <1>1, <1>2, <1>3, <1>4, <1>5, <1>6, <1>7, <1>8, <1>9, <1>10, <1>11, <1>12, <1>13, <1>14, <1>15
     DEF EditorNext

LEMMA AlwaysGood == EditorSpec => []Good(editor)
<1>1. EditorInit => Good(editor)
  BY FirstGood DEF EditorInit
<1>2. Good(editor) /\ [EditorNext]_editorVars => Good(editor)'
  BY StepGood
<1>3. QED
  BY <1>1, <1>2, PTL DEF EditorSpec

\* Whatever the order of tools, pointer, keyboard, undo and locking: a line, a placement or a
\* drag is in progress only under the tool that ends it, and none that would change a
\* read-only sheet (setTool, cancel, setReadOnly, pointerUp).
THEOREM GesturesStayFit == EditorSpec => []GesturesFitTool
<1>1. Good(editor) => GesturesFitTool
  BY DEF Good, Fits, GesturesFitTool
<1>2. QED
  BY <1>1, AlwaysGood, PTL

\* However edits, drags, frames, panels and timers interleave: the canvas shows the document
\* as it is, what it derives lags only during a drag with a frame to come, and an outdated
\* panel has a timer set (onDocumentChanged, setState, SettledStore).
THEOREM ViewsKeepUp == EditorSpec => []ViewsFollowDocument
<1>1. Good(editor) => ViewsFollowDocument
  BY DEF Good, Settled, Follows, ViewsFollowDocument
<1>2. QED
  BY <1>1, AlwaysGood, PTL
=============================================================================
