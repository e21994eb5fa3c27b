------------------------- MODULE DraftingPageProofs -------------------------
(***************************************************************************)
(* Theorems about DraftingPage, for any drawings, sheets and edits, and    *)
(* any number of calls under way and of events.                            *)
(***************************************************************************)
EXTENDS DraftingPage, FiniteSetTheorems, WellFoundedInduction, TLAPS

-----------------------------------------------------------------------------
(* The invariants.                                                         *)

LiveReindex(j) == j.kind = "reindex" /\ j.live

\* The run r, of drawing d, waits exactly while a re-index of its own is among the
\* calls js, and there is one at most.
RunFits(r, d, js) ==
    /\ r # NoRun => /\ r.drawing = d
                    /\ r.pump = "await" <=> \E j \in js : LiveReindex(j)
    /\ \A j \in js : LiveReindex(j) => r # NoRun
    /\ \A i, j \in js : LiveReindex(i) /\ LiveReindex(j) => i = j

\* Only some calls read, and an answer that carries a drawing list has one.
CallFits(j) ==
    /\ j.step = "reading" => j.kind \in {"list", "reindex", "add", "refresh"}
    /\ j.kind \in {"add", "refresh"} /\ j.step = "read" => j.view \in View
    /\ j.kind = "workflow" /\ j.step = "stored" => j.view \in View

\* The answer to a save or a commit that is waited for finds a session.
Awaited(j) == j.kind \in {"save", "open"} /\ j.live => page.session # NoSession

Typed ==
    /\ TypeOK
    /\ RunFits(run, page.drawing, jobs)
    /\ \A j \in jobs : CallFits(j) /\ Awaited(j)
    /\ catalog <= events

-----------------------------------------------------------------------------
(* Effects.                                                                *)

LEMMA SmallestIsIn ==
    ASSUME NEW S \in SUBSET Sheets, S # {}
    PROVE  Smallest(S) \in S
<1> DEFINE below(s) == {r \in S : r <= s}
           all == {below(s) : s \in S}
<1>1. S \subseteq Nat /\ IsFiniteSet(Sheets)
  BY ConstantsAssumption
<1>2. IsWellFoundedOn(StrictSubsetOrdering(Sheets), SUBSET Sheets)
  BY <1>1, FS_StrictSubsetOrderingWellFounded, FS_FiniteSubsetsOfFinite
<1>3. all \subseteq SUBSET Sheets /\ all # {}
  OBVIOUS
<1>4. PICK T \in all : \A U \in all : <<U, T>> \notin StrictSubsetOrdering(Sheets)
  <2> HIDE DEF all
  <2>1. QED
    BY <1>2, <1>3, WFMin
<1>5. PICK s \in S : T = below(s)
  BY <1>4
<1>6. ASSUME NEW r \in S
      PROVE  s <= r
  <2>1. SUFFICES ASSUME ~(s <= r) PROVE FALSE
    OBVIOUS
  <2>2. r < s
    BY <1>1, <2>1
  <2>3. below(r) \subseteq below(s) /\ s \in below(s) /\ s \notin below(r)
    <3>1. \A x \in S : x <= r => x <= s
      BY <1>1, <2>2
    <3>2. s <= s /\ ~(s <= r)
      BY <1>1, <2>2
    <3>3. QED
      BY <3>1, <3>2
  <2>4. below(r) \in all /\ below(r) \in SUBSET Sheets /\ below(s) \in SUBSET Sheets
    OBVIOUS
  <2>5. QED
    BY <2>3, <2>4, <1>4, <1>5 DEF StrictSubsetOrdering
<1>7. QED
  BY <1>6 DEF Smallest

LEMMA ServerViewType ==
    ASSUME rows \in [Sheets -> Row], released \in SUBSET Drawings
    PROVE  ServerView \in View
  BY DEF ServerView, View

LEMMA WithSheetType ==
    ASSUME NEW p \in Page, NEW s \in Sheets \cup {NoSheet}
    PROVE  /\ WithSheet(p, s) \in Page
           /\ WithSheet(p, s).drawing = p.drawing
           /\ WithSheet(p, s).sheet = s
           /\ WithSheet(p, s).session \in {p.session, NoSession}
           /\ WithSheet(p, s).load # NoLoad =>
                 \/ s = p.sheet /\ WithSheet(p, s).load = p.load
                 \/ WithSheet(p, s).load = [sheet |-> s, read |-> FALSE, found |-> {}]
<1>1. CASE s = p.sheet
  BY <1>1 DEF WithSheet
<1>2. CASE s # p.sheet /\ s = NoSheet
  BY <1>2 DEF WithSheet, Page
<1>3. CASE s # p.sheet /\ s # NoSheet
  <2>1. [sheet |-> s, read |-> FALSE, found |-> {}] \in Load
    BY <1>3 DEF Load, Docs
  <2>2. QED
    BY <1>3, <2>1 DEF WithSheet, Page
<1>4. QED
  BY <1>1, <1>2, <1>3

\* What a change of the sheet shown leaves of page p: the session or none, the load of
\* the same sheet or a new one.
Shows(p, q) ==
    /\ q \in Page
    /\ q.session \in {p.session, NoSession}
    /\ q.load # NoLoad => /\ q.load.sheet = q.sheet
                          /\ q.load = p.load \/ q.load.found = {}

LEMMA SheetShown ==
    ASSUME NEW p \in Page, p.load # NoLoad => p.load.sheet = p.sheet,
           NEW s \in Sheets \cup {NoSheet}
    PROVE  Shows(p, WithSheet(p, s))
<1> DEFINE q == WithSheet(p, s)
<1>1. q \in Page /\ q.sheet = s /\ q.session \in {p.session, NoSession}
  BY WithSheetType
<1>2. ASSUME q.load # NoLoad
      PROVE  q.load.sheet = s /\ (q.load = p.load \/ q.load.found = {})
  <2>1. CASE s = p.sheet /\ q.load = p.load
    BY <1>2, <2>1
  <2>2. CASE q.load = [sheet |-> s, read |-> FALSE, found |-> {}]
    BY <2>2
  <2>3. QED
    BY <1>2, <2>1, <2>2, WithSheetType
<1>3. QED
  BY <1>1, <1>2 DEF Shows

LEMMA FirstSheetShown ==
    ASSUME NEW p \in Page, p.load # NoLoad => p.load.sheet = p.sheet
    PROVE  Shows(p, WithFirstSheet(p)) /\ WithFirstSheet(p).drawing = p.drawing
<1> DEFINE own == SheetsIn(p.view, p.drawing)
<1>1. own \in SUBSET Sheets
  BY DEF Page, View, SheetsIn
<1>2. (IF own = {} THEN NoSheet ELSE Smallest(own)) \in Sheets \cup {NoSheet}
  BY <1>1, SmallestIsIn
<1>3. Shows(p, p)
  BY DEF Shows
<1> DEFINE s == IF own = {} THEN NoSheet ELSE Smallest(own)
<1>4. Shows(p, WithSheet(p, s)) /\ WithSheet(p, s).drawing = p.drawing
  <2> HIDE DEF s
  <2>1. QED
    BY <1>2, SheetShown, WithSheetType DEF s
<1>5. QED
  BY <1>3, <1>4 DEF WithFirstSheet

LEMMA DrawingShown ==
    ASSUME NEW p \in Page, p.load # NoLoad => p.load.sheet = p.sheet, NEW d \in Drawings
    PROVE  Shows(p, WithDrawing(p, d))
<1> DEFINE q == [p EXCEPT !.drawing = d]
<1>1. /\ q \in Page /\ q.session = p.session /\ q.load = p.load /\ q.sheet = p.sheet
  BY DEF Page
<1>2. Shows(q, WithFirstSheet(q))
  BY <1>1, FirstSheetShown
<1>3. QED
  BY <1>1, <1>2 DEF Shows, WithDrawing

LEMMA ViewShown ==
    ASSUME NEW p \in Page, p.load # NoLoad => p.load.sheet = p.sheet, NEW v \in View
    PROVE  Shows(p, WithView(p, v))
<1> DEFINE q == [p EXCEPT !.view = v]
<1>1. /\ q \in Page /\ q.session = p.session /\ q.load = p.load /\ q.sheet = p.sheet
  BY DEF Page
<1>2. Shows(q, WithFirstSheet(q))
  BY <1>1, FirstSheetShown
<1>3. Shows(p, q)
  BY <1>1 DEF Shows
<1>4. QED
  BY <1>1, <1>2, <1>3 DEF Shows, WithView

LEMMA ReplacedType ==
    ASSUME NEW v \in View, NEW w \in View, NEW d \in Drawings
    PROVE  Replaced(v, w, d) \in View
  BY DEF Replaced, View, SheetsIn, StaleIn

LEMMA IndexedShown ==
    ASSUME NEW p \in Page, p.load # NoLoad => p.load.sheet = p.sheet, NEW s \in Sheets
    PROVE  Shows(p, Indexed(p, s)) /\ Indexed(p, s).session = p.session
  BY DEF Shows, Indexed, Page, View

-----------------------------------------------------------------------------
(* Jobs.                                                                   *)

LEMMA NewJobType ==
    ASSUME NEW kind \in {"save", "reindex", "open", "list", "add", "workflow", "refresh"},
           NEW s \in Sheets, NEW step \in {"queued", "reading", "sent"}, NEW doc \in Docs,
           NEW release \in BOOLEAN
    PROVE  /\ NewJob(kind, s, step, doc) \in Job
           /\ [NewJob(kind, s, step, doc) EXCEPT !.release = release] \in Job
<1>1. 0 \in 0..MaxEvents
  BY ConstantsAssumption
<1>2. NewJob(kind, s, step, doc) \in Job
  BY <1>1 DEF NewJob, Job
<1>3. QED
  BY <1>2 DEF Job

LEMMA NewJobFits ==
    ASSUME NEW kind, NEW s, NEW step \in {"queued", "reading", "sent"}, NEW doc,
           step = "reading" => kind \in {"list", "reindex", "add", "refresh"},
           NEW release
    PROVE  /\ CallFits(NewJob(kind, s, step, doc))
           /\ CallFits([NewJob(kind, s, step, doc) EXCEPT !.release = release])
  BY DEF NewJob, CallFits

\* k is the job j, except that the page may have ceased to wait for it and its sheet may
\* have been touched.
Like(k, j) ==
    /\ k \in Job /\ j \in Job
    /\ k.kind = j.kind /\ k.sheet = j.sheet /\ k.step = j.step /\ k.doc = j.doc
    /\ k.view = j.view /\ k.late = j.late /\ k.release = j.release
    /\ k.live => j.live
    /\ j.touched => k.touched

-----------------------------------------------------------------------------
(* What every change of the page does to the calls under way and the run.  *)

LEMMA BecomeJobs ==
    ASSUME NEW q, NEW now, NEW js \in SUBSET Job, Become(q, now, js)
    PROVE  /\ page' = q
           /\ jobs' \in SUBSET Job
           /\ \A k \in jobs' : \E j \in js :
                 /\ Like(k, j)
                 /\ k.live /\ k.kind \in {"save", "open"} => q.session # NoSession
<1> DEFINE r == RunAfter(q, now)
           kept(j) == \/ j.kind = "reindex" /\ SameRun(r)
                      \/ j.kind \in {"save", "open"} /\ q.session # NoSession
                      \/ j.kind \notin {"reindex", "save", "open"}
           heir(j) == [j EXCEPT !.live = @ /\ kept(j)]
<1>1. page' = q /\ jobs' = {heir(j) : j \in js}
  BY DEF Become
<1>2. ASSUME NEW j \in js
      PROVE  /\ Like(heir(j), j)
             /\ heir(j).live /\ heir(j).kind \in {"save", "open"} => q.session # NoSession
  <2>1. (j.live /\ kept(j)) \in BOOLEAN
    OBVIOUS
  <2>2. heir(j) \in Job
    BY <2>1 DEF Job
  <2>3. heir(j).live = (j.live /\ kept(j))
    BY DEF Job
  <2>4. QED
    BY <2>2, <2>3 DEF Like, Job
<1> HIDE DEF heir
<1>3. jobs' \in SUBSET Job
  BY <1>1, <1>2 DEF Like
<1>4. QED
  BY <1>1, <1>2, <1>3

LEMMA RunAfterType ==
    ASSUME NEW q \in Page, NEW now \in {NoRun} \cup Run
    PROVE  /\ RunAfter(q, now) \in {NoRun} \cup Run
           /\ RunAfter(q, now) # NoRun =>
                 /\ RunAfter(q, now).drawing = q.drawing
                 /\ now = NoRun \/ now.drawing # q.drawing => RunAfter(q, now).pump = "turn"
                 /\ now # NoRun /\ now.drawing = q.drawing =>
                       (RunAfter(q, now).pump = "await" <=> now.pump = "await")
<1>1. NewRun(q.drawing) \in Run /\ NewRun(q.drawing).drawing = q.drawing
                                /\ NewRun(q.drawing).pump = "turn"
  BY DEF NewRun, Run, Page
<1>2. now # NoRun => /\ Woken(now) \in Run /\ Woken(now).drawing = now.drawing
                     /\ Woken(now).pump = "await" <=> now.pump = "await"
  BY DEF Woken, Run
<1>3. QED
  BY <1>1, <1>2 DEF RunAfter

LEMMA BecomeRun ==
    ASSUME NEW q \in Page, NEW now \in {NoRun} \cup Run, NEW js \in SUBSET Job,
           RunFits(now, page.drawing, js), now # NoRun <=> run # NoRun,
           run # NoRun => run.drawing = page.drawing,
           Become(q, now, js)
    PROVE  /\ run' \in {NoRun} \cup Run
           /\ RunFits(run', page'.drawing, jobs')
<1> DEFINE r == RunAfter(q, now)
           kept(j) == \/ j.kind = "reindex" /\ SameRun(r)
                      \/ j.kind \in {"save", "open"} /\ q.session # NoSession
                      \/ j.kind \notin {"reindex", "save", "open"}
           heir(j) == [j EXCEPT !.live = @ /\ kept(j)]
<1>1. page' = q /\ run' = r /\ jobs' = {heir(j) : j \in js}
  BY DEF Become
<1>2. ASSUME NEW j \in js
      PROVE  LiveReindex(heir(j)) <=> LiveReindex(j) /\ SameRun(r)
  <2>1. heir(j).kind = j.kind /\ heir(j).live = (j.live /\ kept(j))
    BY DEF Job
  <2>2. QED
    BY <2>1 DEF LiveReindex
<1> HIDE DEF heir
<1>3. \A i, j \in jobs' : LiveReindex(i) /\ LiveReindex(j) => i = j
  BY <1>1, <1>2 DEF RunFits
<1>4. \A j \in jobs' : LiveReindex(j) => run' # NoRun
  BY <1>1, <1>2 DEF SameRun
<1>5. ASSUME run' # NoRun
      PROVE  run'.pump = "await" <=> \E j \in jobs' : LiveReindex(j)
  <2>1. (\E j \in jobs' : LiveReindex(j)) <=> SameRun(r) /\ \E j \in js : LiveReindex(j)
    BY <1>1, <1>2
  <2>2. SameRun(r) <=> now # NoRun /\ now.drawing = q.drawing
    BY <1>1, <1>5, RunAfterType DEF SameRun, RunFits
  <2>3. CASE now # NoRun /\ now.drawing = q.drawing
    BY <1>1, <1>5, <2>1, <2>2, <2>3, RunAfterType DEF RunFits
  <2>4. CASE now = NoRun \/ now.drawing # q.drawing
    BY <1>1, <1>5, <2>1, <2>2, <2>4, RunAfterType
  <2>5. QED
    BY <2>3, <2>4
<1>6. QED
  BY <1>1, <1>3, <1>4, <1>5, RunAfterType DEF RunFits

-----------------------------------------------------------------------------
(* Calls that fit the run r.                                               *)

Fit(r, js) ==
    /\ js \in SUBSET Job
    /\ \A j \in js : CallFits(j)
    /\ RunFits(r, page.drawing, js)

LEMMA AddedFits ==
    ASSUME NEW r, NEW js, Fit(r, js), NEW x \in Job, CallFits(x), ~LiveReindex(x)
    PROVE  Fit(r, js \cup {x})
<1>1. \A i \in js \cup {x} : LiveReindex(i) => i \in js
  OBVIOUS
<1>2. RunFits(r, page.drawing, js \cup {x})
  BY <1>1 DEF Fit, RunFits
<1>3. QED
  BY <1>2 DEF Fit

LEMMA DroppedFits ==
    ASSUME NEW r, NEW js, Fit(r, js), NEW j, ~LiveReindex(j)
    PROVE  Fit(r, js \ {j})
<1>1. \A i \in js : LiveReindex(i) => i \in js \ {j}
  OBVIOUS
<1>2. RunFits(r, page.drawing, js \ {j})
  BY <1>1 DEF Fit, RunFits
<1>3. QED
  BY <1>2 DEF Fit

\* Each call of js has become another one, and none has begun or ceased to be awaited.
LEMMA ImageFits ==
    ASSUME NEW r, NEW js, Fit(r, js), NEW f,
           \A j \in js : f[j] \in Job /\ CallFits(f[j]) /\ (LiveReindex(f[j]) <=> LiveReindex(j))
    PROVE  Fit(r, {f[j] : j \in js})
<1> DEFINE ks == {f[j] : j \in js}
<1>1. \A k \in ks : \E j \in js : k = f[j] /\ (LiveReindex(k) <=> LiveReindex(j))
  OBVIOUS
<1>2. \A j \in js : f[j] \in ks /\ (LiveReindex(f[j]) <=> LiveReindex(j))
  OBVIOUS
<1>3. ks \in SUBSET Job /\ \A k \in ks : CallFits(k)
  OBVIOUS
<1> HIDE DEF ks
<1>4. RunFits(r, page.drawing, ks)
  BY <1>1, <1>2 DEF Fit, RunFits
<1>5. Fit(r, ks)
  BY <1>3, <1>4 DEF Fit
<1>6. QED
  BY <1>5 DEF ks

LEMMA ReplacedFits ==
    ASSUME NEW r, NEW js, Fit(r, js), NEW j \in js, NEW x \in Job, CallFits(x),
           LiveReindex(x) <=> LiveReindex(j)
    PROVE  Fit(r, (js \ {j}) \cup {x})
<1> DEFINE f == [i \in js |-> IF i = j THEN x ELSE i]
<1>1. \A i \in js : f[i] \in Job /\ CallFits(f[i]) /\ (LiveReindex(f[i]) <=> LiveReindex(i))
  BY DEF Fit
<1>2. {f[i] : i \in js} = (js \ {j}) \cup {x}
  OBVIOUS
<1> HIDE DEF f
<1>3. Fit(r, {f[i] : i \in js})
  BY <1>1, ImageFits
<1>4. QED
  BY <1>2, <1>3

LEMMA TouchedJob ==
    ASSUME NEW js \in SUBSET Job, NEW s
    PROVE  /\ Touched(js, s) \in SUBSET Job
           /\ \A k \in Touched(js, s) : \E j \in js :
                 /\ Like(k, j) /\ k.live = j.live
                 /\ k.kind = "reindex" /\ k.sheet = s => k.touched
<1> DEFINE t(j) == [j EXCEPT !.touched = @ \/ (j.kind = "reindex" /\ j.sheet = s)]
<1>1. ASSUME NEW j \in js
      PROVE  /\ Like(t(j), j) /\ t(j).live = j.live
             /\ t(j).kind = "reindex" /\ t(j).sheet = s => t(j).touched
  <2>1. (j.touched \/ (j.kind = "reindex" /\ j.sheet = s)) \in BOOLEAN
    BY DEF Job
  <2>2. t(j) \in Job
    BY <2>1 DEF Job
  <2>3. t(j).touched = (j.touched \/ (j.kind = "reindex" /\ j.sheet = s))
    BY DEF Job
  <2>4. QED
    BY <2>2, <2>3 DEF Like, Job
<1>2. Touched(js, s) = {t(j) : j \in js}
  BY DEF Touched
<1> HIDE DEF t
<1>3. Touched(js, s) \in SUBSET Job
  BY <1>1, <1>2 DEF Like
<1>4. QED
  BY <1>1, <1>2, <1>3

LEMMA TouchedFits ==
    ASSUME NEW r, NEW js, Fit(r, js), NEW s
    PROVE  Fit(r, Touched(js, s))
<1> DEFINE f == [j \in js |-> [j EXCEPT !.touched = @ \/ (j.kind = "reindex" /\ j.sheet = s)]]
<1>1. ASSUME NEW j \in js
      PROVE  f[j] \in Job /\ CallFits(f[j]) /\ (LiveReindex(f[j]) <=> LiveReindex(j))
  <2>1. j \in Job /\ CallFits(j)
    BY DEF Fit
  <2>2. (j.touched \/ (j.kind = "reindex" /\ j.sheet = s)) \in BOOLEAN
    BY <2>1 DEF Job
  <2>3. QED
    BY <2>1, <2>2 DEF Job, CallFits, LiveReindex
<1>2. Touched(js, s) = {f[j] : j \in js}
  BY DEF Touched
<1> HIDE DEF f
<1>3. Fit(r, {f[j] : j \in js})
  BY <1>1, ImageFits
<1>4. QED
  BY <1>2, <1>3

LEMMA JobsFit ==
    ASSUME Typed
    PROVE  Fit(run, jobs)
  BY DEF Typed, TypeOK, Fit

\* An action that changes the page and the calls, and nothing of the server.
LEMMA BecomeTyped ==
    ASSUME Typed, NEW q \in Page, q.load # NoLoad => q.load.sheet = q.sheet,
           NEW now \in {NoRun} \cup Run, now # NoRun <=> run # NoRun,
           NEW js, Fit(now, js), Become(q, now, js),
           UNCHANGED <<rows, released, catalog, stored>>,
           home' \in [Edits -> Sheets \cup {NoSheet}],
           dropped' \in Docs, acked' \in Docs,
           events' \in 0..MaxEvents, catalog <= events'
    PROVE  Typed'
<1>1. js \in SUBSET Job
  BY DEF Fit
<1>2. /\ page' = q
      /\ jobs' \in SUBSET Job
      /\ \A k \in jobs' : \E j \in js :
            /\ Like(k, j)
            /\ k.live /\ k.kind \in {"save", "open"} => q.session # NoSession
  BY <1>1, BecomeJobs
<1>3. \A k \in jobs' : CallFits(k)
  BY <1>2 DEF Fit, Like, CallFits
<1>4. run' \in {NoRun} \cup Run /\ RunFits(run', page'.drawing, jobs')
  <2>1. RunFits(now, page.drawing, js) /\ (run # NoRun => run.drawing = page.drawing)
    BY DEF Fit, Typed, RunFits
  <2>2. QED
    BY <1>1, <2>1, BecomeRun
<1>5. TypeOK'
  BY <1>2, <1>4 DEF Typed, TypeOK, RunFits, LiveReindex
<1>6. (\A j \in jobs : CallFits(j) /\ Awaited(j))'
  BY <1>2, <1>3 DEF CallFits, Awaited
<1>7. QED
  BY <1>4, <1>5, <1>6 DEF Typed, RunFits

-----------------------------------------------------------------------------
(* Types.                                                                  *)

LEMMA InitTyped == Init => Typed
<1> SUFFICES ASSUME Init PROVE Typed
  OBVIOUS
<1>1. 0 \in 0..MaxEvents
  BY ConstantsAssumption
<1>2. rows \in [Sheets -> Row]
  BY <1>1 DEF Init, Row, Docs
<1>3. PICK d \in Drawings :
         page = WithFirstSheet([drawing |-> d, sheet |-> NoSheet, session |-> NoSession,
                                load |-> NoLoad, view |-> ServerView, ready |-> FALSE])
  BY DEF Init
<1> DEFINE p == [drawing |-> d, sheet |-> NoSheet, session |-> NoSession, load |-> NoLoad,
                 view |-> ServerView, ready |-> FALSE]
<1>4. p \in Page /\ p.load = NoLoad
  BY <1>2, ServerViewType DEF Init, Page
<1>5. page \in Page /\ (page.load # NoLoad => page.load.sheet = page.sheet)
  BY <1>3, <1>4, FirstSheetShown DEF Shows
<1>6. QED
  BY <1>1, <1>2, <1>5 DEF Init, Typed, TypeOK, RunFits, Docs

LEMMA Counted ==
    ASSUME Typed, Count
    PROVE  events' \in 0..MaxEvents /\ catalog <= events'
  BY ConstantsAssumption DEF Typed, TypeOK, Count

LEMMA Uncounted ==
    ASSUME Typed, UNCHANGED events
    PROVE  events' \in 0..MaxEvents /\ catalog <= events'
  BY DEF Typed, TypeOK

\* The page after the answer to a save that is waited for, or not.
LEMMA MarkedShown ==
    ASSUME TypeOK, NEW j \in Job, j.live => page.session # NoSession, NEW q,
           q = MarkedSaved(page, j)
    PROVE  /\ q \in Page
           /\ q.load = page.load /\ q.sheet = page.sheet
           /\ ~j.live => q = page
           /\ j.live => /\ q.session \in Session
                        /\ q.session.sheet = page.session.sheet
                        /\ q.session.doc = page.session.doc
                        /\ q.session.saved = j.doc
<1>1. page \in Page /\ (page.session # NoSession => page.session \in Session)
  BY DEF TypeOK, Page
<1>2. CASE ~j.live
  BY <1>1, <1>2 DEF MarkedSaved
<1>3. CASE j.live
  <2> DEFINE ss == [page.session EXCEPT !.saved = j.doc]
  <2>1. /\ ss \in Session /\ ss.sheet = page.session.sheet
        /\ ss.doc = page.session.doc /\ ss.saved = j.doc
    BY <1>1, <1>3 DEF Session, Job
  <2>2. q = [page EXCEPT !.session = ss]
    BY <1>3 DEF MarkedSaved
  <2> HIDE DEF ss
  <2>3. q \in Page /\ q.session = ss /\ q.load = page.load /\ q.sheet = page.sheet
    BY <1>1, <2>1, <2>2 DEF Page
  <2>4. QED
    BY <1>3, <2>1, <2>3
<1>4. QED
  BY <1>2, <1>3

\* The page with more edits in its session.
LEMMA EditedPage ==
    ASSUME TypeOK, page.session # NoSession, NEW doc \in Docs, NEW q,
           q = [page EXCEPT !.session.doc = @ \cup doc]
    PROVE  /\ q \in Page
           /\ q.session = [page.session EXCEPT !.doc = @ \cup doc]
           /\ q.session \in Session
           /\ q.session.sheet = page.session.sheet
           /\ q.session.doc = page.session.doc \cup doc
           /\ q.session.saved = page.session.saved
           /\ q.load = page.load /\ q.sheet = page.sheet
<1>1. page \in Page /\ page.session \in Session
  BY DEF TypeOK, Page
<1> DEFINE ss == [page.session EXCEPT !.doc = @ \cup doc]
<1>2. /\ ss \in Session /\ ss.sheet = page.session.sheet
      /\ ss.doc = page.session.doc \cup doc /\ ss.saved = page.session.saved
  BY <1>1 DEF Session, Docs
<1>3. q = [page EXCEPT !.session = ss]
  OBVIOUS
<1> HIDE DEF ss
<1>4. q \in Page /\ q.session = ss /\ q.load = page.load /\ q.sheet = page.sheet
  BY <1>1, <1>2, <1>3 DEF Page
<1>5. QED
  BY <1>2, <1>4 DEF ss

LEMMA SaveJobType ==
    ASSUME TypeOK, HasEditor, NEW release \in BOOLEAN
    PROVE  /\ SaveJob \in Job /\ [SaveJob EXCEPT !.release = release] \in Job
           /\ CallFits(SaveJob) /\ CallFits([SaveJob EXCEPT !.release = release])
           /\ ~LiveReindex(SaveJob) /\ ~LiveReindex([SaveJob EXCEPT !.release = release])
<1>1. page.sheet \in Sheets /\ page.session.doc \in Docs
  BY DEF TypeOK, HasEditor, Page, Session
<1>2. QED
  BY <1>1, NewJobType, NewJobFits DEF SaveJob, NewJob, LiveReindex

LEMMA UserTyped ==
    ASSUME Typed, User
    PROVE  Typed'
<1>0. /\ Fit(run, jobs)
      /\ page \in Page /\ run \in {NoRun} \cup Run
      /\ page.load # NoLoad => page.load.sheet = page.sheet
      /\ home \in [Edits -> Sheets \cup {NoSheet}] /\ dropped \in Docs /\ acked \in Docs
  BY JobsFit DEF Typed, TypeOK
<1>1. AskedAbout \in Docs
  BY DEF AskedAbout, HasEditor, Typed, TypeOK, Page, Session, Docs
<1>2. ASSUME Discard
      PROVE  dropped' \in Docs
  BY <1>0, <1>1, <1>2 DEF Discard, Docs
<1>3. ASSUME NEW s \in Sheets, SwitchSheet(s)
      PROVE  Typed'
  BY <1>0, <1>2, <1>3, SheetShown, Counted, BecomeTyped DEF SwitchSheet, Shows, Unused
<1>4. ASSUME NEW d \in Drawings, SwitchDrawing(d)
      PROVE  Typed'
  BY <1>0, <1>2, <1>4, DrawingShown, Counted, BecomeTyped DEF SwitchDrawing, Shows, Unused
<1>5. ASSUME NEW e \in Edits, Edit(e)
      PROVE  Typed'
  <2>1. {e} \in Docs /\ page.session # NoSession /\ page.sheet \in Sheets
    BY <1>5 DEF Edit, HasEditor, Docs, Typed, TypeOK, Page, Session
  <2>2. home' \in [Edits -> Sheets \cup {NoSheet}]
    BY <1>0, <1>5, <2>1 DEF Edit
  <2>3. PICK q : /\ q = [page EXCEPT !.session.doc = @ \cup {e}]
                 /\ Become(q, run, jobs)
    BY <1>5 DEF Edit
  <2>4. q \in Page /\ q.load = page.load /\ q.sheet = page.sheet
    BY <2>1, <2>3, EditedPage DEF Typed
  <2>5. QED
    BY <1>0, <1>5, <2>2, <2>3, <2>4, Uncounted, BecomeTyped DEF Edit, Unused
<1>6. ASSUME Save
      PROVE  Typed'
  <2>1. Fit(run, Touched(jobs, page.sheet) \cup {SaveJob})
    BY <1>0, <1>6, TouchedFits, SaveJobType, AddedFits DEF Save, Typed
  <2>2. QED
    BY <1>0, <1>6, <2>1, Uncounted, BecomeTyped DEF Save, Unused
<1>7. ASSUME AskWorkflow
      PROVE  Typed'
  <2> DEFINE ask == [NewJob("workflow", page.sheet, "sent", {}) EXCEPT !.release = CanEdit]
  <2>1. Fit(run, jobs \cup {ask})
    <3>1. page.sheet \in Sheets /\ {} \in Docs /\ CanEdit \in BOOLEAN
      BY <1>0, <1>7 DEF AskWorkflow, Page, Docs, CanEdit
    <3>2. ask \in Job /\ CallFits(ask)
      BY <3>1, NewJobType, NewJobFits
    <3>3. ~LiveReindex(ask)
      BY DEF NewJob, LiveReindex
    <3>4. QED
      BY <1>0, <3>2, <3>3, AddedFits
  <2>2. HasEditor => Fit(run, Touched(jobs, page.sheet) \cup {[SaveJob EXCEPT !.release = TRUE]})
    BY <1>0, TouchedFits, SaveJobType, AddedFits DEF Typed
  <2>3. PICK js : Fit(run, js) /\ Become(page, run, js)
    BY <1>7, <2>1, <2>2 DEF AskWorkflow
  <2>4. QED
    BY <1>0, <1>7, <2>3, Counted, BecomeTyped DEF AskWorkflow, Unused
<1>8. ASSUME NEW S \in SUBSET Sheets, PressReindex(S)
      PROVE  Typed'
  <2> DEFINE saved == IF HasEditor /\ Dirty(page.session) THEN S \cap {page.sheet} ELSE {}
             asked == S \ saved
             more == [run EXCEPT !.attempted = @ \ asked, !.failed = @ \ asked,
                                 !.forced = @ \cup asked]
             again == IF run = NoRun THEN NoRun ELSE Woken(more)
  <2>1. run # NoRun => more \in Run /\ more.drawing = run.drawing /\ more.pump = run.pump
    BY <1>0 DEF Run
  <2>2. /\ again \in {NoRun} \cup Run /\ (again # NoRun <=> run # NoRun)
        /\ again # NoRun => /\ again.drawing = run.drawing
                            /\ again.pump = "await" <=> run.pump = "await"
    <3> HIDE DEF more
    <3>1. run # NoRun => /\ Woken(more) \in Run /\ Woken(more).drawing = run.drawing
                         /\ Woken(more).pump = "await" <=> run.pump = "await"
      BY <2>1 DEF Woken, Run
    <3>2. QED
      BY <1>0, <3>1, NoRunAssumption
  <2> HIDE DEF again
  <2>3. ASSUME NEW js, Fit(run, js)
        PROVE  Fit(again, js)
    BY <2>2, <2>3 DEF Fit, RunFits
  <2>4. PICK js : Fit(run, js) /\ Become(page, again, js)
    <3>1. saved # {} => Fit(run, Touched(jobs, page.sheet) \cup {SaveJob})
      BY <1>0, TouchedFits, SaveJobType, AddedFits DEF Typed
    <3>2. QED
      BY <1>0, <1>8, <3>1 DEF PressReindex, again
  <2>5. QED
    BY <1>0, <1>8, <2>2, <2>3, <2>4, Counted, BecomeTyped DEF PressReindex, Unused
<1>9. ASSUME NEW s \in Sheets, AddSheet(s)
      PROVE  Typed'
  <2>1. Fit(run, jobs \cup {NewJob("add", s, "sent", {})})
    <3>1. {} \in Docs
      BY DEF Docs
    <3>2. ~LiveReindex(NewJob("add", s, "sent", {}))
      BY DEF NewJob, LiveReindex
    <3>3. QED
      BY <1>0, <3>1, <3>2, NewJobType, NewJobFits, AddedFits
  <2>2. QED
    BY <1>0, <1>2, <1>9, <2>1, Counted, BecomeTyped DEF AddSheet, Unused
<1>10. ASSUME NEW e \in Edits, NEW s \in Sheets, CommitListEdit(e, s)
       PROVE  Typed'
  <2>1. PICK kind \in {"open", "list"} :
           Become(page, run, jobs \cup {NewJob(kind, s, "queued", {e})})
    BY <1>10 DEF CommitListEdit
  <2>2. Fit(run, jobs \cup {NewJob(kind, s, "queued", {e})})
    <3>1. {e} \in Docs
      BY DEF Docs
    <3>2. ~LiveReindex(NewJob(kind, s, "queued", {e}))
      BY DEF NewJob, LiveReindex
    <3>3. QED
      BY <1>0, <3>1, <3>2, NewJobType, NewJobFits, AddedFits
  <2>3. home' \in [Edits -> Sheets \cup {NoSheet}]
    BY <1>0, <1>10 DEF CommitListEdit
  <2>4. QED
    BY <1>0, <1>10, <2>1, <2>2, <2>3, Counted, BecomeTyped DEF CommitListEdit, Unused
<1>11. QED
  <2>1. /\ StaleIn(page.view, page.drawing) \subseteq Sheets
        /\ SheetsIn(page.view, page.drawing) \subseteq Sheets
    BY <1>0 DEF Page, View, StaleIn, SheetsIn
  <2>2. QED
    BY <1>3, <1>4, <1>5, <1>6, <1>7, <1>8, <1>9, <1>10, <2>1 DEF User

LEMMA PendingType ==
    ASSUME TypeOK, run # NoRun
    PROVE  Pending(run) \in SUBSET Sheets
  BY DEF TypeOK, Pending, StaleIn, Page, View, Run

LEMMA PumpTyped ==
    ASSUME Typed, Pump
    PROVE  Typed'
<1>1. run \in Run /\ run # NoRun /\ run.pump = "turn" /\ Fit(run, jobs)
  BY JobsFit DEF Pump, MayTurn, Typed, TypeOK
<1>2. \A j \in jobs : ~LiveReindex(j) /\ Awaited(j)
  BY <1>1 DEF Fit, RunFits, Typed
<1>3. /\ events' = events /\ page' = page
      /\ UNCHANGED <<rows, released, catalog, stored, home, dropped, acked>>
  BY DEF Pump, Unused
<1>4. SUFFICES /\ run' \in Run /\ jobs' \in SUBSET Job
               /\ \A j \in jobs' : CallFits(j) /\ Awaited(j)
               /\ RunFits(run', page.drawing, jobs')
  <2>1. (\A j \in jobs : CallFits(j) /\ Awaited(j))'
           <=> \A j \in jobs' : CallFits(j) /\ Awaited(j)
    BY <1>3 DEF CallFits, Awaited
  <2>2. TypeOK'
    BY <1>3 DEF Typed, TypeOK, RunFits, LiveReindex
  <2>3. QED
    BY <1>3, <2>1, <2>2 DEF Typed, RunFits, LiveReindex
<1>5. CASE Pending(run) = {}
  <2>1. run' \in Run /\ run'.drawing = run.drawing /\ run'.pump = "idle" /\ jobs' = jobs
    BY <1>1, <1>5 DEF Pump, Run
  <2>2. QED
    BY <1>1, <1>2, <2>1, NoRunAssumption DEF Fit, RunFits
<1>6. CASE Pending(run) # {}
  <2> DEFINE s == Smallest(Pending(run))
             job == NewJob("reindex", s, "reading", {})
  <2>1. s \in Sheets
    BY <1>1, <1>6, PendingType, SmallestIsIn DEF Typed
  <2> HIDE DEF s
  <2>2. /\ run' \in Run /\ run'.drawing = run.drawing
        /\ run'.pump = IF Starts(s) THEN "await" ELSE "turn"
    <3>1. run' = [run EXCEPT !.attempted = @ \cup {s}, !.forced = @ \ {s}, !.failed = @ \ {s},
                             !.pump = IF Starts(s) THEN "await" ELSE "turn"]
      BY <1>6 DEF Pump, s
    <3>2. QED
      BY <1>1, <2>1, <3>1 DEF Run
  <2>3. jobs' = IF Starts(s) THEN jobs \cup {job} ELSE jobs
    BY <1>6 DEF Pump, s
  <2>4. CASE Starts(s)
    <3>1. job \in Job /\ CallFits(job) /\ LiveReindex(job) /\ Awaited(job)
      <4>1. {} \in Docs
        BY DEF Docs
      <4>2. LiveReindex(job) /\ Awaited(job)
        BY DEF NewJob, LiveReindex, Awaited
      <4>3. QED
        BY <2>1, <4>1, <4>2, NewJobType, NewJobFits
    <3>2. jobs' = jobs \cup {job} /\ run'.pump = "await"
      BY <2>2, <2>3, <2>4
    <3> HIDE DEF job
    <3>3. \A j \in jobs' : LiveReindex(j) <=> j = job
      BY <1>2, <3>1, <3>2
    <3>4. RunFits(run', page.drawing, jobs')
      BY <1>1, <2>2, <3>2, <3>3, NoRunAssumption DEF Fit, RunFits
    <3>5. QED
      BY <1>1, <1>2, <2>2, <3>1, <3>2, <3>4 DEF Fit
  <2>5. CASE ~Starts(s)
    BY <1>1, <1>2, <2>2, <2>3, <2>5, NoRunAssumption DEF Fit, RunFits
  <2>6. QED
    BY <2>4, <2>5
<1>7. QED
  BY <1>5, <1>6

\* The run goes on without the re-index j.
LEMMA ResumedFits ==
    ASSUME Typed, NEW j \in jobs, j.kind = "reindex", NEW failed \in BOOLEAN
    PROVE  /\ Resumed(j, failed) \in {NoRun} \cup Run
           /\ Resumed(j, failed) # NoRun <=> run # NoRun
           /\ Fit(Resumed(j, failed), jobs \ {j})
<1> DEFINE r == Resumed(j, failed)
<1>1. Fit(run, jobs) /\ run \in {NoRun} \cup Run /\ j \in Job /\ j.sheet \in Sheets
  BY JobsFit DEF Typed, TypeOK, Job
<1>2. CASE LiveReindex(j)
  <2>1. run \in Run /\ run # NoRun /\ run.drawing = page.drawing
    BY <1>1, <1>2 DEF Fit, RunFits
  <2>2. /\ r \in Run /\ r.drawing = run.drawing /\ r.pump = "turn"
    BY <1>1, <1>2, <2>1 DEF Resumed, Run, LiveReindex
  <2>3. \A i \in jobs \ {j} : ~LiveReindex(i)
    BY <1>1, <1>2 DEF Fit, RunFits
  <2> HIDE DEF r
  <2>4. RunFits(r, page.drawing, jobs \ {j})
    BY <2>1, <2>2, <2>3 DEF RunFits
  <2>5. Fit(r, jobs \ {j}) /\ r # NoRun
    BY <1>1, <2>2, <2>4, NoRunAssumption DEF Fit
  <2>6. QED
    BY <2>1, <2>2, <2>5 DEF r
<1>3. CASE ~LiveReindex(j)
  <2>1. r = run
    BY <1>3 DEF Resumed, LiveReindex
  <2>2. QED
    BY <1>1, <1>3, <2>1, DroppedFits
<1>4. QED
  BY <1>2, <1>3

\* A job in another step of its way.
LEMMA SteppedFits ==
    ASSUME Typed, NEW j \in jobs, NEW step \in {"reading", "read", "sent", "stored", "refused"},
           NEW x, x = [j EXCEPT !.step = step], CallFits(x)
    PROVE  x \in Job /\ Fit(run, (jobs \ {j}) \cup {x})
<1>1. Fit(run, jobs) /\ j \in Job
  BY JobsFit DEF Typed, TypeOK
<1>2. x \in Job /\ (LiveReindex(x) <=> LiveReindex(j))
  BY <1>1 DEF Job, LiveReindex
<1>3. QED
  BY <1>1, <1>2, ReplacedFits

LEMMA AnswerTyped ==
    ASSUME Typed, NEW j \in jobs, Answer(j)
    PROVE  Typed'
<1>0. /\ Fit(run, jobs)
      /\ page \in Page /\ run \in {NoRun} \cup Run
      /\ page.load # NoLoad => page.load.sheet = page.sheet
      /\ home \in [Edits -> Sheets \cup {NoSheet}] /\ dropped \in Docs /\ acked \in Docs
      /\ j \in Job /\ j.sheet \in Sheets /\ j.doc \in Docs /\ CallFits(j)
  BY JobsFit DEF Typed, TypeOK, Job
<1>1. j.kind # "reindex" => Fit(run, jobs \ {j})
  BY <1>0, DroppedFits DEF LiveReindex
<1>2. Shows(page, Indexed(page, j.sheet))
  BY <1>0, IndexedShown
<1>3. ASSUME CheckReindex(j)
      PROVE  Typed'
  <2>1. CASE StandsDown(j)
    BY <1>0, <1>3, <2>1, ResumedFits, Uncounted, BecomeTyped DEF CheckReindex, Unused
  <2>2. CASE ~StandsDown(j)
    <3>1. CallFits([j EXCEPT !.step = "sent"])
      BY <1>0, <1>3 DEF CallFits, CheckReindex, Job
    <3>2. Fit(run, (jobs \ {j}) \cup {[j EXCEPT !.step = "sent"]})
      BY <3>1, SteppedFits
    <3>3. QED
      BY <1>0, <1>3, <2>2, <3>2, Uncounted, BecomeTyped DEF CheckReindex, Unused
  <2>3. QED
    BY <2>1, <2>2
<1>4. ASSUME EndReindex(j)
      PROVE  Typed'
  BY <1>0, <1>2, <1>4, ResumedFits, Uncounted, BecomeTyped DEF EndReindex, Unused, Shows
<1>5. ASSUME EndSave(j)
      PROVE  Typed'
  <2> DEFINE job == [NewJob("workflow", j.sheet, "sent", {}) EXCEPT !.release = TRUE]
  <2>1. Fit(run, (jobs \ {j}) \cup {job})
    <3>1. {} \in Docs /\ ~LiveReindex(job)
      BY DEF Docs, NewJob, LiveReindex
    <3>2. QED
      BY <1>0, <1>1, <1>5, <3>1, NewJobType, NewJobFits, AddedFits DEF EndSave
  <2>2. CASE j.step = "stored"
    <3> DEFINE q == Indexed(MarkedSaved(page, j), j.sheet)
    <3>1. /\ MarkedSaved(page, j) \in Page
          /\ MarkedSaved(page, j).load = page.load /\ MarkedSaved(page, j).sheet = page.sheet
      BY <1>0, <1>5, MarkedShown DEF EndSave, Typed, Awaited
    <3>2. q \in Page /\ (q.load # NoLoad => q.load.sheet = q.sheet)
      BY <1>0, <3>1, IndexedShown DEF Shows
    <3>3. PICK js : Fit(run, js) /\ Become(q, run, js)
      BY <1>1, <1>5, <2>1, <2>2 DEF EndSave
    <3>4. acked' \in Docs
      BY <1>0, <1>5, <2>2 DEF EndSave, Docs
    <3>5. QED
      BY <1>0, <1>5, <3>2, <3>3, <3>4, Uncounted, BecomeTyped DEF EndSave, Unused
  <2>3. CASE j.step # "stored"
    BY <1>0, <1>1, <1>5, <2>3, Uncounted, BecomeTyped DEF EndSave, Unused
  <2>4. QED
    BY <2>2, <2>3
<1>6. ASSUME EndWorkflow(j)
      PROVE  Typed'
  <2>1. CASE j.step = "stored"
    <3>1. /\ j.view \in View /\ page.view \in View /\ DrawingOf[j.sheet] \in Drawings
      BY <1>0, <1>6, <2>1, ConstantsAssumption DEF EndWorkflow, CallFits, Page
    <3>2. Shows(page, WithView(page, Replaced(page.view, j.view, DrawingOf[j.sheet])))
      BY <1>0, <3>1, ReplacedType, ViewShown
    <3>3. QED
      BY <1>0, <1>1, <1>6, <2>1, <3>2, Uncounted, BecomeTyped DEF EndWorkflow, Unused, Shows
  <2>2. CASE j.step # "stored"
    <3> DEFINE job == NewJob("refresh", j.sheet, "reading", {})
    <3>1. Fit(run, (jobs \ {j}) \cup {job})
      <4>1. {} \in Docs /\ ~LiveReindex(job)
        BY DEF Docs, NewJob, LiveReindex
      <4>2. QED
        BY <1>0, <1>1, <1>6, <4>1, NewJobType, NewJobFits, AddedFits DEF EndWorkflow
    <3>2. PICK js : Fit(run, js) /\ Become(page, run, js)
      <4>1. (jobs \ {j}) \cup {} = jobs \ {j}
        OBVIOUS
      <4>2. QED
        BY <1>1, <1>6, <2>2, <3>1, <4>1 DEF EndWorkflow
    <3>3. QED
      BY <1>0, <1>6, <2>2, <3>2, Uncounted, BecomeTyped DEF EndWorkflow, Unused
  <2>3. QED
    BY <2>1, <2>2
<1>7. ASSUME EndRefresh(j)
      PROVE  Typed'
  <2> DEFINE q == IF j.step = "read" THEN WithView(page, j.view) ELSE page
  <2>1. q \in Page /\ (q.load # NoLoad => q.load.sheet = q.sheet)
    BY <1>0, <1>7, ViewShown DEF EndRefresh, CallFits, Shows
  <2> HIDE DEF q
  <2>2. Become(q, run, jobs \ {j})
    BY <1>7 DEF EndRefresh, q
  <2>3. QED
    BY <1>0, <1>1, <1>7, <2>1, <2>2, Uncounted, BecomeTyped DEF EndRefresh, Unused
<1>8. ASSUME GoOnAdding(j)
      PROVE  Typed'
  <2>1. CASE j.step = "stored"
    <3>1. CallFits([j EXCEPT !.step = "reading"])
      BY <1>0, <1>8 DEF CallFits, GoOnAdding, Job
    <3>2. Fit(run, (jobs \ {j}) \cup {[j EXCEPT !.step = "reading"]})
      BY <3>1, SteppedFits
    <3>3. Become(page, run, (jobs \ {j}) \cup {[j EXCEPT !.step = "reading"]})
      BY <1>8, <2>1 DEF GoOnAdding
    <3>4. QED
      BY <1>0, <1>8, <3>2, <3>3, Uncounted, BecomeTyped DEF GoOnAdding, Unused
  <2>2. CASE j.step = "refused"
    <3>1. Become(page, run, jobs \ {j})
      BY <1>8, <2>2 DEF GoOnAdding
    <3>2. QED
      BY <1>0, <1>1, <1>8, <3>1, Uncounted, BecomeTyped DEF GoOnAdding, Unused
  <2>3. CASE j.step = "read"
    <3> DEFINE p == [page EXCEPT !.view = j.view, !.drawing = DrawingOf[j.sheet]]
               q == WithSheet(p, j.sheet)
    <3>1. p \in Page /\ p.load = page.load /\ p.sheet = page.sheet
      BY <1>0, <1>8, <2>3, ConstantsAssumption DEF GoOnAdding, CallFits, Page
    <3> HIDE DEF p
    <3>2. q \in Page /\ (q.load # NoLoad => q.load.sheet = q.sheet)
      BY <1>0, <3>1, SheetShown DEF Shows
    <3>3. Become(q, run, jobs \ {j})
      BY <1>8, <2>3 DEF GoOnAdding, p
    <3> HIDE DEF q
    <3>4. QED
      BY <1>0, <1>1, <1>8, <3>2, <3>3, Uncounted, BecomeTyped DEF GoOnAdding, Unused
  <2>4. QED
    BY <1>8, <2>1, <2>2, <2>3 DEF GoOnAdding
<1>9. ASSUME TurnOfCommit(j)
      PROVE  Typed'
  <2>1. CASE j.kind = "list"
    <3>1. CallFits([j EXCEPT !.step = "reading"])
      BY <1>0, <2>1 DEF CallFits, Job
    <3>2. Fit(run, (jobs \ {j}) \cup {[j EXCEPT !.step = "reading"]})
      BY <3>1, SteppedFits
    <3>3. QED
      BY <1>0, <1>9, <2>1, <3>2, Uncounted, BecomeTyped DEF TurnOfCommit, Unused
  <2>2. CASE j.kind = "open"
    <3>1. PICK q : /\ q = IF j.live THEN [page EXCEPT !.session.doc = @ \cup j.doc] ELSE page
                   /\ Become(q, run, jobs \ {j})
      BY <1>9, <2>2 DEF TurnOfCommit
    <3>2. q \in Page /\ q.load = page.load /\ q.sheet = page.sheet
      BY <1>0, <2>2, <3>1, EditedPage DEF Typed, Awaited
    <3>3. QED
      BY <1>0, <1>1, <1>9, <2>2, <3>1, <3>2, Uncounted, BecomeTyped DEF TurnOfCommit, Unused
  <2>3. QED
    BY <1>9, <2>1, <2>2 DEF TurnOfCommit
<1>10. ASSUME GoOnListing(j)
       PROVE  Typed'
  <2>1. acked' \in Docs /\ dropped' \in Docs
    BY <1>0, <1>10 DEF GoOnListing, Docs
  <2>2. PICK q, js : /\ q \in {page, Indexed(page, j.sheet)} /\ Fit(run, js)
                     /\ Become(q, run, js)
    <3>1. CASE j.step = "read"
      <4>1. [j EXCEPT !.step = "sent"] \in Job /\ CallFits([j EXCEPT !.step = "sent"])
            /\ ~LiveReindex([j EXCEPT !.step = "sent"])
        BY <1>0, <1>10 DEF CallFits, Job, LiveReindex, GoOnListing
      <4>2. Fit(run, Touched(jobs \ {j}, j.sheet) \cup {[j EXCEPT !.step = "sent"]})
        BY <1>1, <1>10, <4>1, TouchedFits, AddedFits DEF GoOnListing
      <4>3. QED
        BY <1>10, <3>1, <4>2 DEF GoOnListing
    <3>2. CASE j.step = "stored"
      BY <1>1, <1>10, <3>2 DEF GoOnListing
    <3>3. CASE j.step = "refused"
      BY <1>1, <1>10, <3>3 DEF GoOnListing
    <3>4. QED
      BY <1>10, <3>1, <3>2, <3>3 DEF GoOnListing
  <2>3. QED
    BY <1>0, <1>2, <1>10, <2>1, <2>2, Uncounted, BecomeTyped DEF GoOnListing, Unused, Shows
<1>11. QED
  BY <1>3, <1>4, <1>5, <1>6, <1>7, <1>8, <1>9, <1>10 DEF Answer

\* A step that leaves the page and its run alone.
LEMMA ElsewhereTyped ==
    ASSUME Typed, UNCHANGED <<page, run>>,
           Fit(run, jobs'), \A k \in jobs' : Awaited(k),
           rows' \in [Sheets -> Row], released' \in SUBSET Drawings,
           home' = home, dropped' = dropped, acked' = acked, stored' \in Docs,
           catalog' \in 0..MaxEvents, events' \in 0..MaxEvents, catalog' <= events'
    PROVE  Typed'
<1>1. TypeOK'
  BY DEF Typed, TypeOK, Fit, RunFits, LiveReindex
<1>2. (\A j \in jobs : CallFits(j) /\ Awaited(j))'
  BY DEF Fit, CallFits, Awaited
<1>3. RunFits(run, page.drawing, jobs)'
  BY DEF Fit, RunFits, LiveReindex
<1>4. QED
  BY <1>1, <1>2, <1>3 DEF Typed

LEMMA SteppedAwaited ==
    ASSUME Typed, NEW j \in jobs, NEW x, x.kind = j.kind, x.live = j.live
    PROVE  \A k \in (jobs \ {j}) \cup {x} : Awaited(k)
  BY DEF Typed, Awaited

\* What the answer to a read holds.
ReadAnswer(j) ==
    CASE j.kind = "list"                -> [j EXCEPT !.doc = @ \cup rows[j.sheet].doc]
      [] j.kind = "reindex"             -> [j EXCEPT !.doc = rows[j.sheet].doc]
      [] j.kind \in {"add", "refresh"}  -> [j EXCEPT !.view = ServerView]

LEMMA ReadJob ==
    ASSUME Typed, NEW j \in jobs, Read(j), NEW x, x = [ReadAnswer(j) EXCEPT !.step = "read"]
    PROVE  /\ jobs' = (jobs \ {j}) \cup {x}
           /\ x \in Job /\ CallFits(x)
           /\ x.kind = j.kind /\ x.sheet = j.sheet /\ x.live = j.live /\ x.step = "read"
           /\ x.touched = j.touched /\ x.late = j.late /\ x.release = j.release
           /\ j.kind = "list" => x.doc = j.doc \cup rows[j.sheet].doc
           /\ j.kind = "reindex" => x.doc = rows[j.sheet].doc
           /\ j.kind \in {"list", "reindex", "add", "refresh"}
<1> DEFINE a == ReadAnswer(j)
<1>1. /\ j \in Job /\ CallFits(j) /\ j.step = "reading"
      /\ j.kind \in {"list", "reindex", "add", "refresh"}
      /\ rows[j.sheet].doc \in Docs /\ j.doc \in Docs
      /\ ServerView \in View
  BY ServerViewType DEF Typed, TypeOK, Read, CallFits, Job, Row
<1>2. jobs' = (jobs \ {j}) \cup {x}
  BY DEF Read, ReadAnswer
<1>3. /\ a \in Job /\ a.kind = j.kind /\ a.sheet = j.sheet /\ a.live = j.live
      /\ a.touched = j.touched /\ a.late = j.late /\ a.release = j.release
      /\ j.kind = "list" => a.doc = j.doc \cup rows[j.sheet].doc
      /\ j.kind = "reindex" => a.doc = rows[j.sheet].doc
      /\ j.kind \in {"add", "refresh"} => a.view = ServerView
  <2>1. CASE j.kind = "list"
    <3>1. a = [j EXCEPT !.doc = j.doc \cup rows[j.sheet].doc]
      BY <2>1 DEF ReadAnswer
    <3>2. j.doc \cup rows[j.sheet].doc \in Docs
      BY <1>1 DEF Docs
    <3>3. QED
      BY <1>1, <2>1, <3>1, <3>2 DEF Job
  <2>2. CASE j.kind = "reindex"
    <3>1. a = [j EXCEPT !.doc = rows[j.sheet].doc]
      BY <2>2 DEF ReadAnswer
    <3>2. QED
      BY <1>1, <2>2, <3>1 DEF Job
  <2>3. CASE j.kind \in {"add", "refresh"}
    <3>1. a = [j EXCEPT !.view = ServerView]
      BY <2>3 DEF ReadAnswer
    <3>2. QED
      BY <1>1, <2>3, <3>1 DEF Job
  <2>4. QED
    BY <1>1, <2>1, <2>2, <2>3
<1> HIDE DEF a
<1>4. x = [a EXCEPT !.step = "read"]
  BY DEF a
<1>5. /\ x \in Job /\ x.kind = a.kind /\ x.sheet = a.sheet /\ x.live = a.live /\ x.step = "read"
      /\ x.touched = a.touched /\ x.late = a.late /\ x.release = a.release /\ x.doc = a.doc
      /\ x.view = a.view
  BY <1>3, <1>4 DEF Job
<1>6. CallFits(x)
  BY <1>1, <1>3, <1>5 DEF CallFits
<1>7. QED
  BY <1>1, <1>2, <1>3, <1>5, <1>6

\* The call k is the call i after the write j was handled: j has its answer, and a
\* re-index that has read may be late by the edits of a save.
AfterStore(j, k, i) ==
    /\ k \in Job /\ k.kind = i.kind /\ k.sheet = i.sheet /\ k.doc = i.doc /\ k.view = i.view
    /\ k.live = i.live /\ k.touched = i.touched /\ k.release = i.release
    /\ i = j => k.step \in {"stored", "refused"} /\ k.late = i.late
    /\ i # j => k.step = i.step
    /\ k.late => \/ i.late
                 \/ /\ i.kind = "reindex" /\ i.step = "read" /\ i.sheet = j.sheet
                    /\ ~(j.doc \subseteq acked) /\ j.kind = "save" /\ j.live

LEMMA StoreJobs ==
    ASSUME Typed, NEW j \in jobs, Store(j)
    PROVE  /\ Fit(run, jobs')
           /\ \A k \in jobs' : \E i \in jobs :
                 /\ AfterStore(j, k, i)
                 /\ i = j => (k.step = "stored" <=> Open(j.sheet))
<1> DEFINE isLate(i) == i.late \/ (/\ i.kind = "reindex" /\ i.step = "read"
                                   /\ i.sheet = j.sheet /\ ~(j.doc \subseteq i.doc \cup acked)
                                   /\ j.kind = "save" /\ j.live)
           late(i) == [i EXCEPT !.late = isLate(i)]
           end(step) == [j EXCEPT !.step = step]
<1>1. Fit(run, jobs) /\ j \in Job /\ jobs \in SUBSET Job
  BY JobsFit DEF Typed, TypeOK
<1>2. ASSUME NEW i \in jobs, i # j
      PROVE  /\ late(i) \in Job /\ AfterStore(j, late(i), i)
             /\ CallFits(late(i)) /\ (LiveReindex(late(i)) <=> LiveReindex(i))
  <2>1. i \in Job /\ CallFits(i) /\ isLate(i) \in BOOLEAN
    BY <1>1 DEF Fit, Job
  <2>2. late(i) \in Job /\ late(i).late = isLate(i)
    BY <2>1 DEF Job
  <2>3. QED
    BY <1>2, <2>1, <2>2 DEF AfterStore, CallFits, LiveReindex, Job
<1>3. ASSUME NEW step \in {"stored", "refused"}
      PROVE  /\ end(step) \in Job /\ AfterStore(j, end(step), j)
             /\ CallFits(end(step)) /\ (LiveReindex(end(step)) <=> LiveReindex(j))
             /\ end(step).step = step
  BY <1>1 DEF Store, AfterStore, CallFits, LiveReindex, Job
<1>4. ASSUME NEW i \in jobs, i # j
      PROVE  AfterStore(j, i, i)
  BY <1>1, <1>4 DEF AfterStore
<1>5. CASE Open(j.sheet)
  <2> DEFINE f == [i \in jobs |-> IF i = j THEN end("stored") ELSE late(i)]
  <2>1. jobs' = {late(i) : i \in jobs \ {j}} \cup {end("stored")}
    BY <1>5 DEF Store
  <2>2. {f[i] : i \in jobs} = {late(i) : i \in jobs \ {j}} \cup {end("stored")}
    <3> HIDE DEF late, end
    <3>1. QED
      OBVIOUS
  <2>3. \A i \in jobs : f[i] \in Job /\ CallFits(f[i]) /\ (LiveReindex(f[i]) <=> LiveReindex(i))
    <3> HIDE DEF late, end
    <3>1. QED
      BY <1>2, <1>3
  <2>4. \A i \in jobs : AfterStore(j, f[i], i) /\ (i = j => f[i].step = "stored")
    <3> HIDE DEF late, end
    <3>1. QED
      BY <1>2, <1>3
  <2> HIDE DEF f
  <2>5. Fit(run, {f[i] : i \in jobs})
    BY <1>1, <2>3, ImageFits
  <2>6. jobs' = {f[i] : i \in jobs}
    BY <2>1, <2>2
  <2>7. QED
    BY <1>5, <2>4, <2>5, <2>6
<1>6. CASE ~Open(j.sheet)
  <2>1. jobs' = (jobs \ {j}) \cup {end("refused")}
    BY <1>6 DEF Store
  <2> HIDE DEF end
  <2>2. Fit(run, jobs')
    BY <1>1, <1>3, <2>1, ReplacedFits
  <2>3. QED
    BY <1>3, <1>4, <1>6, <2>1, <2>2
<1>7. QED
  BY <1>5, <1>6

LEMMA StoreRows ==
    ASSUME Typed, NEW j \in jobs, Store(j)
    PROVE  /\ rows' \in [Sheets -> Row] /\ stored' \in Docs
           /\ stored \subseteq stored'
           /\ Open(j.sheet) => j.doc \subseteq stored'
           /\ \A s \in Sheets : \/ rows'[s].doc = rows[s].doc
                                \/ /\ s = j.sheet /\ rows'[s].doc = j.doc
                                   /\ j.doc \subseteq stored'
<1>1. /\ j \in Job /\ rows \in [Sheets -> Row] /\ stored \in Docs
      /\ j.sheet \in Sheets /\ j.doc \in Docs /\ j.parts \in 0..MaxEvents
  BY DEF Typed, TypeOK, Job
<1>2. CASE Open(j.sheet)
  <2> DEFINE row == [rows[j.sheet] EXCEPT !.doc = j.doc, !.stale = FALSE, !.parts = j.parts]
  <2>1. row \in Row /\ row.doc = j.doc
    BY <1>1 DEF Row
  <2>2. rows' = [rows EXCEPT ![j.sheet] = row]
    BY <1>2 DEF Store
  <2> HIDE DEF row
  <2>3. stored' = stored \cup j.doc
    BY <1>2 DEF Store
  <2>4. rows' \in [Sheets -> Row]
    BY <1>1, <2>1, <2>2
  <2>5. stored' \in Docs
    BY <1>1, <2>3 DEF Docs
  <2>6. \A s \in Sheets : rows'[s] = IF s = j.sheet THEN row ELSE rows[s]
    BY <1>1, <2>2
  <2>7. QED
    BY <2>1, <2>3, <2>4, <2>5, <2>6
<1>3. CASE ~Open(j.sheet)
  BY <1>1, <1>3 DEF Store
<1>4. QED
  BY <1>2, <1>3

LEMMA ServeTyped ==
    ASSUME Typed, NEW j \in jobs, Serve(j)
    PROVE  Typed'
<1>0. /\ Fit(run, jobs) /\ j \in Job /\ j.sheet \in Sheets /\ CallFits(j)
      /\ rows \in [Sheets -> Row] /\ released \in SUBSET Drawings /\ stored \in Docs
      /\ catalog \in 0..MaxEvents /\ events \in 0..MaxEvents /\ catalog <= events
      /\ DrawingOf[j.sheet] \in Drawings /\ ServerView \in View
  BY JobsFit, ServerViewType, ConstantsAssumption DEF Typed, TypeOK, Job
<1>1. ASSUME Read(j)
      PROVE  Typed'
  <2> DEFINE x == [ReadAnswer(j) EXCEPT !.step = "read"]
  <2>1. /\ jobs' = (jobs \ {j}) \cup {x} /\ x \in Job /\ CallFits(x)
        /\ x.kind = j.kind /\ x.live = j.live
    BY <1>1, ReadJob
  <2> HIDE DEF x
  <2>2. Fit(run, jobs') /\ \A k \in jobs' : Awaited(k)
    BY <1>0, <2>1, ReplacedFits, SteppedAwaited DEF LiveReindex
  <2>3. QED
    BY <1>0, <1>1, <2>2, ElsewhereTyped DEF Read, Unused
<1>2. ASSUME Store(j)
      PROVE  Typed'
  <2>1. Fit(run, jobs') /\ \A k \in jobs' : Awaited(k)
    BY <1>2, StoreJobs DEF AfterStore, Awaited, Typed
  <2>2. QED
    BY <1>0, <1>2, <2>1, StoreRows, ElsewhereTyped DEF Store
<1>3. ASSUME Create(j)
      PROVE  Typed'
  <2>1. PICK step \in {"stored", "refused"} : jobs' = (jobs \ {j}) \cup {[j EXCEPT !.step = step]}
    BY <1>3 DEF Create
  <2> DEFINE x == [j EXCEPT !.step = step]
  <2>2. x \in Job /\ CallFits(x) /\ x.kind = j.kind /\ x.live = j.live
    BY <1>0, <1>3 DEF Create, Job, CallFits
  <2>3. jobs' = (jobs \ {j}) \cup {x}
    BY <2>1
  <2> HIDE DEF x
  <2>4. Fit(run, jobs') /\ \A k \in jobs' : Awaited(k)
    BY <1>0, <2>2, <2>3, ReplacedFits, SteppedAwaited DEF LiveReindex
  <2>5. rows' \in [Sheets -> Row]
    <3>1. [rows[j.sheet] EXCEPT !.exists = TRUE, !.parts = catalog] \in Row
      BY <1>0 DEF Row
    <3>2. rows' \in {rows, [rows EXCEPT ![j.sheet] = [rows[j.sheet] EXCEPT !.exists = TRUE,
                                                                          !.parts = catalog]]}
      BY <1>3 DEF Create
    <3>3. QED
      BY <1>0, <3>1, <3>2
  <2>6. QED
    BY <1>0, <1>3, <2>4, <2>5, ElsewhereTyped DEF Create
<1>4. ASSUME Workflow(j)
      PROVE  Typed'
  <2> DEFINE d == DrawingOf[j.sheet]
  <2>1. PICK step \in {"stored", "refused"}, view \in {NoView} \cup View :
           /\ jobs' = (jobs \ {j}) \cup {[j EXCEPT !.step = step, !.view = view]}
           /\ step = "stored" => view \in View
    <3>1. /\ [ServerView EXCEPT !.locked = @ \cup {d}] \in View
          /\ [ServerView EXCEPT !.locked = @ \ {d}, !.stale = @ \cup SheetsIn(ServerView, d)]
                \in View
      BY <1>0 DEF View, SheetsIn
    <3>2. QED
      BY <1>0, <1>4, <3>1 DEF Workflow, Done, Refuse
  <2> DEFINE x == [j EXCEPT !.step = step, !.view = view]
  <2>2. x \in Job /\ CallFits(x) /\ x.kind = j.kind /\ x.live = j.live
    BY <1>0, <1>4, <2>1 DEF Workflow, Job, CallFits
  <2>3. jobs' = (jobs \ {j}) \cup {x}
    BY <2>1
  <2> HIDE DEF x
  <2>4. Fit(run, jobs') /\ \A k \in jobs' : Awaited(k)
    BY <1>0, <2>2, <2>3, ReplacedFits, SteppedAwaited DEF LiveReindex
  <2>5. rows' \in [Sheets -> Row]
    <3>1. \A s \in Sheets : [rows[s] EXCEPT !.stale = TRUE] \in Row
      BY <1>0 DEF Row
    <3>2. QED
      BY <1>0, <1>4, <3>1 DEF Workflow
  <2>6. released' \in SUBSET Drawings
    BY <1>0, <1>4 DEF Workflow
  <2>7. QED
    BY <1>0, <1>4, <2>4, <2>5, <2>6, ElsewhereTyped DEF Workflow
<1>5. QED
  BY <1>1, <1>2, <1>3, <1>4 DEF Serve

LEMMA FailTyped ==
    ASSUME Typed, NEW j \in jobs, Fail(j)
    PROVE  Typed'
<1> DEFINE x == [j EXCEPT !.step = "refused", !.view = NoView]
<1>1. Fit(run, jobs) /\ j \in Job
  BY JobsFit DEF Typed, TypeOK
<1>2. x \in Job /\ CallFits(x) /\ x.kind = j.kind /\ x.live = j.live
  BY <1>1 DEF Job, CallFits
<1>3. jobs' = (jobs \ {j}) \cup {x}
  BY DEF Fail
<1> HIDE DEF x
<1>4. Fit(run, jobs') /\ \A k \in jobs' : Awaited(k)
  BY <1>1, <1>2, <1>3, ReplacedFits, SteppedAwaited DEF LiveReindex
<1>5. QED
  BY <1>4, Counted, ElsewhereTyped DEF Fail, Unused, Typed, TypeOK

LEMMA ChangePartTyped ==
    ASSUME Typed, ChangePart
    PROVE  Typed'
<1>1. Fit(run, jobs) /\ \A k \in jobs : Awaited(k)
  BY JobsFit DEF Typed
<1>2. \A s \in Sheets : rows[s] \in Row /\ [rows[s] EXCEPT !.stale = TRUE] \in Row
  BY DEF Typed, TypeOK, Row
<1>3. rows' \in [Sheets -> Row]
  BY <1>2 DEF ChangePart
<1>4. /\ events' \in 0..MaxEvents /\ catalog' \in 0..MaxEvents /\ catalog' <= events'
  BY ConstantsAssumption DEF ChangePart, Count, Typed, TypeOK
<1>5. jobs' = jobs /\ UNCHANGED <<page, run, released, stored, home, dropped, acked>>
  BY DEF ChangePart
<1>6. QED
  BY <1>1, <1>3, <1>4, <1>5, ElsewhereTyped DEF Typed, TypeOK

LEMMA ReadSheetTyped ==
    ASSUME Typed, ReadSheet
    PROVE  /\ Typed'
           /\ page'.session = page.session /\ page'.drawing = page.drawing
           /\ page'.load # NoLoad => /\ page'.load.sheet = page.load.sheet
                                     /\ page'.load.found = rows[page.load.sheet].doc
<1> DEFINE l == [page.load EXCEPT !.read = TRUE, !.found = rows[page.load.sheet].doc]
<1>1. /\ page \in Page /\ page.load \in Load /\ page.load.sheet \in Sheets
      /\ rows[page.load.sheet].doc \in Docs
      /\ page.load.sheet = page.sheet
  BY DEF ReadSheet, Typed, TypeOK, Page, Load, Row
<1>2. l \in Load /\ l.sheet = page.load.sheet /\ l.found = rows[page.load.sheet].doc
  BY <1>1 DEF Load
<1>3. page' = [page EXCEPT !.load = l]
  BY DEF ReadSheet
<1> HIDE DEF l
<1>4. /\ page' \in Page /\ page'.load = l /\ page'.sheet = page.sheet
      /\ page'.drawing = page.drawing /\ page'.session = page.session
  BY <1>1, <1>2, <1>3 DEF Page
<1>5. /\ TypeOK' /\ RunFits(run, page.drawing, jobs)'
      /\ (\A j \in jobs : CallFits(j) /\ Awaited(j))'
  BY <1>1, <1>2, <1>4 DEF ReadSheet, Unused, Typed, TypeOK, RunFits, LiveReindex, CallFits, Awaited
<1>6. QED
  BY <1>1, <1>2, <1>4, <1>5 DEF ReadSheet, Unused, Typed

\* A call under way when another session opens.
LEMMA OpenedJob ==
    ASSUME NEW js \in SUBSET Job, NEW ks,
           ks = {[j EXCEPT !.live = @ /\ j.kind \notin {"save", "open"}] : j \in js}
    PROVE  \A k \in ks : \E j \in js : /\ Like(k, j)
                                       /\ ~(k.live /\ k.kind \in {"save", "open"})
<1> DEFINE x(j) == [j EXCEPT !.live = @ /\ j.kind \notin {"save", "open"}]
<1>1. ASSUME NEW j \in js
      PROVE  Like(x(j), j) /\ ~(x(j).live /\ x(j).kind \in {"save", "open"})
  <2>1. (j.live /\ j.kind \notin {"save", "open"}) \in BOOLEAN
    OBVIOUS
  <2>2. x(j) \in Job /\ x(j).live = (j.live /\ j.kind \notin {"save", "open"})
    BY <2>1 DEF Job
  <2>3. QED
    BY <2>2 DEF Like, Job
<1>2. ks = {x(j) : j \in js}
  OBVIOUS
<1> HIDE DEF x
<1>3. QED
  BY <1>1, <1>2

LEMMA OpenSessionTyped ==
    ASSUME Typed, OpenSession
    PROVE  Typed'
<1> DEFINE ss == [sheet |-> page.load.sheet, doc |-> page.load.found, saved |-> page.load.found]
           f == [j \in jobs |-> [j EXCEPT !.live = @ /\ j.kind \notin {"save", "open"}]]
           q == [page EXCEPT !.session = ss, !.load = NoLoad]
<1>1. page \in Page /\ page.load \in Load /\ Fit(run, jobs)
  BY JobsFit DEF OpenSession, Typed, TypeOK, Page
<1>2. q \in Page /\ q.load = NoLoad
  <2>1. ss \in Session
    BY <1>1 DEF Load, Session
  <2> HIDE DEF ss
  <2>2. QED
    BY <1>1, <2>1 DEF Page
<1>3. ASSUME NEW j \in jobs
      PROVE  f[j] \in Job /\ CallFits(f[j]) /\ (LiveReindex(f[j]) <=> LiveReindex(j))
  <2>1. j \in Job /\ CallFits(j) /\ (j.live /\ j.kind \notin {"save", "open"}) \in BOOLEAN
    BY <1>1 DEF Fit
  <2>2. f[j] \in Job /\ f[j].live = (j.live /\ j.kind \notin {"save", "open"})
    BY <2>1 DEF Job
  <2>3. QED
    BY <2>1, <2>2 DEF CallFits, LiveReindex, Job
<1>4. Become(q, run, {f[j] : j \in jobs})
  <2>1. {f[j] : j \in jobs} = {[j EXCEPT !.live = @ /\ j.kind \notin {"save", "open"}] : j \in jobs}
    OBVIOUS
  <2>2. QED
    BY <2>1 DEF OpenSession
<1> HIDE DEF f
<1>5. Fit(run, {f[j] : j \in jobs})
  BY <1>1, <1>3, ImageFits
<1> HIDE DEF q
<1>6. QED
  BY <1>2, <1>4, <1>5, Uncounted, BecomeTyped DEF OpenSession, Unused, Typed, TypeOK

LEMMA SchemeTyped ==
    ASSUME Typed, SchemeArrives
    PROVE  Typed'
<1> DEFINE q == [page EXCEPT !.ready = TRUE]
<1>1. /\ q \in Page /\ q.load = page.load /\ q.sheet = page.sheet
  BY DEF Typed, TypeOK, Page
<1>2. Become(q, run, jobs)
  BY DEF SchemeArrives
<1> HIDE DEF q
<1>3. QED
  BY <1>1, <1>2, JobsFit, Uncounted, BecomeTyped DEF SchemeArrives, Unused, Typed, TypeOK

LEMMA NextTyped ==
    ASSUME Typed, [Next]_vars
    PROVE  Typed'
<1>1. CASE Next
  BY <1>1, PumpTyped, UserTyped, AnswerTyped, ServeTyped, FailTyped, ChangePartTyped,
     ReadSheetTyped, OpenSessionTyped, SchemeTyped DEF Next
<1>2. CASE UNCHANGED vars
  BY <1>2 DEF vars, Typed, TypeOK, RunFits, LiveReindex, CallFits, Awaited
<1>3. QED
  BY <1>1, <1>2

\* Whatever overtakes what, the page's state keeps its types, its run is of the drawing
\* shown and waits exactly while a re-index of its own is under way, and there is never
\* more than one (pump, reindexNow, the effect on staleKey).
THEOREM TypeCorrect == Spec => [](TypeOK /\ OneReindexAtATime)
<1>1. Typed => TypeOK /\ OneReindexAtATime
  BY DEF Typed, RunFits, LiveReindex, OneReindexAtATime
<1>2. QED
  BY InitTyped, NextTyped, <1>1, PTL DEF Spec

-----------------------------------------------------------------------------
(* What the documents hold, said of a page p, rows r, the sheets h of the  *)
(* edits, what st was ever stored, what ak was reported saved.             *)

\* Every edit of the document was made on sheet s.
Owned(h, doc, s) == \A e \in doc : h[e] = s

SessionSound(p, h, st) ==
    p.session # NoSession =>
        /\ Owned(h, p.session.doc, p.session.sheet)
        /\ p.session.saved \subseteq p.session.doc
        /\ p.session.saved \subseteq st

LoadSound(p, h, st) ==
    p.load # NoLoad => Owned(h, p.load.found, p.load.sheet) /\ p.load.found \subseteq st

RowsSound(r, h, st) == \A s \in Sheets : Owned(h, r[s].doc, s) /\ r[s].doc \subseteq st

\* A save that is waited for came from the session there is; one with an edit not yet
\* reported leaves that session with unsaved edits.  A re-index is touched before it can
\* be late, and goes out only untouched.
CallSound(j, p, h, st, ak) ==
    /\ j.kind \in {"save", "list", "reindex", "open"} => Owned(h, j.doc, j.sheet)
    /\ j.kind = "save" /\ j.step = "stored" => j.doc \subseteq st
    /\ j.kind \in {"save", "open"} /\ j.live /\ p.session # NoSession =>
          p.session.sheet = j.sheet
    /\ j.kind = "save" /\ j.live /\ p.session # NoSession =>
          /\ j.doc \subseteq p.session.doc
          /\ p.session.doc = p.session.saved => j.doc \subseteq ak
    /\ j.late => j.touched
    /\ j.kind = "reindex" /\ j.step \in {"sent", "stored"} => ~j.late

\* A re-index that has begun is touched by the time a save of its sheet with an edit it
\* may not know is on its way.
Noticed(js, ak) ==
    \A i, j \in js :
        /\ i.kind = "save" /\ i.live /\ i.step = "sent" /\ ~(i.doc \subseteq ak)
        /\ j.kind = "reindex" /\ j.step \in {"reading", "read"} /\ j.sheet = i.sheet
        => j.touched

Sound ==
    /\ SessionSound(page, home, stored)
    /\ LoadSound(page, home, stored)
    /\ RowsSound(rows, home, stored)
    /\ \A j \in jobs : CallSound(j, page, home, stored, acked)
    /\ Noticed(jobs, acked)

\* Edits get a sheet and keep it.
Grows(h, g) == \A e \in Edits : h[e] # NoSheet => g[e] = h[e]

\* The session of q is the one of p, grown, and saved no further than is reported.
SessionKept(p, q, ak) ==
    q.session # NoSession =>
        /\ p.session # NoSession /\ q.session.sheet = p.session.sheet
        /\ p.session.doc \subseteq q.session.doc
        /\ q.session.doc = q.session.saved =>
              p.session.doc = p.session.saved \/ q.session.doc \subseteq ak

LEMMA OwnedStays ==
    ASSUME NEW h, NEW g, Grows(h, g), NEW doc \in Docs, NEW s \in Sheets, Owned(h, doc, s)
    PROVE  Owned(g, doc, s)
<1>1. s # NoSheet
  BY ConstantsAssumption
<1>2. QED
  BY <1>1 DEF Grows, Owned, Docs

LEMMA CallKept ==
    ASSUME NEW j \in Job, NEW p, NEW q, NEW h, NEW g, NEW st, NEW tt, NEW ak, NEW al,
           CallSound(j, p, h, st, ak), Grows(h, g), st \subseteq tt, ak \subseteq al,
           SessionKept(p, q, al)
    PROVE  CallSound(j, q, g, tt, al)
<1>1. j.doc \in Docs /\ j.sheet \in Sheets
  BY DEF Job
<1>2. j.kind \in {"save", "list", "reindex", "open"} => Owned(g, j.doc, j.sheet)
  BY <1>1, OwnedStays DEF CallSound
<1>3. QED
  BY <1>2 DEF CallSound, SessionKept

LEMMA LikeSound ==
    ASSUME NEW k, NEW j, Like(k, j), NEW p, NEW h, NEW st, NEW ak, CallSound(j, p, h, st, ak)
    PROVE  CallSound(k, p, h, st, ak)
  BY DEF Like, CallSound

LEMMA LikeNoticed ==
    ASSUME NEW js, NEW ks, NEW ak, Noticed(js, ak), \A k \in ks : \E j \in js : Like(k, j)
    PROVE  Noticed(ks, ak)
<1> SUFFICES ASSUME NEW i \in ks, NEW j \in ks,
                    i.kind = "save", i.live, i.step = "sent", ~(i.doc \subseteq ak),
                    j.kind = "reindex", j.step \in {"reading", "read"}, j.sheet = i.sheet
             PROVE  j.touched
  BY DEF Noticed
<1>1. PICK x \in js, y \in js : Like(i, x) /\ Like(j, y)
  OBVIOUS
<1>2. QED
  BY <1>1 DEF Like, Noticed

LEMMA NoticedMore ==
    ASSUME NEW js, NEW ks, NEW ak, NEW al, Noticed(js, ak), ks \subseteq js, ak \subseteq al
    PROVE  Noticed(ks, al)
  BY DEF Noticed

\* The calls under way stay sound while the page's session is kept.
LEMMA CallsKept ==
    ASSUME Typed, Sound, NEW q, NEW g, NEW al, Grows(home, g), acked \subseteq al,
           SessionKept(page, q, al)
    PROVE  /\ \A j \in jobs : CallSound(j, q, g, stored, al)
           /\ Noticed(jobs, al)
<1>1. jobs \in SUBSET Job
  BY DEF Typed, TypeOK
<1>2. QED
  BY <1>1, CallKept, NoticedMore DEF Sound

LEMMA BecomeSound ==
    ASSUME Typed, Sound, NEW q, NEW now, NEW js \in SUBSET Job, Become(q, now, js),
           UNCHANGED <<rows, stored>>, Grows(home, home'),
           SessionSound(q, home', stored), LoadSound(q, home', stored),
           \A x \in js : CallSound(x, q, home', stored, acked'),
           Noticed(js, acked')
    PROVE  Sound'
<1>1. /\ page' = q
      /\ \A k \in jobs' : \E j \in js : Like(k, j)
  BY BecomeJobs
<1>2. \A k \in jobs' : CallSound(k, q, home', stored, acked')
  BY <1>1, LikeSound
<1>3. Noticed(jobs', acked')
  BY <1>1, LikeNoticed
<1>4. RowsSound(rows, home', stored)
  <2>1. \A s \in Sheets : rows[s].doc \in Docs
    BY DEF Typed, TypeOK, Row
  <2>2. QED
    BY <2>1, OwnedStays DEF Sound, RowsSound
<1>5. QED
  BY <1>1, <1>2, <1>3, <1>4 DEF Sound

LEMMA ShownKept ==
    ASSUME Sound, NEW q, Shows(page, q), NEW al
    PROVE  /\ SessionSound(q, home, stored) /\ LoadSound(q, home, stored)
           /\ SessionKept(page, q, al)
  BY DEF Sound, Shows, SessionSound, LoadSound, SessionKept, Owned

\* A call that carries no document.
Plain(x) == x \in Job /\ x.kind \in {"add", "workflow", "refresh"} /\ ~x.late

\* The page shows something else, or calls without a document come and go.
LEMMA ShowsSound ==
    ASSUME Typed, Sound, NEW q, Shows(page, q), NEW now, NEW js, Become(q, now, js),
           \A x \in js : x \in jobs \/ Plain(x),
           UNCHANGED <<rows, stored, home, acked>>
    PROVE  Sound'
<1>1. jobs \in SUBSET Job /\ js \in SUBSET Job
  BY DEF Typed, TypeOK, Plain
<1>2. Grows(home, home') /\ acked \subseteq acked'
  BY DEF Grows
<1>3. /\ \A j \in jobs : CallSound(j, q, home', stored, acked')
      /\ Noticed(jobs, acked')
  BY <1>2, ShownKept, CallsKept
<1>4. \A x : Plain(x) => CallSound(x, q, home', stored, acked')
  BY DEF Plain, CallSound
<1>5. Noticed(js, acked')
  BY <1>3 DEF Noticed, Plain
<1>6. QED
  BY <1>1, <1>2, <1>3, <1>4, <1>5, ShownKept, BecomeSound

-----------------------------------------------------------------------------
(* Every step keeps the documents sound.                                   *)

LEMMA InitSound == Init => Sound
<1> SUFFICES ASSUME Init PROVE Sound
  OBVIOUS
<1>1. PICK d \in Drawings :
         page = WithFirstSheet([drawing |-> d, sheet |-> NoSheet, session |-> NoSession,
                                load |-> NoLoad, view |-> ServerView, ready |-> FALSE])
  BY DEF Init
<1> DEFINE p == [drawing |-> d, sheet |-> NoSheet, session |-> NoSession, load |-> NoLoad,
                 view |-> ServerView, ready |-> FALSE]
<1>2. p \in Page /\ p.load = NoLoad /\ p.session = NoSession
  <2>1. rows \in [Sheets -> Row]
    <3>1. 0 \in 0..MaxEvents
      BY ConstantsAssumption
    <3>2. QED
      BY <3>1 DEF Init, Row, Docs
  <2>2. QED
    BY <2>1, ServerViewType DEF Init, Page
<1> HIDE DEF p
<1>3. Shows(p, page)
  BY <1>1, <1>2, FirstSheetShown DEF p
<1>4. SessionSound(page, home, stored) /\ LoadSound(page, home, stored)
  BY <1>2, <1>3 DEF Shows, SessionSound, LoadSound, Owned
<1>5. \A s \in Sheets : rows[s].doc = {}
  BY DEF Init
<1>6. QED
  BY <1>4, <1>5 DEF Init, Sound, RowsSound, Owned, Noticed

LEMMA PageShown ==
    ASSUME Typed
    PROVE  Shows(page, page)
  BY DEF Typed, TypeOK, Shows

\* A save of the page's session goes out: its sheet is touched first.
LEMMA SavingSound ==
    ASSUME Typed, Sound, HasEditor, Dirty(page.session), NEW now,
           NEW x \in {SaveJob, [SaveJob EXCEPT !.release = TRUE]},
           Become(page, now, Touched(jobs, page.sheet) \cup {x}),
           UNCHANGED <<rows, stored, home, acked>>
    PROVE  Sound'
<1> DEFINE js == Touched(jobs, page.sheet)
<1>1. /\ x \in Job /\ x.kind = "save" /\ x.sheet = page.sheet /\ x.step = "sent"
      /\ x.doc = page.session.doc /\ ~x.late
  <2>1. CASE x = SaveJob
    BY <2>1, SaveJobType DEF SaveJob, NewJob, Typed
  <2>2. CASE x = [SaveJob EXCEPT !.release = TRUE]
    BY <2>2, SaveJobType DEF SaveJob, NewJob, Typed
  <2>3. QED
    BY <2>1, <2>2
<1>2. /\ js \in SUBSET Job
      /\ \A k \in js : \E j \in jobs : /\ Like(k, j)
                                       /\ k.kind = "reindex" /\ k.sheet = page.sheet => k.touched
  BY TouchedJob DEF Typed, TypeOK
<1>3. Become(page, now, js \cup {x})
  OBVIOUS
<1> HIDE DEF js
<1>4. Grows(home, home') /\ acked \subseteq acked'
  BY DEF Grows
<1>5. /\ SessionSound(page, home', stored) /\ LoadSound(page, home', stored)
      /\ SessionKept(page, page, acked')
      /\ \A j \in jobs : CallSound(j, page, home', stored, acked')
      /\ Noticed(jobs, acked')
  BY <1>4, PageShown, ShownKept, CallsKept
<1>6. \A k \in js : CallSound(k, page, home', stored, acked')
  BY <1>2, <1>5, LikeSound
<1>7. CallSound(x, page, home', stored, acked')
  BY <1>1, <1>5 DEF CallSound, SessionSound, HasEditor, Dirty
<1>8. Noticed(js \cup {x}, acked')
  <2>1. Noticed(js, acked')
    BY <1>2, <1>5, LikeNoticed
  <2>2. \A j \in js : j.kind = "reindex" /\ j.sheet = x.sheet => j.touched
    BY <1>1, <1>2
  <2>3. QED
    BY <1>1, <2>1, <2>2 DEF Noticed
<1>9. js \cup {x} \in SUBSET Job
  BY <1>1, <1>2
<1>10. QED
  BY <1>3, <1>4, <1>5, <1>6, <1>7, <1>8, <1>9, BecomeSound

\* An edit that is made now is in no document yet.
LEMMA FreshIsNew ==
    ASSUME NEW e \in Edits, Fresh(e), NEW s \in Sheets,
           home \in [Edits -> Sheets \cup {NoSheet}], home' = [home EXCEPT ![e] = s]
    PROVE  Grows(home, home') /\ home'[e] = s
  BY DEF Fresh, Grows

LEMMA UserSound ==
    ASSUME Typed, Sound, User
    PROVE  Sound'
<1>0. /\ page \in Page /\ jobs \in SUBSET Job
      /\ page.load # NoLoad => page.load.sheet = page.sheet
      /\ home \in [Edits -> Sheets \cup {NoSheet}]
      /\ Shows(page, page)
  BY PageShown DEF Typed, TypeOK
<1>1. ASSUME NEW s \in Sheets, SwitchSheet(s)
      PROVE  Sound'
  BY <1>0, <1>1, SheetShown, ShowsSound DEF SwitchSheet, Unused
<1>2. ASSUME NEW d \in Drawings, SwitchDrawing(d)
      PROVE  Sound'
  BY <1>0, <1>2, DrawingShown, ShowsSound DEF SwitchDrawing, Unused
<1>3. ASSUME NEW e \in Edits, Edit(e)
      PROVE  Sound'
  <2>1. PICK q : q = [page EXCEPT !.session.doc = @ \cup {e}] /\ Become(q, run, jobs)
    BY <1>3 DEF Edit
  <2>2. /\ page.session # NoSession /\ page.session.sheet = page.sheet
        /\ page.session \in Session /\ page.sheet \in Sheets /\ page.load = q.load
        /\ q.session.sheet = page.session.sheet
        /\ q.session.doc = page.session.doc \cup {e}
        /\ q.session.saved = page.session.saved
    <3>1. {e} \in Docs
      BY DEF Docs
    <3>2. QED
      BY <1>0, <1>3, <2>1, <3>1, EditedPage DEF Edit, HasEditor, Typed, Page, Session
  <2>3. Grows(home, home') /\ home'[e] = page.sheet
    BY <1>0, <1>3, <2>2, FreshIsNew DEF Edit
  <2>4. Owned(home', page.session.doc, page.sheet) /\ LoadSound(page, home', stored)
    <3>1. page.load # NoLoad => page.load.found \in Docs /\ page.load.sheet \in Sheets
      BY <1>0 DEF Page, Load
    <3>2. page.session.doc \in Docs
      BY <2>2 DEF Session
    <3>3. QED
      BY <2>2, <2>3, <3>1, <3>2, OwnedStays DEF Sound, SessionSound, LoadSound
  <2>5. SessionSound(q, home', stored) /\ LoadSound(q, home', stored)
    BY <2>2, <2>3, <2>4 DEF Sound, SessionSound, LoadSound, Owned
  <2>6. acked' = acked /\ UNCHANGED <<rows, stored>>
    BY <1>3 DEF Edit, Unused
  <2>7. SessionKept(page, q, acked')
    BY <2>2 DEF Sound, SessionSound, SessionKept
  <2>8. QED
    BY <1>0, <2>1, <2>3, <2>5, <2>6, <2>7, CallsKept, BecomeSound
<1>4. ASSUME Save
      PROVE  Sound'
  BY <1>4, SavingSound DEF Save, Unused
<1>5. ASSUME AskWorkflow
      PROVE  Sound'
  <2> DEFINE ask == [NewJob("workflow", page.sheet, "sent", {}) EXCEPT !.release = CanEdit]
  <2>1. CASE CanEdit /\ HasEditor /\ Dirty(page.session)
    BY <1>5, <2>1, SavingSound DEF AskWorkflow, Unused
  <2>2. CASE ~(CanEdit /\ HasEditor /\ Dirty(page.session))
    <3>1. Plain(ask)
      <4>1. page.sheet \in Sheets /\ {} \in Docs /\ CanEdit \in BOOLEAN
        BY <1>0, <1>5 DEF AskWorkflow, Page, Docs, CanEdit
      <4>2. QED
        BY <4>1, NewJobType DEF NewJob, Plain
    <3>2. Become(page, run, jobs \cup {ask})
      BY <1>5, <2>2 DEF AskWorkflow
    <3> HIDE DEF ask
    <3>3. QED
      BY <1>0, <1>5, <3>1, <3>2, ShowsSound DEF AskWorkflow, Unused
  <2>3. QED
    BY <2>1, <2>2
<1>6. ASSUME NEW S \in SUBSET Sheets, PressReindex(S)
      PROVE  Sound'
  <2> DEFINE saved == IF HasEditor /\ Dirty(page.session) THEN S \cap {page.sheet} ELSE {}
  <2>1. PICK again : Become(page, again, IF saved # {} /\ CanEdit
                                         THEN Touched(jobs, page.sheet) \cup {SaveJob} ELSE jobs)
    BY <1>6 DEF PressReindex
  <2>2. CASE saved # {} /\ CanEdit
    <3>1. HasEditor /\ Dirty(page.session)
      BY <2>2
    <3>2. QED
      BY <1>6, <2>1, <2>2, <3>1, SavingSound DEF PressReindex, Unused
  <2>3. CASE ~(saved # {} /\ CanEdit)
    BY <1>0, <1>6, <2>1, <2>3, ShowsSound DEF PressReindex, Unused
  <2>4. QED
    BY <2>2, <2>3
<1>7. ASSUME NEW s \in Sheets, AddSheet(s)
      PROVE  Sound'
  <2> DEFINE job == NewJob("add", s, "sent", {})
  <2>1. Plain(job)
    <3>1. {} \in Docs
      BY DEF Docs
    <3>2. QED
      BY <3>1, NewJobType DEF NewJob, Plain
  <2>2. Become(page, run, jobs \cup {job})
    BY <1>7 DEF AddSheet
  <2> HIDE DEF job
  <2>3. QED
    BY <1>0, <1>7, <2>1, <2>2, ShowsSound DEF AddSheet, Unused
<1>8. ASSUME NEW e \in Edits, NEW s \in Sheets, CommitListEdit(e, s)
      PROVE  Sound'
  <2>1. PICK kind \in {"open", "list"} :
           /\ Become(page, run, jobs \cup {NewJob(kind, s, "queued", {e})})
           /\ kind = "open" => HasEditor /\ s = page.sheet
    BY <1>8 DEF CommitListEdit
  <2> DEFINE x == NewJob(kind, s, "queued", {e})
  <2>2. /\ x \in Job /\ x.kind = kind /\ x.sheet = s /\ x.doc = {e} /\ ~x.late
        /\ x.step = "queued"
    <3>1. {e} \in Docs
      BY DEF Docs
    <3>2. QED
      BY <3>1, NewJobType DEF NewJob
  <2>3. Become(page, run, jobs \cup {x})
    BY <2>1
  <2> HIDE DEF x
  <2>4. Grows(home, home') /\ home'[e] = s /\ acked' = acked /\ UNCHANGED <<rows, stored>>
    BY <1>0, <1>8, FreshIsNew DEF CommitListEdit, Unused
  <2>5. SessionSound(page, home', stored) /\ LoadSound(page, home', stored)
    <3>1. page.load # NoLoad => page.load.found \in Docs /\ page.load.sheet \in Sheets
      BY <1>0 DEF Page, Load
    <3>2. page.session # NoSession => page.session.doc \in Docs /\ page.session.sheet \in Sheets
      BY <1>0 DEF Page, Session
    <3>3. QED
      BY <2>4, <3>1, <3>2, OwnedStays DEF Sound, SessionSound, LoadSound
  <2>6. /\ SessionKept(page, page, acked')
        /\ \A j \in jobs : CallSound(j, page, home', stored, acked')
        /\ Noticed(jobs, acked')
    BY <1>0, <2>4, ShownKept, CallsKept
  <2>7. CallSound(x, page, home', stored, acked')
    BY <2>1, <2>2, <2>4 DEF CallSound, Owned, HasEditor
  <2>8. Noticed(jobs \cup {x}, acked')
    BY <2>2, <2>6 DEF Noticed
  <2>9. jobs \cup {x} \in SUBSET Job
    BY <1>0, <2>2
  <2>10. QED
    BY <2>3, <2>4, <2>5, <2>6, <2>7, <2>8, <2>9, BecomeSound
<1>9. QED
  <2>1. /\ StaleIn(page.view, page.drawing) \subseteq Sheets
        /\ SheetsIn(page.view, page.drawing) \subseteq Sheets
    BY <1>0 DEF Page, View, StaleIn, SheetsIn
  <2>2. QED
    BY <1>1, <1>2, <1>3, <1>4, <1>5, <1>6, <1>7, <1>8, <2>1 DEF User

LEMMA AnswerSound ==
    ASSUME Typed, Sound, NEW j \in jobs, Answer(j)
    PROVE  Sound'
<1>0. /\ page \in Page /\ jobs \in SUBSET Job /\ j \in Job /\ j.sheet \in Sheets
      /\ page.load # NoLoad => page.load.sheet = page.sheet
      /\ Shows(page, page)
      /\ CallFits(j) /\ Awaited(j) /\ CallSound(j, page, home, stored, acked)
      /\ Grows(home, home)
  BY PageShown DEF Typed, TypeOK, Sound, Job, Grows
<1>1. Shows(page, Indexed(page, j.sheet))
  BY <1>0, IndexedShown
\* The page is left with its session, and j with another step.
<1>2. ASSUME NEW step \in {"reading", "sent"}, NEW js, Become(page, run, js),
             \/ js = (jobs \ {j}) \cup {[j EXCEPT !.step = step]}
             \/ js = Touched(jobs \ {j}, j.sheet) \cup {[j EXCEPT !.step = step]},
             j.kind \in {"list", "add", "reindex"},
             j.kind = "reindex" => step = "sent" /\ ~j.late,
             UNCHANGED <<rows, stored, home, acked>>
      PROVE  Sound'
  <2> DEFINE x == [j EXCEPT !.step = step]
  <2>1. /\ x \in Job /\ x.kind = j.kind /\ x.sheet = j.sheet /\ x.step = step /\ x.doc = j.doc
        /\ x.live = j.live /\ x.late = j.late /\ x.touched = j.touched
    BY <1>0 DEF Job
  <2>2. PICK ks : /\ js = ks \cup {x} /\ ks \in SUBSET Job
                  /\ \A k \in ks : \E i \in jobs : Like(k, i)
    <3>1. \A k \in jobs \ {j} : Like(k, k)
      BY <1>0 DEF Like
    <3>2. /\ Touched(jobs \ {j}, j.sheet) \in SUBSET Job
          /\ \A k \in Touched(jobs \ {j}, j.sheet) : \E i \in jobs \ {j} : Like(k, i)
      BY <1>0, TouchedJob
    <3>3. QED
      BY <1>0, <1>2, <3>1, <3>2
  <2> HIDE DEF x
  <2>3. /\ SessionSound(page, home', stored) /\ LoadSound(page, home', stored)
        /\ SessionKept(page, page, acked')
    BY <1>0, <1>2, ShownKept
  <2>4. /\ \A i \in jobs : CallSound(i, page, home', stored, acked')
        /\ Noticed(jobs, acked')
    BY <1>0, <1>2, <2>3, CallsKept
  <2>5. /\ \A k \in ks : CallSound(k, page, home', stored, acked')
        /\ Noticed(ks, acked')
    BY <2>2, <2>4, LikeSound, LikeNoticed
  <2>6. CallSound(x, page, home', stored, acked')
    BY <1>2, <2>1, <2>4 DEF CallSound
  <2>7. Noticed(ks \cup {x}, acked')
    BY <1>2, <2>1, <2>5 DEF Noticed
  <2>8. js \in SUBSET Job
    BY <2>1, <2>2
  <2>9. QED
    BY <1>0, <1>2, <2>2, <2>3, <2>5, <2>6, <2>7, <2>8, BecomeSound
<1>3. ASSUME CheckReindex(j)
      PROVE  Sound'
  <2>1. CASE StandsDown(j)
    BY <1>0, <1>3, <2>1, ShowsSound DEF CheckReindex, Unused
  <2>2. CASE ~StandsDown(j)
    <3>1. ~j.late
      BY <1>0, <2>2 DEF StandsDown, CallSound
    <3>2. QED
      BY <1>2, <1>3, <2>2, <3>1 DEF CheckReindex, Unused
  <2>3. QED
    BY <2>1, <2>2
<1>4. ASSUME EndReindex(j)
      PROVE  Sound'
  BY <1>0, <1>1, <1>4, ShowsSound DEF EndReindex, Unused
<1>5. ASSUME EndSave(j)
      PROVE  Sound'
  <2>1. CASE j.step # "stored"
    BY <1>0, <1>5, <2>1, ShowsSound DEF EndSave, Unused
  <2>2. CASE j.step = "stored"
    <3> DEFINE p == MarkedSaved(page, j)
               q == Indexed(p, j.sheet)
               job == [NewJob("workflow", j.sheet, "sent", {}) EXCEPT !.release = TRUE]
    <3>1. /\ p \in Page /\ p.load = page.load /\ p.sheet = page.sheet
          /\ ~j.live => p = page
          /\ j.live => /\ page.session # NoSession
                       /\ p.session \in Session
                       /\ p.session.sheet = page.session.sheet
                       /\ p.session.doc = page.session.doc
                       /\ p.session.saved = j.doc
      BY <1>0, <1>5, MarkedShown DEF EndSave, Typed, Awaited
    <3> HIDE DEF p
    <3>2. Shows(p, q) /\ q.session = p.session
      BY <1>0, <3>1, IndexedShown
    <3>3. Plain(job)
      <4>1. {} \in Docs
        BY DEF Docs
      <4>2. QED
        BY <1>0, <4>1, NewJobType DEF NewJob, Plain
    <3>4. PICK js : /\ Become(q, run, js)
                    /\ \A x \in js : x \in jobs \/ Plain(x)
      <4> DEFINE ks == (jobs \ {j}) \cup (IF j.release THEN {job} ELSE {})
      <4>1. Become(q, run, ks)
        BY <1>5, <2>2 DEF EndSave, p
      <4> HIDE DEF job
      <4>2. \A x \in ks : x \in jobs \/ Plain(x)
        BY <3>3
      <4>3. QED
        BY <4>1, <4>2
    <3> HIDE DEF q, job
    <3>5. acked' = acked \cup j.doc /\ UNCHANGED <<rows, stored, home>>
      BY <1>5, <2>2 DEF EndSave, Unused
    <3>6. SessionSound(q, home', stored) /\ LoadSound(q, home', stored)
      BY <1>0, <1>5, <2>2, <3>1, <3>2, <3>5
         DEF Sound, SessionSound, LoadSound, Owned, CallSound, EndSave, Shows
    <3>7. SessionKept(page, q, acked')
      BY <1>0, <1>5, <3>1, <3>2, <3>5 DEF SessionKept, CallSound, EndSave
    <3>8. /\ \A i \in jobs : CallSound(i, q, home', stored, acked')
          /\ Noticed(jobs, acked')
      BY <1>0, <3>5, <3>7, CallsKept
    <3>9. /\ \A x \in js : CallSound(x, q, home', stored, acked')
          /\ Noticed(js, acked') /\ js \in SUBSET Job
      BY <1>0, <3>4, <3>8 DEF Plain, CallSound, Noticed
    <3>10. QED
      BY <1>0, <3>4, <3>5, <3>6, <3>9, BecomeSound
  <2>3. QED
    BY <2>1, <2>2
<1>6. ASSUME EndWorkflow(j)
      PROVE  Sound'
  <2>1. CASE j.step = "stored"
    <3>1. /\ j.view \in View /\ page.view \in View /\ DrawingOf[j.sheet] \in Drawings
      BY <1>0, <1>6, <2>1, ConstantsAssumption DEF EndWorkflow, CallFits, Page
    <3>2. Shows(page, WithView(page, Replaced(page.view, j.view, DrawingOf[j.sheet])))
      BY <1>0, <3>1, ReplacedType, ViewShown
    <3>3. QED
      BY <1>0, <1>6, <2>1, <3>2, ShowsSound DEF EndWorkflow, Unused
  <2>2. CASE j.step # "stored"
    <3>1. Plain(NewJob("refresh", j.sheet, "reading", {}))
      <4>1. {} \in Docs
        BY DEF Docs
      <4>2. QED
        BY <1>0, <4>1, NewJobType DEF NewJob, Plain
    <3>2. PICK js : /\ Become(page, run, js)
                    /\ \A x \in js : x \in jobs \/ Plain(x)
      BY <1>6, <2>2, <3>1 DEF EndWorkflow
    <3>3. QED
      BY <1>0, <1>6, <3>2, ShowsSound DEF EndWorkflow, Unused
  <2>3. QED
    BY <2>1, <2>2
<1>7. ASSUME EndRefresh(j)
      PROVE  Sound'
  <2> DEFINE q == IF j.step = "read" THEN WithView(page, j.view) ELSE page
  <2>1. Shows(page, q)
    BY <1>0, <1>7, ViewShown DEF EndRefresh, CallFits
  <2> HIDE DEF q
  <2>2. Become(q, run, jobs \ {j})
    BY <1>7 DEF EndRefresh, q
  <2>3. QED
    BY <1>0, <1>7, <2>1, <2>2, ShowsSound DEF EndRefresh, Unused
<1>8. ASSUME GoOnAdding(j)
      PROVE  Sound'
  <2>1. CASE j.step = "stored"
    <3>1. Become(page, run, (jobs \ {j}) \cup {[j EXCEPT !.step = "reading"]})
      BY <1>8, <2>1 DEF GoOnAdding
    <3>2. QED
      BY <1>2, <1>8, <3>1 DEF GoOnAdding, Unused
  <2>2. CASE j.step = "refused"
    <3>1. Become(page, run, jobs \ {j})
      BY <1>8, <2>2 DEF GoOnAdding
    <3>2. QED
      BY <1>0, <1>8, <3>1, ShowsSound DEF GoOnAdding, Unused
  <2>3. CASE j.step = "read"
    <3> DEFINE p == [page EXCEPT !.view = j.view, !.drawing = DrawingOf[j.sheet]]
               q == WithSheet(p, j.sheet)
    <3>1. /\ p \in Page /\ p.load = page.load /\ p.sheet = page.sheet
          /\ p.session = page.session
      BY <1>0, <1>8, <2>3, ConstantsAssumption DEF GoOnAdding, CallFits, Page
    <3> HIDE DEF p
    <3>2. Shows(page, q)
      BY <1>0, <3>1, SheetShown DEF Shows
    <3>3. Become(q, run, jobs \ {j})
      BY <1>8, <2>3 DEF GoOnAdding, p
    <3> HIDE DEF q
    <3>4. QED
      BY <1>0, <1>8, <3>2, <3>3, ShowsSound DEF GoOnAdding, Unused
  <2>4. QED
    BY <1>8, <2>1, <2>2, <2>3 DEF GoOnAdding
<1>9. ASSUME TurnOfCommit(j)
      PROVE  Sound'
  <2>1. CASE j.kind = "list"
    <3>1. Become(page, run, (jobs \ {j}) \cup {[j EXCEPT !.step = "reading"]})
      BY <1>9, <2>1 DEF TurnOfCommit
    <3>2. QED
      BY <1>2, <1>9, <2>1, <3>1 DEF TurnOfCommit, Unused
  <2>2. CASE j.kind = "open" /\ ~j.live
    <3>1. Become(page, run, jobs \ {j})
      BY <1>9, <2>2 DEF TurnOfCommit
    <3>2. QED
      BY <1>0, <1>9, <3>1, ShowsSound DEF TurnOfCommit, Unused
  <2>3. CASE j.kind = "open" /\ j.live
    <3>1. PICK q : /\ q = [page EXCEPT !.session.doc = @ \cup j.doc]
                   /\ Become(q, run, jobs \ {j})
      BY <1>9, <2>3 DEF TurnOfCommit
    <3>2. /\ page.session # NoSession
          /\ q.session.sheet = page.session.sheet
          /\ q.session.doc = page.session.doc \cup j.doc
          /\ q.session.saved = page.session.saved
          /\ q.load = page.load
      <4>1. j.doc \in Docs /\ page.session # NoSession
        BY <1>0, <2>3 DEF Job, Awaited
      <4>2. QED
        BY <3>1, <4>1, EditedPage DEF Typed
    <3>3. acked' = acked /\ UNCHANGED <<rows, stored, home>>
      BY <1>9 DEF TurnOfCommit, Unused
    <3>4. SessionSound(q, home', stored) /\ LoadSound(q, home', stored)
      BY <1>0, <2>3, <3>2, <3>3 DEF Sound, SessionSound, LoadSound, Owned, CallSound
    <3>5. SessionKept(page, q, acked')
      BY <3>2 DEF Sound, SessionSound, SessionKept
    <3>6. /\ \A i \in jobs : CallSound(i, q, home', stored, acked')
          /\ Noticed(jobs \ {j}, acked')
      BY <1>0, <3>3, <3>5, CallsKept, NoticedMore
    <3>7. QED
      BY <1>0, <3>1, <3>3, <3>4, <3>6, BecomeSound
  <2>4. QED
    BY <1>9, <2>1, <2>2, <2>3 DEF TurnOfCommit
<1>10. ASSUME GoOnListing(j)
       PROVE  Sound'
  <2>1. CASE j.step = "read"
    <3>1. /\ Become(page, run, Touched(jobs \ {j}, j.sheet) \cup {[j EXCEPT !.step = "sent"]})
          /\ acked' = acked
      BY <1>10, <2>1 DEF GoOnListing
    <3>2. QED
      BY <1>2, <1>10, <3>1 DEF GoOnListing, Unused
  <2>2. CASE j.step = "stored"
    <3>1. /\ Become(Indexed(page, j.sheet), run, jobs \ {j})
          /\ acked' = acked \cup j.doc /\ UNCHANGED <<rows, stored, home>>
      BY <1>10, <2>2 DEF GoOnListing, Unused
    <3> DEFINE q == Indexed(page, j.sheet)
    <3>2. Become(q, run, jobs \ {j})
      BY <3>1
    <3> HIDE DEF q
    <3>3. /\ SessionSound(q, home, stored) /\ LoadSound(q, home, stored)
          /\ SessionKept(page, q, acked')
      BY <1>1, ShownKept DEF q
    <3>4. /\ \A i \in jobs : CallSound(i, q, home, stored, acked')
          /\ Noticed(jobs \ {j}, acked')
      BY <1>0, <3>1, <3>3, CallsKept, NoticedMore
    <3>5. QED
      BY <1>0, <3>1, <3>2, <3>3, <3>4, BecomeSound
  <2>3. CASE j.step = "refused"
    <3>1. Become(page, run, jobs \ {j}) /\ acked' = acked
      BY <1>10, <2>3 DEF GoOnListing
    <3>2. QED
      BY <1>0, <1>10, <3>1, ShowsSound DEF GoOnListing, Unused
  <2>4. QED
    BY <1>10, <2>1, <2>2, <2>3 DEF GoOnListing
<1>11. QED
  BY <1>3, <1>4, <1>5, <1>6, <1>7, <1>8, <1>9, <1>10 DEF Answer

\* A step that leaves the page, the run and what the page reports alone.
LEMMA ElsewhereSound ==
    ASSUME Typed, Sound, UNCHANGED <<page, home, acked>>, stored \subseteq stored',
           RowsSound(rows', home, stored'),
           \A k \in jobs' : CallSound(k, page, home, stored', acked),
           Noticed(jobs', acked)
    PROVE  Sound'
  BY DEF Sound, SessionSound, LoadSound

\* Calls are as sound with more stored.
LEMMA MoreStored ==
    ASSUME Typed, Sound, NEW tt, stored \subseteq tt
    PROVE  \A j \in jobs : CallSound(j, page, home, tt, acked)
  BY DEF Sound, CallSound

LEMMA PumpSound ==
    ASSUME Typed, Sound, Pump
    PROVE  Sound'
<1>1. UNCHANGED <<page, home, acked, rows, stored>>
  BY DEF Pump, Unused
<1>2. CASE jobs' = jobs
  BY <1>1, <1>2 DEF Sound
<1>3. CASE jobs' # jobs
  <2> DEFINE s == Smallest(Pending(run))
             x == NewJob("reindex", s, "reading", {})
  <2>1. jobs' = jobs \cup {x} /\ Starts(s)
    BY <1>3 DEF Pump
  <2>2. /\ x.kind = "reindex" /\ x.sheet = s /\ x.step = "reading" /\ x.doc = {}
        /\ ~x.late
    BY DEF NewJob
  <2> HIDE DEF x, s
  <2>3. CallSound(x, page, home, stored, acked)
    BY <2>2 DEF CallSound, Owned
  <2>4. ASSUME NEW i \in jobs, i.kind = "save", i.live, i.sheet = s
        PROVE  i.doc \subseteq acked
    <3>1. page.session # NoSession /\ CallSound(i, page, home, stored, acked)
      BY <2>4 DEF Typed, Awaited, Sound
    <3>2. page.session.sheet = s /\ ~Dirty(page.session)
      BY <2>1, <2>4, <3>1 DEF Starts, OpenWithEdits, CallSound
    <3>3. QED
      BY <2>4, <3>1, <3>2 DEF Dirty, CallSound
  <2>5. Noticed(jobs \cup {x}, acked)
    BY <2>2, <2>4 DEF Sound, Noticed
  <2>6. QED
    BY <1>1, <2>1, <2>3, <2>5 DEF Sound
<1>4. QED
  BY <1>2, <1>3

LEMMA ServeSound ==
    ASSUME Typed, Sound, NEW j \in jobs, Serve(j)
    PROVE  Sound'
<1>0. /\ jobs \in SUBSET Job /\ j \in Job /\ j.sheet \in Sheets
      /\ CallSound(j, page, home, stored, acked)
      /\ RowsSound(rows, home, stored) /\ Noticed(jobs, acked)
  BY DEF Typed, TypeOK, Job, Sound
\* j gets an answer that carries no document.
<1>1. ASSUME NEW x, x.kind = j.kind, x.sheet = j.sheet, x.live = j.live, x.doc = j.doc,
             x.late = j.late, x.touched = j.touched, x.step \in {"stored", "refused"},
             j.kind \in {"add", "workflow"}, jobs' = (jobs \ {j}) \cup {x},
             UNCHANGED <<page, home, acked, stored>>,
             \A s \in Sheets : rows'[s].doc = rows[s].doc
      PROVE  Sound'
  <2>1. CallSound(x, page, home, stored, acked)
    BY <1>0, <1>1 DEF CallSound
  <2>2. Noticed(jobs', acked)
    BY <1>0, <1>1 DEF Noticed
  <2>3. RowsSound(rows', home, stored)
    BY <1>0, <1>1 DEF RowsSound
  <2>4. QED
    BY <1>1, <2>1, <2>2, <2>3, ElsewhereSound DEF Sound
<1>2. ASSUME Read(j)
      PROVE  Sound'
  <2> DEFINE x == [ReadAnswer(j) EXCEPT !.step = "read"]
  <2>1. /\ jobs' = (jobs \ {j}) \cup {x}
        /\ x.kind = j.kind /\ x.sheet = j.sheet /\ x.live = j.live /\ x.step = "read"
        /\ x.touched = j.touched /\ x.late = j.late
        /\ j.kind = "list" => x.doc = j.doc \cup rows[j.sheet].doc
        /\ j.kind = "reindex" => x.doc = rows[j.sheet].doc
        /\ j.kind \in {"list", "reindex", "add", "refresh"}
    BY <1>2, ReadJob
  <2> HIDE DEF x
  <2>2. CallSound(x, page, home, stored, acked)
    BY <1>0, <2>1 DEF CallSound, RowsSound, Owned
  <2>3. Noticed(jobs', acked)
    <3>1. j.step = "reading"
      BY <1>2 DEF Read
    <3>2. QED
      BY <1>0, <2>1, <3>1 DEF Noticed
  <2>4. QED
    BY <1>0, <1>2, <2>1, <2>2, <2>3, ElsewhereSound DEF Sound, Read, Unused
<1>3. ASSUME Store(j)
      PROVE  Sound'
  <2>1. /\ \A k \in jobs' : \E i \in jobs :
              AfterStore(j, k, i) /\ (i = j => (k.step = "stored" <=> Open(j.sheet)))
        /\ stored \subseteq stored'
        /\ Open(j.sheet) => j.doc \subseteq stored'
    BY <1>3, StoreJobs, StoreRows
  <2>2. RowsSound(rows', home, stored')
    <3>1. Owned(home, j.doc, j.sheet)
      BY <1>0, <1>3 DEF Store, CallSound
    <3>2. QED
      BY <1>0, <1>3, <3>1, StoreRows DEF RowsSound
  <2>3. ASSUME NEW k \in jobs'
        PROVE  CallSound(k, page, home, stored', acked)
    <3>1. PICK i \in jobs : /\ AfterStore(j, k, i)
                            /\ i = j => (k.step = "stored" <=> Open(j.sheet))
      BY <2>1
    <3>2. CallSound(i, page, home, stored', acked)
      BY <2>1, MoreStored
    <3>3. k.late => k.touched
      BY <1>0, <1>3, <3>1, <3>2 DEF AfterStore, CallSound, Noticed, Store
    <3>4. k.kind = "reindex" /\ k.step \in {"sent", "stored"} => ~k.late
      BY <1>0, <1>3, <3>1, <3>2 DEF AfterStore, CallSound, Store
    <3>5. k.kind = "save" /\ k.step = "stored" => k.doc \subseteq stored'
      BY <2>1, <3>1, <3>2 DEF AfterStore, CallSound
    <3>6. QED
      BY <3>1, <3>2, <3>3, <3>4, <3>5 DEF AfterStore, CallSound
  <2>4. Noticed(jobs', acked)
    <3> SUFFICES ASSUME NEW k \in jobs', NEW l \in jobs',
                        k.kind = "save", k.live, k.step = "sent", ~(k.doc \subseteq acked),
                        l.kind = "reindex", l.step \in {"reading", "read"}, l.sheet = k.sheet
                 PROVE  l.touched
      BY DEF Noticed
    <3>1. PICK a \in jobs, b \in jobs : AfterStore(j, k, a) /\ AfterStore(j, l, b)
      BY <2>1
    <3>2. QED
      BY <1>0, <3>1 DEF AfterStore, Noticed
  <2>5. QED
    BY <1>3, <2>1, <2>2, <2>3, <2>4, ElsewhereSound DEF Store
<1>4. ASSUME Create(j)
      PROVE  Sound'
  <2>1. PICK step \in {"stored", "refused"} : jobs' = (jobs \ {j}) \cup {[j EXCEPT !.step = step]}
    BY <1>4 DEF Create
  <2> DEFINE x == [j EXCEPT !.step = step]
  <2>2. /\ x.kind = j.kind /\ x.sheet = j.sheet /\ x.live = j.live /\ x.doc = j.doc
        /\ x.late = j.late /\ x.touched = j.touched /\ x.step = step
    BY <1>0 DEF Job
  <2>3. jobs' = (jobs \ {j}) \cup {x}
    BY <2>1
  <2> HIDE DEF x
  <2>4. \A s \in Sheets : rows'[s].doc = rows[s].doc
    BY <1>4 DEF Create, Typed, TypeOK, Row
  <2>5. QED
    BY <1>1, <1>4, <2>2, <2>3, <2>4 DEF Create
<1>5. ASSUME Workflow(j)
      PROVE  Sound'
  <2>0. PICK step \in {"stored", "refused"} :
           \E view : jobs' = (jobs \ {j}) \cup {[j EXCEPT !.step = step, !.view = view]}
    BY <1>5 DEF Workflow, Done, Refuse
  <2>1. PICK view : jobs' = (jobs \ {j}) \cup {[j EXCEPT !.step = step, !.view = view]}
    BY <2>0
  <2> DEFINE x == [j EXCEPT !.step = step, !.view = view]
  <2>2. /\ x.kind = j.kind /\ x.sheet = j.sheet /\ x.live = j.live /\ x.doc = j.doc
        /\ x.late = j.late /\ x.touched = j.touched /\ x.step = step
    BY <1>0 DEF Job
  <2>3. jobs' = (jobs \ {j}) \cup {x}
    BY <2>1
  <2> HIDE DEF x
  <2>4. \A s \in Sheets : rows'[s].doc = rows[s].doc
    <3>1. \A s \in Sheets : [rows[s] EXCEPT !.stale = TRUE].doc = rows[s].doc
      BY DEF Typed, TypeOK, Row
    <3>2. QED
      BY <1>5, <3>1 DEF Workflow
  <2>5. QED
    BY <1>1, <1>5, <2>2, <2>3, <2>4 DEF Workflow
<1>6. QED
  BY <1>2, <1>3, <1>4, <1>5 DEF Serve

LEMMA FailSound ==
    ASSUME Typed, Sound, NEW j \in jobs, Fail(j)
    PROVE  Sound'
<1> DEFINE x == [j EXCEPT !.step = "refused", !.view = NoView]
<1>1. /\ x.kind = j.kind /\ x.sheet = j.sheet /\ x.live = j.live /\ x.doc = j.doc
      /\ x.late = j.late /\ x.touched = j.touched /\ x.step = "refused"
  BY DEF Typed, TypeOK, Job
<1>2. jobs' = (jobs \ {j}) \cup {x}
  BY DEF Fail
<1> HIDE DEF x
<1>3. CallSound(x, page, home, stored, acked)
  BY <1>1 DEF Sound, CallSound
<1>4. Noticed(jobs', acked)
  BY <1>1, <1>2 DEF Sound, Noticed
<1>5. QED
  BY <1>2, <1>3, <1>4, ElsewhereSound DEF Sound, Fail, Unused

LEMMA OtherSound ==
    ASSUME Typed, Sound, SchemeArrives \/ ReadSheet \/ OpenSession \/ ChangePart
    PROVE  Sound'
<1>1. CASE SchemeArrives
  <2> DEFINE q == [page EXCEPT !.ready = TRUE]
  <2>1. Shows(page, q)
    BY DEF Typed, TypeOK, Page, Shows
  <2>2. Become(q, run, jobs)
    BY <1>1 DEF SchemeArrives
  <2> HIDE DEF q
  <2>3. QED
    BY <1>1, <2>1, <2>2, ShowsSound DEF SchemeArrives, Unused
<1>2. CASE ReadSheet
  <2>1. /\ page'.session = page.session
        /\ page.load.sheet \in Sheets
        /\ page'.load # NoLoad => /\ page'.load.sheet = page.load.sheet
                                  /\ page'.load.found = rows[page.load.sheet].doc
        /\ UNCHANGED <<rows, stored, home, acked, jobs>>
    BY <1>2, ReadSheetTyped DEF ReadSheet, Unused, Typed, TypeOK, Page, Load
  <2>2. LoadSound(page', home, stored) /\ SessionSound(page', home, stored)
    BY <2>1 DEF Sound, LoadSound, SessionSound, RowsSound
  <2>3. SessionKept(page, page', acked)
    BY <2>1 DEF SessionKept
  <2>4. \A j \in jobs : CallSound(j, page', home, stored, acked)
    BY <2>1 DEF Sound, CallSound
  <2>5. QED
    BY <2>1, <2>2, <2>4 DEF Sound
<1>3. CASE OpenSession
  <2> DEFINE ss == [sheet |-> page.load.sheet, doc |-> page.load.found,
                    saved |-> page.load.found]
             ks == {[j EXCEPT !.live = @ /\ j.kind \notin {"save", "open"}] : j \in jobs}
             q == [page EXCEPT !.session = ss, !.load = NoLoad]
  <2>1. /\ q.session = ss /\ q.load = NoLoad /\ page.load # NoLoad
        /\ jobs \in SUBSET Job
    BY <1>3 DEF OpenSession, Typed, TypeOK, Page
  <2>2. SessionSound(q, home, stored) /\ LoadSound(q, home, stored)
    BY <2>1 DEF Sound, SessionSound, LoadSound
  <2>3. \A k \in ks : \E j \in jobs : /\ Like(k, j)
                                      /\ ~(k.live /\ k.kind \in {"save", "open"})
    BY <2>1, OpenedJob
  <2>4. Become(q, run, ks) /\ UNCHANGED <<rows, stored, home, acked>>
    BY <1>3 DEF OpenSession, Unused
  <2> HIDE DEF q, ks
  <2>5. \A k \in ks : CallSound(k, q, home, stored, acked)
    <3> SUFFICES ASSUME NEW k \in ks PROVE CallSound(k, q, home, stored, acked)
      OBVIOUS
    <3>1. PICK j \in jobs : Like(k, j) /\ ~(k.live /\ k.kind \in {"save", "open"})
      BY <2>3
    <3>2. CallSound(k, page, home, stored, acked)
      BY <3>1, LikeSound DEF Sound
    <3>3. QED
      BY <3>1, <3>2 DEF CallSound
  <2>6. Noticed(ks, acked)
    BY <2>3, LikeNoticed DEF Sound
  <2>7. ks \in SUBSET Job /\ Grows(home, home)
    BY <2>3 DEF Like, Grows
  <2>8. QED
    BY <2>2, <2>4, <2>5, <2>6, <2>7, BecomeSound
<1>4. CASE ChangePart
  <2>1. \A s \in Sheets : rows'[s].doc = rows[s].doc
    <3>1. \A s \in Sheets : [rows[s] EXCEPT !.stale = TRUE].doc = rows[s].doc
      BY DEF Typed, TypeOK, Row
    <3>2. QED
      BY <1>4, <3>1 DEF ChangePart
  <2>2. RowsSound(rows', home, stored)
    BY <2>1 DEF Sound, RowsSound
  <2>3. QED
    BY <1>4, <2>2, ElsewhereSound DEF Sound, ChangePart
<1>5. QED
  BY <1>1, <1>2, <1>3, <1>4

LEMMA NextSound ==
    ASSUME Typed, Sound, [Next]_vars
    PROVE  Sound'
<1>1. CASE Next
  BY <1>1, PumpSound, UserSound, AnswerSound, ServeSound, FailSound, OtherSound DEF Next
<1>2. CASE UNCHANGED vars
  BY <1>2 DEF vars, Sound
<1>3. QED
  BY <1>1, <1>2

LEMMA AlwaysSound == Spec => [](Typed /\ Sound)
  BY InitTyped, InitSound, NextTyped, NextSound, PTL DEF Spec

\* No document the server holds has an edit made on another sheet, whatever the order in
\* which sheets are switched, loaded, saved, listed and re-indexed (session, save).
THEOREM EditsAreAtHome == Spec => []EditsStayOnTheirSheet
<1>1. Sound => EditsStayOnTheirSheet
  BY DEF Sound, RowsSound, Owned, EditsStayOnTheirSheet
<1>2. QED
  BY AlwaysSound, <1>1, PTL

\* What the page counts as saved has been stored, though edits go on while a save is
\* under way and answers come in any order (markSaved of the captured version).
THEOREM SavedIsStored == Spec => []SavedMeansStored
<1>1. Sound => SavedMeansStored
  BY DEF Sound, SessionSound, SavedMeansStored
<1>2. QED
  BY AlwaysSound, <1>1, PTL

\* A re-index that goes out does not write over a save of the open session it had not
\* read: the touch count and the unsaved edits leave no gap between them (touchSheet,
\* openWithEdits, reindexSheet).
THEOREM ReindexYields == Spec => []ReindexYieldsToSaves
<1>1. Sound => ReindexYieldsToSaves
  BY DEF Sound, CallSound, ReindexYieldsToSaves
<1>2. QED
  BY AlwaysSound, <1>1, PTL



=============================================================================
