------------------------ MODULE DraftingPanelsProofs ------------------------
(***************************************************************************)
(* Two panels of the drafting page.  The release panel tells the standing   *)
(* of the open drawing, for any drawings and sheets: what it shows, and     *)
(* what the answers under way will tell, is what the server has, unless the *)
(* history says that it cannot be.  The lists drawer shows every sheet of   *)
(* the drawing as it is, for any sheets and references: its rows are        *)
(* derived from the page, whose copies are as filed or will be.             *)
(***************************************************************************)
EXTENDS ReleasePanel, ListsDrawer, FiniteSetTheorems, SequenceTheorems, NaturalsInduction, WellFoundedInduction, TLAPS

Reasons == [code : {"index_stale", "drc_errors"}, sheet : AllSheets]

DrawingRows ==
    [status : {"draft", "in_review", "released"}, revision : Nat, released : SUBSET Nat, stale : SUBSET AllSheets]

Worlds ==
    [status : [PanelDrawings -> {"draft", "in_review", "released"}], revision : [PanelDrawings -> Nat],
     released : [PanelDrawings -> SUBSET Nat], stale : SUBSET AllSheets, errors : SUBSET AllSheets]

Views == {NoView} \cup (PanelDrawings \X Nat)

PanelStates ==
    [rows : [PanelDrawings -> DrawingRows], open : PanelDrawings, sheet : AllSheets, dirty : BOOLEAN,
     reasons : SUBSET Reasons, busy : BOOLEAN, view : Views, snapshot : Views]

AnswerRows == UNION {[E -> DrawingRows] : E \in SUBSET PanelDrawings}

PanelCalls ==
    [kind : Moves \cup Writes \cup {"list", "snapshot"}, drawing : PanelDrawings, sheet : AllSheets \cup Nat,
     next : {"nothing", "submit", "release"}, step : {"sent", "done", "refused", "failed"}, holds : BOOLEAN,
     reasons : SUBSET Reasons, errors : BOOLEAN, rows : AnswerRows, old : SUBSET PanelDrawings]

PanelTyped ==
    /\ served \in Worlds
    /\ panel \in PanelStates
    /\ posted \subseteq PanelCalls
    /\ missed \subseteq PanelDrawings
    /\ panel.sheet \in SheetsOf[panel.open]

\* What an answer says still holds of every drawing that was not changed since.
SoundCall(c) ==
    /\ c.kind \in Writes => c.sheet \in SheetsOf[c.drawing]
    /\ c.kind = "snapshot" => c.sheet \in Nat /\ panel.view = <<c.drawing, c.sheet>>
    /\ c.step = "refused" =>
         /\ \A r \in c.reasons : r.sheet \in SheetsOf[c.drawing]
         /\ c.drawing \notin c.old => c.reasons \subseteq ReasonsOf(served, c.drawing)
    /\ c.step = "done" =>
         /\ c.kind \in Moves => DOMAIN c.rows = {c.drawing}
         /\ c.kind = "list" => DOMAIN c.rows = PanelDrawings
         /\ \A d \in DOMAIN c.rows \ c.old : c.rows[d] = RowOf(served, d)
         /\ c.kind \in Writes /\ c.drawing \notin c.old =>
              c.sheet \notin served.stale /\ (c.errors <=> c.sheet \in served.errors)

\* An answer to come that will tell of drawing d, or of which it is known that it came too late.
Tells(c, d) ==
    /\ c.step = "done" /\ c.drawing = d
    /\ \/ c.kind \in Moves
       \/ c.kind \in Writes /\ d \in c.old
       \/ c.kind \in Writes /\ [panel.rows[d] EXCEPT !.stale = @ \ {c.sheet}] = RowOf(served, d)

\* A drawing changed only by calls of the page is shown as it is, or an answer will tell.
RowsTold ==
    \A d \in PanelDrawings \ missed : panel.rows[d] = RowOf(served, d) \/ \E c \in posted : Tells(c, d)

WrittenSheet(s) ==
    \E c \in posted : c.step = "done" /\ c.kind \in Writes /\ c.drawing = panel.open /\ c.sheet = s

ReasonsStand ==
    /\ refusal \subseteq UNION {ReasonsOf(served, d) : d \in PanelDrawings}
    /\ ~mixed => \A r \in panel.reasons : r.sheet \in SheetsOf[panel.open]
    /\ ~mixed /\ ~mended =>
         /\ refusal \subseteq panel.reasons
         /\ \A r \in panel.reasons : r.code = "index_stale" => r.sheet \in served.stale \/ WrittenSheet(r.sheet)
    /\ panel.snapshot \in {NoView, panel.view}

PanelInv ==
    /\ PanelTyped
    /\ \A c \in posted : SoundCall(c)
    /\ RowsTold
    /\ ReasonsStand


-----------------------------------------------------------------------------
(* Drawings and what changes them.                                          *)

\* The change to world is one of drawing d and its sheets only.
LocalTo(d, world) ==
    /\ world \in Worlds
    /\ \A e \in PanelDrawings \ {d} :
          /\ RowOf(world, e) = RowOf(served, e) /\ ReasonsOf(world, e) = ReasonsOf(served, e)
          /\ \A s \in SheetsOf[e] : (s \in world.stale <=> s \in served.stale) /\ (s \in world.errors <=> s \in served.errors)

LEMMA RowTyped ==
    ASSUME NEW world \in Worlds, NEW d \in PanelDrawings
    PROVE  RowOf(world, d) \in DrawingRows
  BY DEF RowOf, Worlds, DrawingRows

LEMMA SheetsApart ==
    ASSUME NEW d \in PanelDrawings, NEW e \in PanelDrawings, NEW s \in SheetsOf[d], s \in SheetsOf[e]
    PROVE  d = e
  BY PanelAssumption

LEMMA SheetsWithin ==
    ASSUME NEW d \in PanelDrawings, NEW s \in SheetsOf[d]
    PROVE  s \in AllSheets
  BY DEF AllSheets

LEMMA ReasonFacts ==
    ASSUME NEW world \in Worlds, NEW d \in PanelDrawings
    PROVE  /\ ReasonsOf(world, d) \subseteq Reasons
           /\ \A r \in ReasonsOf(world, d) :
                 /\ r.sheet \in SheetsOf[d]
                 /\ r.code = "index_stale" => r.sheet \in world.stale
                 /\ r.code = "drc_errors" => r.sheet \in world.errors /\ r.sheet \notin world.stale
  BY SheetsWithin DEF ReasonsOf, Reasons, Worlds

LEMMA RawLocal ==
    ASSUME NEW d \in PanelDrawings, NEW world \in Worlds, served \in Worlds,
           \A e \in PanelDrawings \ {d} :
              /\ world.status[e] = served.status[e] /\ world.revision[e] = served.revision[e]
              /\ world.released[e] = served.released[e],
           \A e \in PanelDrawings \ {d} : \A s \in SheetsOf[e] :
              (s \in world.stale <=> s \in served.stale) /\ (s \in world.errors <=> s \in served.errors)
    PROVE  LocalTo(d, world)
<1>1. SUFFICES ASSUME NEW e \in PanelDrawings \ {d}
               PROVE  RowOf(world, e) = RowOf(served, e) /\ ReasonsOf(world, e) = ReasonsOf(served, e)
  BY DEF LocalTo
<1>2. world.stale \cap SheetsOf[e] = served.stale \cap SheetsOf[e]
  OBVIOUS
<1>3. (world.errors \ world.stale) \cap SheetsOf[e] = (served.errors \ served.stale) \cap SheetsOf[e]
  OBVIOUS
<1>4. QED
  BY <1>2, <1>3 DEF RowOf, ReasonsOf

\* What an accepted call makes of the drawings.
LEMMA AfterFacts ==
    ASSUME served \in Worlds, NEW kind \in Moves \cup Writes \cup {"list", "snapshot"}, NEW d \in PanelDrawings,
           NEW s, NEW errors, kind \in Writes => s \in SheetsOf[d]
    PROVE  /\ LocalTo(d, After(kind, d, s, errors))
           /\ kind \in {"list", "snapshot"} => After(kind, d, s, errors) = served
           /\ kind \notin Writes => served.stale \subseteq After(kind, d, s, errors).stale
           /\ kind \in Writes =>
                /\ After(kind, d, s, errors).stale = served.stale \ {s}
                /\ RowOf(After(kind, d, s, errors), d) = [RowOf(served, d) EXCEPT !.stale = @ \ {s}]
<1> DEFINE world == After(kind, d, s, errors)
<1>1. LocalTo(d, served)
  BY DEF LocalTo
<1>2. CASE kind \in {"list", "snapshot"}
  <2>1. world = served
    BY <1>2 DEF After, Writes
  <2>2. QED
    BY <1>1, <1>2, <2>1 DEF Writes
<1>3. CASE kind \in Moves
  <2>1. /\ world.status \in [PanelDrawings -> {"draft", "in_review", "released"}]
        /\ world.revision \in [PanelDrawings -> Nat]
        /\ world.released \in [PanelDrawings -> SUBSET Nat]
        /\ world.stale = served.stale \cup (IF kind = "revise" THEN SheetsOf[d] ELSE {})
        /\ world.errors = served.errors
        /\ world = [status |-> world.status, revision |-> world.revision, released |-> world.released,
                    stale |-> world.stale, errors |-> world.errors]
        /\ \A e \in PanelDrawings \ {d} :
              /\ world.status[e] = served.status[e] /\ world.revision[e] = served.revision[e]
              /\ world.released[e] = served.released[e]
    <3>1. /\ served.status \in [PanelDrawings -> {"draft", "in_review", "released"}]
          /\ served.revision \in [PanelDrawings -> Nat] /\ served.released \in [PanelDrawings -> SUBSET Nat]
          /\ served = [status |-> served.status, revision |-> served.revision, released |-> served.released,
                       stale |-> served.stale, errors |-> served.errors]
      BY DEF Worlds
    <3> DEFINE Is(status, revision, released) ==
                 world = [status |-> [served.status EXCEPT ![d] = status],
                          revision |-> [served.revision EXCEPT ![d] = revision],
                          released |-> [served.released EXCEPT ![d] = released],
                          stale |-> served.stale \cup (IF kind = "revise" THEN SheetsOf[d] ELSE {}),
                          errors |-> served.errors]
    <3>2. PICK status \in {"draft", "in_review", "released"}, revision \in Nat, released \in SUBSET Nat :
             Is(status, revision, released)
      <4>1. served.revision[d] \in Nat /\ served.released[d] \subseteq Nat
        BY <3>1
      <4>2. /\ [served.revision EXCEPT ![d] = served.revision[d]] = served.revision
            /\ [served.released EXCEPT ![d] = served.released[d]] = served.released
            /\ served.stale \cup {} = served.stale
        BY <3>1
      <4>3. CASE kind = "submit"
        <5>1. world = [served EXCEPT !.status[d] = "in_review"]
          BY <4>3 DEF After, Writes
        <5>2. world = [status |-> [served.status EXCEPT ![d] = "in_review"], revision |-> served.revision,
                       released |-> served.released, stale |-> served.stale, errors |-> served.errors]
          BY <3>1, <5>1
        <5>3. Is("in_review", served.revision[d], served.released[d])
          BY <4>2, <4>3, <5>2
        <5> HIDE DEF Is
        <5>4. QED
          BY <4>1, <5>3
      <4>4. CASE kind = "withdraw"
        <5>1. world = [served EXCEPT !.status[d] = "draft"]
          BY <4>4 DEF After, Writes
        <5>2. world = [status |-> [served.status EXCEPT ![d] = "draft"], revision |-> served.revision,
                       released |-> served.released, stale |-> served.stale, errors |-> served.errors]
          BY <3>1, <5>1
        <5>3. Is("draft", served.revision[d], served.released[d])
          BY <4>2, <4>4, <5>2
        <5> HIDE DEF Is
        <5>4. QED
          BY <4>1, <5>3
      <4>5. CASE kind = "release"
        <5>1. world = [served EXCEPT !.status[d] = "released", !.released[d] = served.released[d] \cup {served.revision[d]}]
          BY <4>5 DEF After, Writes
        <5>2. world = [status |-> [served.status EXCEPT ![d] = "released"], revision |-> served.revision,
                       released |-> [served.released EXCEPT ![d] = served.released[d] \cup {served.revision[d]}],
                       stale |-> served.stale, errors |-> served.errors]
          BY <3>1, <5>1
        <5>3. served.released[d] \cup {served.revision[d]} \in SUBSET Nat
          BY <4>1
        <5>4. Is("released", served.revision[d], served.released[d] \cup {served.revision[d]})
          BY <4>2, <4>5, <5>2
        <5> HIDE DEF Is
        <5>5. QED
          BY <4>1, <5>4, <5>3
      <4>6. CASE kind = "revise"
        <5>1. world = [served EXCEPT !.status[d] = "draft", !.revision[d] = served.revision[d] + 1,
                                     !.stale = served.stale \cup SheetsOf[d]]
          BY <4>6 DEF After, Writes
        <5>2. world = [status |-> [served.status EXCEPT ![d] = "draft"],
                       revision |-> [served.revision EXCEPT ![d] = served.revision[d] + 1],
                       released |-> served.released, stale |-> served.stale \cup SheetsOf[d], errors |-> served.errors]
          BY <3>1, <5>1
        <5>3. served.revision[d] + 1 \in Nat
          BY <4>1
        <5>4. Is("draft", served.revision[d] + 1, served.released[d])
          BY <4>2, <4>6, <5>2
        <5> HIDE DEF Is
        <5>5. QED
          BY <4>1, <5>4, <5>3
      <4>7. QED
        BY <1>3, <4>3, <4>4, <4>5, <4>6 DEF Moves
    <3> HIDE DEF world
    <3>3. QED
      BY <3>1, <3>2
  <2>2. SheetsOf[d] \subseteq AllSheets
    BY SheetsWithin
  <2>3. world.stale \subseteq AllSheets /\ world.errors \subseteq AllSheets
    BY <2>1, <2>2 DEF Worlds
  <2> HIDE DEF world
  <2>4. world \in Worlds
    BY <2>1, <2>3 DEF Worlds
  <2>5. \A e \in PanelDrawings \ {d} : \A q \in SheetsOf[e] : q \notin SheetsOf[d]
    BY SheetsApart
  <2>6. LocalTo(d, world)
    BY <2>1, <2>4, <2>5, RawLocal
  <2>7. QED
    BY <1>3, <2>1, <2>6 DEF world, Moves, Writes
<1>4. CASE kind \in Writes
  <2>1. /\ world = [status |-> served.status, revision |-> served.revision, released |-> served.released,
                    stale |-> served.stale \ {s}, errors |-> (served.errors \ {s}) \cup {q \in {s} : errors}]
    BY <1>4 DEF After, Writes, Worlds
  <2>2. s \in AllSheets
    BY <1>4, SheetsWithin
  <2> HIDE DEF world
  <2>3. world \in Worlds
    BY <2>1, <2>2 DEF Worlds
  <2>4. \A e \in PanelDrawings \ {d} : s \notin SheetsOf[e]
    BY <1>4, SheetsApart
  <2>5. LocalTo(d, world)
    BY <2>1, <2>3, <2>4, RawLocal
  <2>6. RowOf(world, d) = [RowOf(served, d) EXCEPT !.stale = @ \ {s}]
    <3>1. (served.stale \ {s}) \cap SheetsOf[d] = (served.stale \cap SheetsOf[d]) \ {s}
      OBVIOUS
    <3>2. QED
      BY <2>1, <3>1 DEF RowOf
  <2>7. world.stale = served.stale \ {s}
    BY <2>1
  <2>8. QED
    BY <1>4, <2>5, <2>6, <2>7 DEF world, Writes
<1>5. QED
  BY <1>2, <1>3, <1>4

LEMMA AfterErrors ==
    ASSUME served \in Worlds, NEW kind \in Writes, NEW d, NEW s
    PROVE  s \in After(kind, d, s, TRUE).errors /\ s \notin After(kind, d, s, FALSE).errors
<1> DEFINE yes == After(kind, d, s, TRUE)
           no == After(kind, d, s, FALSE)
<1>1. yes = [status |-> served.status, revision |-> served.revision, released |-> served.released,
             stale |-> served.stale \ {s}, errors |-> (served.errors \ {s}) \cup {q \in {s} : TRUE}]
  BY DEF After, Writes, Worlds
<1>2. no = [status |-> served.status, revision |-> served.revision, released |-> served.released,
            stale |-> served.stale \ {s}, errors |-> (served.errors \ {s}) \cup {q \in {s} : FALSE}]
  BY DEF After, Writes, Worlds
<1>3. s \in {q \in {s} : TRUE} /\ s \notin {q \in {s} : FALSE}
  OBVIOUS
<1> HIDE DEF yes, no
<1>4. s \in yes.errors
  BY <1>1, <1>3
<1>5. s \notin no.errors
  BY <1>2, <1>3
<1>6. QED
  BY <1>4, <1>5 DEF yes, no

-----------------------------------------------------------------------------
(* Calls under way when drawing d changes.                                  *)

\* A call under way as it is after the change to world: an answer not yet taken is out of date for d.
Aged(b, d, world) == IF world = served \/ b.step = "sent" THEN b ELSE [b EXCEPT !.old = b.old \cup {d}]

LEMMA ChangesAge ==
    ASSUME NEW world, NEW d, NEW calls, NEW answers, Changes(world, d, calls, answers)
    PROVE  /\ served' = world
           /\ posted' = answers \cup {Aged(b, d, world) : b \in calls}
           /\ refusal' = refusal \cap UNION {ReasonsOf(world, e) : e \in PanelDrawings}
<1>1. CASE world = served
  <2>1. {Aged(b, d, world) : b \in calls} = calls
    BY <1>1 DEF Aged
  <2>2. QED
    BY <1>1, <2>1 DEF Changes
<1>2. CASE world # served
  BY <1>2 DEF Changes, Aged
<1>3. QED
  BY <1>1, <1>2

LEMMA AgedFields ==
    ASSUME NEW world, NEW d \in PanelDrawings, NEW b \in PanelCalls
    PROVE  /\ Aged(b, d, world) \in PanelCalls
           /\ Aged(b, d, world).kind = b.kind /\ Aged(b, d, world).drawing = b.drawing
           /\ Aged(b, d, world).sheet = b.sheet /\ Aged(b, d, world).step = b.step
           /\ Aged(b, d, world).rows = b.rows /\ Aged(b, d, world).reasons = b.reasons
           /\ Aged(b, d, world).errors = b.errors
           /\ b.old \subseteq Aged(b, d, world).old
           /\ world = served \/ b.step = "sent" \/ d \in Aged(b, d, world).old
<1>1. b.old \cup {d} \in SUBSET PanelDrawings
  BY DEF PanelCalls
<1>2. [b EXCEPT !.old = b.old \cup {d}] \in PanelCalls
  BY <1>1 DEF PanelCalls
<1>3. QED
  BY <1>1, <1>2 DEF Aged, PanelCalls

LEMMA AgedSound ==
    ASSUME PanelTyped, NEW d \in PanelDrawings, NEW world, LocalTo(d, world), NEW b \in posted, SoundCall(b),
           served' = world, panel' = panel, NEW c, c = Aged(b, d, world)
    PROVE  SoundCall(c)'
<1>1. b \in PanelCalls
  BY DEF PanelTyped
<1>2. /\ c.kind = b.kind /\ c.drawing = b.drawing /\ c.sheet = b.sheet /\ c.step = b.step
      /\ c.rows = b.rows /\ c.reasons = b.reasons /\ c.errors = b.errors
      /\ b.old \subseteq c.old /\ (world = served \/ b.step = "sent" \/ d \in c.old)
  BY <1>1, AgedFields
<1>3. /\ b.drawing \in PanelDrawings /\ b.rows \in AnswerRows
      /\ b.kind \in Writes => b.sheet \in SheetsOf[b.drawing]
  BY <1>1 DEF PanelCalls, SoundCall
<1>4. DOMAIN b.rows \subseteq PanelDrawings
  BY <1>3 DEF AnswerRows
<1>5. \A e \in PanelDrawings \ c.old : b.step # "sent" =>
         /\ RowOf(world, e) = RowOf(served, e) /\ ReasonsOf(world, e) = ReasonsOf(served, e)
         /\ \A s \in SheetsOf[e] : (s \in world.stale <=> s \in served.stale) /\ (s \in world.errors <=> s \in served.errors)
  BY <1>2 DEF LocalTo
<1>6. ASSUME c.step = "refused"
      PROVE  /\ \A r \in c.reasons : r.sheet \in SheetsOf[c.drawing]
             /\ c.drawing \notin c.old => c.reasons \subseteq ReasonsOf(world, c.drawing)
  BY <1>2, <1>3, <1>5, <1>6 DEF SoundCall
<1>7. ASSUME c.step = "done"
      PROVE  /\ c.kind \in Moves => DOMAIN c.rows = {c.drawing}
             /\ c.kind = "list" => DOMAIN c.rows = PanelDrawings
             /\ \A e \in DOMAIN c.rows \ c.old : c.rows[e] = RowOf(world, e)
             /\ c.kind \in Writes /\ c.drawing \notin c.old =>
                  c.sheet \notin world.stale /\ (c.errors <=> c.sheet \in world.errors)
  <2>1. \A e \in DOMAIN c.rows \ c.old : c.rows[e] = RowOf(world, e)
    BY <1>2, <1>4, <1>5, <1>7 DEF SoundCall
  <2>2. c.kind \in Writes /\ c.drawing \notin c.old =>
           c.sheet \notin world.stale /\ (c.errors <=> c.sheet \in world.errors)
    BY <1>2, <1>3, <1>5, <1>7 DEF SoundCall
  <2>3. QED
    BY <1>2, <1>7, <2>1, <2>2 DEF SoundCall
<1>8. QED
  BY <1>2, <1>6, <1>7 DEF SoundCall

LEMMA AgedTells ==
    ASSUME PanelTyped, NEW d \in PanelDrawings, NEW world, LocalTo(d, world), NEW b \in posted,
           served' = world, panel' = panel, NEW c, c = Aged(b, d, world), NEW e \in PanelDrawings, Tells(b, e)
    PROVE  Tells(c, e)'
<1>1. b \in PanelCalls
  BY DEF PanelTyped
<1>2. /\ c.kind = b.kind /\ c.drawing = b.drawing /\ c.sheet = b.sheet /\ c.step = b.step
      /\ b.old \subseteq c.old /\ (world = served \/ b.step = "sent" \/ d \in c.old)
  BY <1>1, AgedFields
<1>3. e # d \/ world = served => RowOf(world, e) = RowOf(served, e)
  BY DEF LocalTo
<1>4. QED
  BY <1>2, <1>3 DEF Tells

\* A change of drawing d is known to be missed, or of it an answer among the new ones tells.
LEMMA ChangesHold ==
    ASSUME PanelInv, NEW d \in PanelDrawings, NEW world, LocalTo(d, world),
           NEW calls, calls \subseteq posted, \A b \in posted \ calls : b.step = "sent",
           NEW answers, Changes(world, d, calls, answers), panel' = panel,
           missed \subseteq missed', missed' \subseteq PanelDrawings, mixed' = mixed, mended => mended',
           \A c \in answers : c \in PanelCalls /\ SoundCall(c)',
           \/ d \in missed'
           \/ panel.rows[d] = RowOf(served, d) => panel.rows[d] = RowOf(world, d) \/ \E c \in answers : Tells(c, d)',
           \/ mended' \/ d # panel.open
           \/ \A s \in served.stale \cap SheetsOf[d] :
                 \/ s \in world.stale
                 \/ \E c \in answers : c.step = "done" /\ c.kind \in Writes /\ c.drawing = d /\ c.sheet = s
    PROVE  PanelInv'
<1>1. /\ served' = world
      /\ posted' = answers \cup {Aged(b, d, world) : b \in calls}
      /\ refusal' = refusal \cap UNION {ReasonsOf(world, e) : e \in PanelDrawings}
  BY ChangesAge
<1>2. PanelTyped /\ world \in Worlds
  BY DEF PanelInv, LocalTo
<1>3. \A b \in calls : b \in posted /\ b \in PanelCalls /\ SoundCall(b)
  BY <1>2 DEF PanelInv, PanelTyped
<1>4. PanelTyped'
  <2>1. \A b \in calls : Aged(b, d, world) \in PanelCalls
    BY <1>3, AgedFields
  <2>2. posted' \subseteq PanelCalls
    BY <1>1, <2>1
  <2>3. QED
    BY <1>1, <1>2, <2>2 DEF PanelTyped
<1>5. ASSUME NEW c \in posted'
      PROVE  SoundCall(c)'
  <2>1. CASE c \in answers
    BY <2>1
  <2>2. CASE c \notin answers
    <3>1. PICK b \in calls : c = Aged(b, d, world)
      BY <1>1, <2>2
    <3>2. QED
      BY <1>1, <1>2, <1>3, <3>1, AgedSound
  <2>3. QED
    BY <2>1, <2>2
<1>6. ASSUME NEW e \in PanelDrawings, e \notin missed'
      PROVE  panel.rows[e] = RowOf(world, e) \/ \E c \in posted' : Tells(c, e)'
  <2>1. CASE panel.rows[e] = RowOf(served, e) /\ e # d
    BY <2>1 DEF LocalTo
  <2>2. CASE panel.rows[e] = RowOf(served, e) /\ e = d
    BY <1>1, <1>6, <2>2
  <2>3. CASE panel.rows[e] # RowOf(served, e)
    <3>1. PICK b \in posted : Tells(b, e)
      BY <1>6, <2>3 DEF PanelInv, RowsTold
    <3>2. b \in calls
      BY <3>1 DEF Tells
    <3>3. PICK c \in posted' : c = Aged(b, d, world)
      BY <1>1, <3>2
    <3>4. Tells(c, e)'
      BY <1>1, <1>2, <3>1, <3>3, AgedTells
    <3>5. QED
      BY <3>4
  <2>4. QED
    BY <2>1, <2>2, <2>3
<1>7. RowsTold'
  BY <1>1, <1>6 DEF RowsTold
<1>8. ASSUME ~mixed', ~mended', NEW r \in panel.reasons, r.code = "index_stale"
      PROVE  \/ r.sheet \in world.stale
             \/ \E c \in posted' : c.step = "done" /\ c.kind \in Writes /\ c.drawing = panel.open /\ c.sheet = r.sheet
  <2>1. r.sheet \in SheetsOf[panel.open] /\ panel.open \in PanelDrawings /\ (r.sheet \in served.stale \/ WrittenSheet(r.sheet))
    BY <1>2, <1>8 DEF PanelInv, ReasonsStand, PanelTyped, PanelStates
  <2>2. CASE r.sheet \in served.stale /\ d # panel.open
    BY <2>1, <2>2 DEF LocalTo
  <2>3. CASE r.sheet \in served.stale /\ d = panel.open
    BY <1>1, <1>8, <2>1, <2>3
  <2>4. CASE WrittenSheet(r.sheet)
    <3>1. PICK b \in posted : b.step = "done" /\ b.kind \in Writes /\ b.drawing = panel.open /\ b.sheet = r.sheet
      BY <2>4 DEF WrittenSheet
    <3>2. b \in calls /\ b \in PanelCalls
      BY <1>2, <3>1 DEF PanelTyped
    <3>3. PICK c \in posted' : c = Aged(b, d, world)
      BY <1>1, <3>2
    <3>4. c.step = "done" /\ c.kind \in Writes /\ c.drawing = panel.open /\ c.sheet = r.sheet
      <4>1. /\ Aged(b, d, world).kind = b.kind /\ Aged(b, d, world).drawing = b.drawing
            /\ Aged(b, d, world).sheet = b.sheet /\ Aged(b, d, world).step = b.step
        BY <3>2, AgedFields
      <4>2. QED
        BY <3>1, <3>3, <4>1
    <3>5. QED
      BY <3>4
  <2>5. QED
    BY <2>1, <2>2, <2>3, <2>4
<1>9. ReasonsStand'
  <2>1. refusal' \subseteq UNION {ReasonsOf(world, e) : e \in PanelDrawings} /\ refusal' \subseteq refusal
    BY <1>1
  <2>2. UNION {ReasonsOf(world, e) : e \in PanelDrawings} = (UNION {ReasonsOf(served, e) : e \in PanelDrawings})'
    BY <1>1
  <2>3. \A r \in panel.reasons : ~mixed' /\ ~mended' /\ r.code = "index_stale" =>
           r.sheet \in world.stale \/ WrittenSheet(r.sheet)'
    BY <1>8 DEF WrittenSheet
  <2>4. QED
    BY <1>1, <2>1, <2>2, <2>3 DEF PanelInv, ReasonsStand
<1>10. QED
  BY <1>4, <1>5, <1>7, <1>9 DEF PanelInv

-----------------------------------------------------------------------------
(* The server and the other users.                                          *)

LEMMA ServerHandlesHolds ==
    ASSUME PanelInv, NEW c \in posted, ServerHandles(c)
    PROVE  PanelInv'
<1>1. /\ c.step = "sent" /\ c \in PanelCalls /\ SoundCall(c) /\ PanelTyped
      /\ panel' = panel /\ missed' = missed /\ mended' = mended /\ mixed' = mixed
  BY DEF PanelInv, PanelTyped, ServerHandles
<1>2. /\ c.kind \in Moves \cup Writes \cup {"list", "snapshot"} /\ c.drawing \in PanelDrawings
      /\ c.kind \in Writes => c.sheet \in SheetsOf[c.drawing]
  BY <1>1 DEF PanelCalls, SoundCall
<1> DEFINE accepted == Accepts(c.kind, c.drawing)
           World(errors) == IF accepted THEN After(c.kind, c.drawing, c.sheet, errors) ELSE served
           Answered == CASE c.kind \in Moves -> {c.drawing} [] c.kind = "list" -> PanelDrawings [] OTHER -> {}
           Why == IF c.kind = "release" /\ served.status[c.drawing] # "released" THEN ReasonsOf(served, c.drawing) ELSE {}
           Answer(errors) ==
               IF accepted
               THEN [c EXCEPT !.step = "done", !.errors = errors, !.rows = [e \in Answered |-> RowOf(World(errors), e)]]
               ELSE [c EXCEPT !.step = "refused", !.reasons = Why]
<1>11. \E errors \in BOOLEAN : Changes(World(errors), c.drawing, posted \ {c}, {Answer(errors)})
  <2>1. \E errors \in {e \in BOOLEAN : e => c.kind \in Writes} :
           Changes(World(errors), c.drawing, posted \ {c}, {Answer(errors)})
    BY DEF ServerHandles
  <2> HIDE DEF World, Answer
  <2>2. QED
    BY <2>1
<1> HIDE DEF accepted, World, Answered, Why, Answer
<1>12. PICK errors : errors \in BOOLEAN /\ Changes(World(errors), c.drawing, posted \ {c}, {Answer(errors)})
  BY <1>11
<1>13. PICK world, answered, why, answer :
          world = World(errors) /\ answered = Answered /\ why = Why /\ answer = Answer(errors)
  OBVIOUS
<1>3. /\ errors \in BOOLEAN
      /\ world = IF Accepts(c.kind, c.drawing) THEN After(c.kind, c.drawing, c.sheet, errors) ELSE served
      /\ answered = CASE c.kind \in Moves -> {c.drawing} [] c.kind = "list" -> PanelDrawings [] OTHER -> {}
      /\ why = IF c.kind = "release" /\ served.status[c.drawing] # "released" THEN ReasonsOf(served, c.drawing) ELSE {}
      /\ answer = IF Accepts(c.kind, c.drawing)
                  THEN [c EXCEPT !.step = "done", !.errors = errors, !.rows = [e \in answered |-> RowOf(world, e)]]
                  ELSE [c EXCEPT !.step = "refused", !.reasons = why]
      /\ Changes(world, c.drawing, posted \ {c}, {answer})
  BY <1>12, <1>13 DEF World, Answered, Why, Answer, accepted
<1>14. /\ Changes(world, c.drawing, posted \ {c}, {answer})
       /\ posted \ {c} \subseteq posted /\ \A b \in posted \ (posted \ {c}) : b.step = "sent"
       /\ missed \subseteq missed' /\ missed' \subseteq PanelDrawings /\ (mended => mended')
  BY <1>1, <1>3 DEF PanelTyped
<1>4. served' = world /\ PanelTyped /\ served \in Worlds
  BY <1>1, <1>3 DEF Changes, PanelTyped
<1>9. errors \in BOOLEAN
  BY <1>3
<1>5. LocalTo(c.drawing, served)
  BY <1>4 DEF LocalTo
<1>6. CASE ~Accepts(c.kind, c.drawing)
  <2>1. world = served /\ answer = [c EXCEPT !.step = "refused", !.reasons = why]
    BY <1>3, <1>6
  <2>2. /\ why \subseteq ReasonsOf(served, c.drawing) /\ why \subseteq Reasons
        /\ \A r \in why : r.sheet \in SheetsOf[c.drawing]
    BY <1>2, <1>3, <1>4, ReasonFacts
  <2>3. answer \in PanelCalls
    BY <1>1, <2>1, <2>2 DEF PanelCalls
  <2>4. /\ answer.kind = c.kind /\ answer.drawing = c.drawing /\ answer.sheet = c.sheet
        /\ answer.step = "refused" /\ answer.reasons = why
    BY <1>1, <2>1 DEF PanelCalls
  <2>5. SoundCall(answer)'
    BY <1>1, <1>4, <2>1, <2>2, <2>4 DEF SoundCall
  <2>6. QED
    <3>1. \A b \in {answer} : b \in PanelCalls /\ SoundCall(b)'
      BY <2>3, <2>5
    <3>2. QED
      BY <1>1, <1>2, <1>5, <1>14, <2>1, <3>1, ChangesHold
<1>7. CASE Accepts(c.kind, c.drawing)
  <2> DEFINE rows == [e \in answered |-> RowOf(world, e)]
  <2>1. world = After(c.kind, c.drawing, c.sheet, errors) /\ answer = [c EXCEPT !.step = "done", !.errors = errors, !.rows = rows]
    BY <1>3, <1>7
  <2>2. /\ LocalTo(c.drawing, world)
        /\ c.kind \in {"list", "snapshot"} => world = served
        /\ c.kind \notin Writes => served.stale \subseteq world.stale
        /\ c.kind \in Writes =>
             /\ world.stale = served.stale \ {c.sheet}
             /\ RowOf(world, c.drawing) = [RowOf(served, c.drawing) EXCEPT !.stale = @ \ {c.sheet}]
    <3> DEFINE w == After(c.kind, c.drawing, c.sheet, errors)
    <3>1. /\ LocalTo(c.drawing, w)
          /\ c.kind \in {"list", "snapshot"} => w = served
          /\ c.kind \notin Writes => served.stale \subseteq w.stale
          /\ c.kind \in Writes =>
               /\ w.stale = served.stale \ {c.sheet}
               /\ RowOf(w, c.drawing) = [RowOf(served, c.drawing) EXCEPT !.stale = @ \ {c.sheet}]
      <4>1. c.kind \in Moves \cup Writes \cup {"list", "snapshot"} /\ c.drawing \in PanelDrawings
            /\ (c.kind \in Writes => c.sheet \in SheetsOf[c.drawing])
        BY <1>2
      <4> HIDE DEF w
      <4>2. QED
        BY <1>4, <4>1, AfterFacts DEF w
    <3> HIDE DEF w
    <3>2. w = world
      BY <2>1 DEF w
    <3>3. QED
      BY <3>1, <3>2
  <2>12. c.kind \in Writes => (c.sheet \in world.errors <=> errors = TRUE)
    <3>1. CASE errors = TRUE
      BY <1>4, <2>1, <3>1, AfterErrors
    <3>2. CASE errors = FALSE
      BY <1>4, <2>1, <3>2, AfterErrors
    <3>3. QED
      BY <1>9, <3>1, <3>2
  <2>3. /\ answered \subseteq PanelDrawings
        /\ c.kind \in Moves => answered = {c.drawing}
        /\ c.kind = "list" => answered = PanelDrawings
    BY <1>2, <1>3 DEF Moves
  <2>4. rows \in AnswerRows
    <3>1. world \in Worlds
      BY <2>2 DEF LocalTo
    <3>2. rows \in [answered -> DrawingRows]
      BY <2>3, <3>1, RowTyped
    <3>3. QED
      BY <2>3, <3>2 DEF AnswerRows
  <2>5. DOMAIN rows = answered /\ \A e \in answered : rows[e] = RowOf(world, e)
    OBVIOUS
  <2> HIDE DEF rows
  <2>6. answer \in PanelCalls
    BY <1>1, <1>3, <2>1, <2>4 DEF PanelCalls
  <2>7. /\ answer.kind = c.kind /\ answer.drawing = c.drawing /\ answer.sheet = c.sheet
        /\ answer.step = "done" /\ answer.rows = rows /\ answer.errors = errors
    BY <1>1, <2>1 DEF PanelCalls
  <2>8. SoundCall(answer)'
    BY <1>1, <1>4, <1>9, <2>12, <2>2, <2>3, <2>5, <2>7 DEF SoundCall
  <2>9. panel.rows[c.drawing] = RowOf(served, c.drawing) =>
           panel.rows[c.drawing] = RowOf(world, c.drawing) \/ Tells(answer, c.drawing)'
    BY <1>1, <1>2, <1>4, <2>2, <2>7 DEF Tells
  <2>10. \A s \in served.stale \cap SheetsOf[c.drawing] :
            \/ s \in world.stale
            \/ answer.step = "done" /\ answer.kind \in Writes /\ answer.drawing = c.drawing /\ answer.sheet = s
    BY <2>2, <2>7
  <2>11. QED
    <3>1. \A b \in {answer} : b \in PanelCalls /\ SoundCall(b)'
      BY <2>6, <2>8
    <3>2. panel.rows[c.drawing] = RowOf(served, c.drawing) =>
             panel.rows[c.drawing] = RowOf(world, c.drawing) \/ \E b \in {answer} : Tells(b, c.drawing)'
      BY <2>9
    <3>3. \A s \in served.stale \cap SheetsOf[c.drawing] :
             \/ s \in world.stale
             \/ \E b \in {answer} : b.step = "done" /\ b.kind \in Writes /\ b.drawing = c.drawing /\ b.sheet = s
      BY <2>10
    <3>4. QED
      BY <1>1, <1>2, <1>14, <2>2, <3>1, <3>2, <3>3, ChangesHold
<1>8. QED
  BY <1>6, <1>7

LEMMA OthersChangeHolds ==
    ASSUME PanelInv, NEW d \in PanelDrawings, OthersChange(d)
    PROVE  PanelInv'
<1>1. /\ PanelTyped /\ served \in Worlds /\ panel' = panel /\ mixed' = mixed
      /\ missed' = missed \cup {d} /\ mended' = (mended \/ d = panel.open) /\ missed \subseteq PanelDrawings
  BY DEF PanelInv, PanelTyped, OthersChange
<1>2. PICK world : LocalTo(d, world) /\ Changes(world, d, posted, {})
  <2>1. PICK world :
            /\ \/ \E kind \in Moves : world = After(kind, d, 0, FALSE)
               \/ \E s \in SheetsOf[d] : \E errors : world = After("save", d, s, errors)
               \/ \E s \in SheetsOf[d] : world = [served EXCEPT !.stale = served.stale \cup {s}]
            /\ Changes(world, d, posted, {})
    <3>1. PICK world \in OthersLeave(d) : Changes(world, d, posted, {})
      BY DEF OthersChange
    <3>2. \/ \E kind \in Moves : world = After(kind, d, 0, FALSE)
          \/ \E s \in SheetsOf[d] : \E errors : world = After("save", d, s, errors)
          \/ \E s \in SheetsOf[d] : world = [served EXCEPT !.stale = served.stale \cup {s}]
      <4> DEFINE A == {After(kind, d, 0, FALSE) : kind \in {k \in Moves : Accepts(k, d)}}
                 B == {After("save", d, s, errors) : s \in {q \in SheetsOf[d] : Accepts("save", d)}, errors \in BOOLEAN}
                 C == {[served EXCEPT !.stale = served.stale \cup {s}] :
                          s \in {q \in SheetsOf[d] : served.status[d] # "released"}}
      <4>1. \A w \in A : \E kind \in Moves : w = After(kind, d, 0, FALSE)
        OBVIOUS
      <4>2. \A w \in B : \E s \in SheetsOf[d] : \E errors : w = After("save", d, s, errors)
        OBVIOUS
      <4>3. \A w \in C : \E s \in SheetsOf[d] : w = [served EXCEPT !.stale = served.stale \cup {s}]
        OBVIOUS
      <4>4. OthersLeave(d) = A \cup B \cup C
        BY DEF OthersLeave
      <4> HIDE DEF A, B, C
      <4>5. QED
        BY <3>1, <4>1, <4>2, <4>3, <4>4
    <3>3. QED
      BY <3>1, <3>2
  <2>2. CASE \E kind \in Moves : world = After(kind, d, 0, FALSE)
    <3>1. PICK kind \in Moves : world = After(kind, d, 0, FALSE)
      BY <2>2
    <3>2. kind \notin Writes
      BY DEF Moves, Writes
    <3>3. LocalTo(d, world)
      BY <1>1, <3>1, <3>2, AfterFacts
    <3>4. QED
      BY <2>1, <3>3
  <2>3. CASE \E s \in SheetsOf[d] : \E errors : world = After("save", d, s, errors)
    <3>1. "save" \in Moves \cup Writes \cup {"list", "snapshot"}
      BY DEF Writes
    <3>2. PICK s, errors : s \in SheetsOf[d] /\ world = After("save", d, s, errors)
      BY <2>3
    <3>3. LocalTo(d, world)
      BY <1>1, <3>1, <3>2, AfterFacts
    <3>4. QED
      BY <2>1, <3>3
  <2>4. CASE \E s \in SheetsOf[d] : world = [served EXCEPT !.stale = served.stale \cup {s}]
    <3>1. PICK s \in SheetsOf[d] : world = [served EXCEPT !.stale = served.stale \cup {s}]
      BY <2>4
    <3>2. s \in AllSheets
      BY SheetsWithin
    <3>3. world = [status |-> served.status, revision |-> served.revision, released |-> served.released,
                   stale |-> served.stale \cup {s}, errors |-> served.errors]
      BY <1>1, <3>1 DEF Worlds
    <3>4. world \in Worlds
      BY <1>1, <3>2, <3>3 DEF Worlds
    <3>5. \A e \in PanelDrawings \ {d} : s \notin SheetsOf[e]
      BY SheetsApart
    <3>6. LocalTo(d, world)
      BY <1>1, <3>3, <3>4, <3>5, RawLocal
    <3>7. QED
      BY <2>1, <3>6
  <2>5. QED
    BY <2>1, <2>2, <2>3, <2>4
<1>3. missed \subseteq missed' /\ missed' \subseteq PanelDrawings /\ d \in missed' /\ (mended => mended')
      /\ (mended' \/ d # panel.open)
  BY <1>1
<1>4. posted \subseteq posted /\ \A b \in posted \ posted : b.step = "sent"
  OBVIOUS
<1>5. QED
  BY <1>1, <1>2, <1>3, <1>4, ChangesHold

-----------------------------------------------------------------------------
(* Steps that leave the drawings alone.                                     *)

\* Every answer that tells of a drawing stays, or its drawing is missed.
LEMMA StillTold ==
    ASSUME PanelTyped, RowsTold, served' = served, panel'.rows = panel.rows, missed \subseteq missed',
           \A b \in posted : b.step = "done" /\ b.kind \in Moves \cup Writes => b \in posted' \/ b.drawing \in missed'
    PROVE  RowsTold'
<1>1. SUFFICES ASSUME NEW e \in PanelDrawings, e \notin missed'
               PROVE  panel.rows[e] = RowOf(served, e) \/ \E c \in posted' : Tells(c, e)'
  BY DEF RowsTold
<1>2. CASE panel.rows[e] # RowOf(served, e)
  <2>1. PICK b \in posted : Tells(b, e)
    BY <1>1, <1>2 DEF RowsTold
  <2>2. b \in posted'
    BY <1>1, <2>1 DEF Tells
  <2>3. Tells(b, e)'
    BY <2>1 DEF Tells
  <2>4. QED
    BY <2>2, <2>3
<1>3. QED
  BY <1>2

LEMMA SoundStays ==
    ASSUME NEW c, SoundCall(c), served' = served, panel'.view = panel.view
    PROVE  SoundCall(c)'
  BY DEF SoundCall

LEMMA RequestFacts ==
    ASSUME NEW kind \in Moves \cup Writes \cup {"list", "snapshot"}, NEW d \in PanelDrawings
    PROVE  /\ RequestOf(kind, d) \in PanelCalls
           /\ RequestOf(kind, d).kind = kind /\ RequestOf(kind, d).drawing = d /\ RequestOf(kind, d).step = "sent"
<1>1. [e \in {} |-> RowOf(served, e)] \in AnswerRows
  <2>1. [e \in {} |-> RowOf(served, e)] \in [{} -> DrawingRows]
    OBVIOUS
  <2>2. {} \in SUBSET PanelDrawings
    OBVIOUS
  <2>3. QED
    BY <2>1, <2>2 DEF AnswerRows
<1> DEFINE none == [e \in {} |-> RowOf(served, e)]
<1>2. RequestOf(kind, d) =
        [kind |-> kind, drawing |-> d, sheet |-> 0, next |-> "nothing", step |-> "sent", holds |-> FALSE,
         reasons |-> {}, errors |-> FALSE, rows |-> none, old |-> {}]
  BY DEF RequestOf
<1> HIDE DEF none
<1>3. QED
  BY <1>1, <1>2 DEF PanelCalls, none

\* A call just made is sound whatever it asks, if it is of the sheet or view the page shows.
LEMMA NewCallSound ==
    ASSUME NEW c, c.step = "sent",
           c.kind \in Writes => c.sheet \in SheetsOf[c.drawing],
           c.kind = "snapshot" => c.sheet \in Nat /\ panel'.view = <<c.drawing, c.sheet>>
    PROVE  SoundCall(c)'
  BY DEF SoundCall

\* The reasons of steps that leave them, or drop them all, or drop some that are not held to stand.
LEMMA ReasonsSame ==
    ASSUME PanelTyped, ReasonsStand, served' = served, panel'.reasons = panel.reasons, panel'.open = panel.open,
           refusal' = refusal, mended => mended', mixed => mixed',
           \A b \in posted : b.step = "done" /\ b.kind \in Writes /\ b.drawing = panel.open => b \in posted' \/ mended',
           panel'.snapshot \in {NoView, panel'.view}
    PROVE  ReasonsStand'
<1>1. ASSUME ~mended', NEW s, WrittenSheet(s)
      PROVE  WrittenSheet(s)'
  BY <1>1 DEF WrittenSheet
<1>2. QED
  BY <1>1 DEF ReasonsStand

\* A step of the user that makes at most one call and changes neither drawings nor reasons.
LEMMA UserStep ==
    ASSUME PanelInv, served' = served, missed' = missed, mended' = mended, mixed' = mixed, refusal' = refusal,
           panel' \in PanelStates, panel'.sheet \in SheetsOf[panel'.open],
           panel'.rows = panel.rows, panel'.open = panel.open, panel'.reasons = panel.reasons,
           panel'.snapshot \in {NoView, panel'.view},
           \A b \in posted \ posted' : b.kind = "snapshot",
           panel'.view = panel.view \/ \A b \in posted \cap posted' : b.kind # "snapshot",
           \A c \in posted' \ posted : c \in PanelCalls /\ SoundCall(c)'
    PROVE  PanelInv'
<1>1. PanelTyped'
  BY DEF PanelInv, PanelTyped
<1>2. "snapshot" \notin Moves \cup Writes
  BY DEF Moves, Writes
<1>3. RowsTold'
  BY <1>2, StillTold DEF PanelInv
<1>4. ReasonsStand'
  BY <1>2, ReasonsSame DEF PanelInv
<1>5. ASSUME NEW c \in posted'
      PROVE  SoundCall(c)'
  <2>1. CASE c \notin posted
    BY <2>1
  <2>2. CASE c \in posted /\ panel'.view = panel.view
    BY <2>2, SoundStays DEF PanelInv
  <2>3. CASE c \in posted /\ c.kind # "snapshot"
    <3>1. SoundCall(c)
      BY <2>3 DEF PanelInv
    <3>2. QED
      BY <2>3, <3>1 DEF SoundCall
  <2>4. QED
    BY <2>1, <2>2, <2>3
<1>6. QED
  BY <1>1, <1>3, <1>4, <1>5 DEF PanelInv

-----------------------------------------------------------------------------
(* The user of the page.                                                   *)

LEMMA ShownFacts ==
    ASSUME PanelInv
    PROVE  /\ panel \in PanelStates /\ panel.open \in PanelDrawings /\ panel.sheet \in SheetsOf[panel.open]
           /\ panel.sheet \in AllSheets /\ panel.rows \in [PanelDrawings -> DrawingRows]
           /\ panel.reasons \subseteq Reasons /\ panel.snapshot \in {NoView, panel.view}
           /\ panel.view \in Views /\ panel.snapshot \in Views
           /\ panel.busy \in BOOLEAN /\ panel.dirty \in BOOLEAN
  BY DEF PanelInv, PanelTyped, ReasonsStand, PanelStates

LEMMA SaveFacts ==
    ASSUME PanelInv, NEW next \in {"nothing", "submit", "release"}
    PROVE  /\ SaveThen(next) \in PanelCalls
           /\ SaveThen(next).step = "sent" /\ SaveThen(next).kind = "save"
           /\ SaveThen(next).drawing = panel.open /\ SaveThen(next).sheet = panel.sheet
<1>1. "save" \in Moves \cup Writes \cup {"list", "snapshot"}
  BY DEF Writes
<1> DEFINE q == RequestOf("save", panel.open)
<1>2. q \in PanelCalls /\ q.kind = "save" /\ q.drawing = panel.open /\ q.step = "sent"
  BY <1>1, ShownFacts, RequestFacts
<1> HIDE DEF q
<1>3. SaveThen(next) = [q EXCEPT !.sheet = panel.sheet, !.next = next]
  BY DEF SaveThen, q
<1>4. QED
  BY <1>2, <1>3, ShownFacts DEF PanelCalls

LEMMA PressActionHolds ==
    ASSUME PanelInv, NEW kind \in Moves, PressAction(kind)
    PROVE  PanelInv'
<1>1. UNCHANGED <<served, refusal, missed, mended, mixed>>
  BY DEF PressAction, panelHistory
<1>2. CASE panel.dirty /\ kind \in {"submit", "release"}
  <2>1. posted' = posted \cup {SaveThen(kind)} /\ panel' = panel
    BY <1>2 DEF PressAction
  <2>2. PICK c : c = SaveThen(kind)
    OBVIOUS
  <2>3. /\ c \in PanelCalls /\ c.step = "sent" /\ c.kind = "save"
        /\ c.drawing = panel.open /\ c.sheet = panel.sheet
    BY <1>2, <2>2, SaveFacts
  <2>4. SoundCall(c)'
    BY <2>1, <2>3, ShownFacts DEF SoundCall
  <2>5. posted' = posted \cup {c} /\ \A b \in {c} : b \in PanelCalls /\ SoundCall(b)'
    BY <2>1, <2>2, <2>3, <2>4
  <2>6. QED
    BY <1>1, <2>1, <2>5, UserStep, ShownFacts
<1>3. CASE ~(panel.dirty /\ kind \in {"submit", "release"})
  <2>1. posted' = posted \cup {RequestOf(kind, panel.open)} /\ panel' = [panel EXCEPT !.busy = TRUE]
    BY <1>3 DEF PressAction
  <2>2. PICK c : c = RequestOf(kind, panel.open)
    OBVIOUS
  <2>3. c \in PanelCalls /\ c.step = "sent" /\ c.kind = kind
    BY <2>2, ShownFacts, RequestFacts
  <2>4. c.kind \notin Writes /\ c.kind # "snapshot"
    BY <2>3 DEF Moves, Writes
  <2>5. SoundCall(c)'
    BY <2>3, <2>4 DEF SoundCall
  <2>6. posted' = posted \cup {c} /\ \A b \in {c} : b \in PanelCalls /\ SoundCall(b)'
    BY <2>1, <2>2, <2>3, <2>5
  <2>7. /\ panel' \in PanelStates /\ panel'.rows = panel.rows /\ panel'.open = panel.open /\ panel'.view = panel.view
        /\ panel'.reasons = panel.reasons /\ panel'.snapshot = panel.snapshot /\ panel'.sheet = panel.sheet
    BY <2>1, ShownFacts DEF PanelStates
  <2>8. QED
    BY <1>1, <2>6, <2>7, UserStep, ShownFacts
<1>4. QED
  BY <1>2, <1>3

\* The drawing shown is another: what was shown of the one left is gone.
LEMMA ShowDrawingHolds ==
    ASSUME PanelInv, NEW d \in PanelDrawings, NEW s \in AllSheets, ShowDrawing(d, s)
    PROVE  PanelInv'
<1>1. /\ panel' = [panel EXCEPT !.open = d, !.sheet = s, !.dirty = FALSE, !.reasons = {}, !.view = NoView, !.snapshot = NoView]
      /\ posted' = {c \in posted : c.kind # "snapshot"} /\ refusal' = {} /\ served' = served /\ missed' = missed
      /\ s \in SheetsOf[d]
  BY DEF ShowDrawing
<1>2. NoView \in Views
  BY DEF Views
<1>3. /\ panel' \in PanelStates /\ panel'.rows = panel.rows /\ panel'.reasons = {} /\ panel'.view = NoView
      /\ panel'.snapshot = NoView /\ panel'.open = d /\ panel'.sheet = s
  BY <1>1, <1>2, ShownFacts DEF PanelStates
<1>4. PanelTyped'
  BY <1>1, <1>3 DEF PanelInv, PanelTyped
<1>5. RowsTold'
  <2>1. "snapshot" \notin Moves \cup Writes
    BY DEF Moves, Writes
  <2>2. QED
    BY <1>1, <1>3, <2>1, StillTold DEF PanelInv
<1>6. ASSUME NEW c \in posted'
      PROVE  SoundCall(c)'
  <2>1. c.kind # "snapshot" /\ SoundCall(c)
    BY <1>1 DEF PanelInv
  <2>2. QED
    BY <1>1, <2>1 DEF SoundCall
<1>7. ReasonsStand'
  BY <1>1, <1>3 DEF ReasonsStand
<1>8. QED
  BY <1>4, <1>5, <1>6, <1>7 DEF PanelInv

LEMMA OpenBlockerHolds ==
    ASSUME PanelInv, NEW reason, OpenBlocker(reason)
    PROVE  PanelInv'
<1>1. /\ panel' = [panel EXCEPT !.sheet = reason.sheet, !.dirty = FALSE] /\ reason.sheet \in SheetsOf[panel.open]
      /\ UNCHANGED <<served, posted, refusal, missed, mended, mixed>>
  BY DEF OpenBlocker, panelHistory
<1>2. reason.sheet \in AllSheets
  BY <1>1, ShownFacts, SheetsWithin
<1>3. /\ panel' \in PanelStates /\ panel'.rows = panel.rows /\ panel'.open = panel.open /\ panel'.view = panel.view
      /\ panel'.reasons = panel.reasons /\ panel'.snapshot = panel.snapshot /\ panel'.sheet = reason.sheet
  BY <1>1, <1>2, ShownFacts DEF PanelStates
<1>4. posted' = posted \cup {}
  BY <1>1
<1>5. QED
  BY <1>1, <1>3, <1>4, UserStep, ShownFacts

LEMMA DismissReasonsHolds ==
    ASSUME PanelInv, DismissReasons
    PROVE  PanelInv'
<1>1. /\ panel' = [panel EXCEPT !.reasons = {}] /\ refusal' = {}
      /\ UNCHANGED <<served, posted, missed, mended, mixed>>
  BY DEF DismissReasons
<1>2. /\ panel' \in PanelStates /\ panel'.rows = panel.rows /\ panel'.open = panel.open /\ panel'.view = panel.view
      /\ panel'.reasons = {} /\ panel'.snapshot = panel.snapshot /\ panel'.sheet = panel.sheet
  BY <1>1, ShownFacts DEF PanelStates
<1>3. PanelTyped' /\ RowsTold'
  BY <1>1, <1>2, StillTold DEF PanelInv, PanelTyped
<1>4. \A c \in posted' : SoundCall(c)'
  BY <1>1, <1>2, SoundStays DEF PanelInv
<1>5. ReasonsStand'
  BY <1>1, <1>2, ShownFacts DEF ReasonsStand
<1>6. QED
  BY <1>3, <1>4, <1>5 DEF PanelInv

LEMMA EditShownSheetHolds ==
    ASSUME PanelInv, EditShownSheet
    PROVE  PanelInv'
<1>1. /\ panel' = [panel EXCEPT !.dirty = TRUE]
      /\ UNCHANGED <<served, posted, refusal, missed, mended, mixed>>
  BY DEF EditShownSheet, panelHistory
<1>2. /\ panel' \in PanelStates /\ panel'.rows = panel.rows /\ panel'.open = panel.open /\ panel'.view = panel.view
      /\ panel'.reasons = panel.reasons /\ panel'.snapshot = panel.snapshot /\ panel'.sheet = panel.sheet
  BY <1>1, ShownFacts DEF PanelStates
<1>3. posted' = posted \cup {}
  BY <1>1
<1>4. QED
  BY <1>1, <1>2, <1>3, UserStep, ShownFacts

\* The steps that only call: a save, a re-index, a reading of the drawings.
LEMMA OnlyCalls ==
    ASSUME PanelInv, NEW c \in PanelCalls, posted' = posted \cup {c}, UNCHANGED <<served, panel, refusal, missed, mended, mixed>>,
           c.step = "sent", c.kind # "snapshot", c.kind \in Writes => c.sheet \in SheetsOf[c.drawing]
    PROVE  PanelInv'
<1>1. SoundCall(c)'
  BY DEF SoundCall
<1>2. \A b \in {c} : b \in PanelCalls /\ SoundCall(b)'
  BY <1>1
<1>3. QED
  BY <1>2, UserStep, ShownFacts

LEMMA SaveShownSheetHolds ==
    ASSUME PanelInv, SaveShownSheet
    PROVE  PanelInv'
<1>1. posted' = posted \cup {SaveThen("nothing")} /\ UNCHANGED <<served, panel, refusal, missed, mended, mixed>>
  BY DEF SaveShownSheet, panelHistory
<1>2. PICK c : c = SaveThen("nothing")
  OBVIOUS
<1>3. c \in PanelCalls /\ c.step = "sent" /\ c.kind # "snapshot" /\ c.sheet \in SheetsOf[c.drawing]
  BY <1>2, SaveFacts, ShownFacts
<1>4. QED
  BY <1>1, <1>2, <1>3, OnlyCalls

LEMMA ReindexSheetHolds ==
    ASSUME PanelInv, NEW s \in AllSheets, ReindexSheet(s)
    PROVE  PanelInv'
<1> DEFINE q == RequestOf("index", panel.open)
<1>1. /\ posted' = posted \cup {[q EXCEPT !.sheet = s]} /\ UNCHANGED <<served, panel, refusal, missed, mended, mixed>>
      /\ s \in SheetsOf[panel.open]
  BY DEF ReindexSheet, panelHistory
<1>2. q \in PanelCalls /\ q.kind = "index" /\ q.drawing = panel.open /\ q.step = "sent"
  <2>1. "index" \in Moves \cup Writes \cup {"list", "snapshot"}
    BY DEF Writes
  <2>2. QED
    BY <2>1, ShownFacts, RequestFacts
<1> HIDE DEF q
<1>3. PICK c : c = [q EXCEPT !.sheet = s]
  OBVIOUS
<1>4. c \in PanelCalls /\ c.step = "sent" /\ c.kind # "snapshot" /\ c.sheet \in SheetsOf[c.drawing]
  BY <1>1, <1>2, <1>3 DEF PanelCalls
<1>5. QED
  BY <1>1, <1>3, <1>4, OnlyCalls

LEMMA RereadDrawingsHolds ==
    ASSUME PanelInv, RereadDrawings
    PROVE  PanelInv'
<1>1. posted' = posted \cup {RequestOf("list", panel.open)} /\ UNCHANGED <<served, panel, refusal, missed, mended, mixed>>
  BY DEF RereadDrawings, panelHistory
<1>2. PICK c : c = RequestOf("list", panel.open)
  OBVIOUS
<1>3. c \in PanelCalls /\ c.step = "sent" /\ c.kind = "list"
  BY <1>2, ShownFacts, RequestFacts
<1>4. "list" \notin Writes
  BY DEF Writes
<1>5. QED
  BY <1>1, <1>2, <1>3, <1>4, OnlyCalls

LEMMA ViewRevisionHolds ==
    ASSUME PanelInv, NEW r \in panel.rows[panel.open].released, ViewRevision(r)
    PROVE  PanelInv'
<1> DEFINE q == RequestOf("snapshot", panel.open)
<1>1. /\ panel.view = NoView /\ panel' = [panel EXCEPT !.view = <<panel.open, r>>]
      /\ posted' = posted \cup {[q EXCEPT !.sheet = r]}
      /\ UNCHANGED <<served, refusal, missed, mended, mixed>>
  BY DEF ViewRevision, panelHistory
<1>2. r \in Nat /\ <<panel.open, r>> \in Views
  <2>1. panel.rows[panel.open] \in DrawingRows
    BY ShownFacts
  <2>2. r \in Nat
    BY <2>1 DEF DrawingRows
  <2>3. QED
    BY <2>2, ShownFacts DEF Views
<1>3. /\ panel' \in PanelStates /\ panel'.rows = panel.rows /\ panel'.open = panel.open /\ panel'.view = <<panel.open, r>>
      /\ panel'.reasons = panel.reasons /\ panel'.snapshot = NoView /\ panel'.sheet = panel.sheet
  BY <1>1, <1>2, ShownFacts DEF PanelStates
<1>4. q \in PanelCalls /\ q.kind = "snapshot" /\ q.drawing = panel.open /\ q.step = "sent"
  <2>1. "snapshot" \in Moves \cup Writes \cup {"list", "snapshot"}
    OBVIOUS
  <2>2. QED
    BY <2>1, ShownFacts, RequestFacts
<1> HIDE DEF q
<1>5. PICK c : c = [q EXCEPT !.sheet = r]
  OBVIOUS
<1>6. c \in PanelCalls /\ c.step = "sent" /\ c.kind = "snapshot" /\ c.drawing = panel.open /\ c.sheet = r
  BY <1>2, <1>4, <1>5 DEF PanelCalls
<1>7. "snapshot" \notin Writes
  BY DEF Writes
<1>8. SoundCall(c)'
  BY <1>2, <1>3, <1>6, <1>7 DEF SoundCall
<1>9. \A b \in posted : b.kind # "snapshot"
  <2>1. SUFFICES ASSUME NEW b \in posted, b.kind = "snapshot"
                 PROVE  FALSE
    OBVIOUS
  <2>2. b \in PanelCalls /\ SoundCall(b)
    BY <2>1 DEF PanelInv, PanelTyped
  <2>3. b.drawing \in PanelDrawings /\ b.sheet \in Nat /\ NoView = <<b.drawing, b.sheet>>
    BY <1>1, <2>1, <2>2 DEF PanelCalls, SoundCall
  <2>4. NoView \in PanelDrawings \X Nat
    BY <2>3
  <2>5. QED
    BY <2>4, PanelAssumption
<1>10. posted' = posted \cup {c} /\ \A b \in {c} : b \in PanelCalls /\ SoundCall(b)'
  BY <1>1, <1>5, <1>6, <1>8
<1>11. QED
  BY <1>1, <1>3, <1>9, <1>10, UserStep, ShownFacts

LEMMA CloseViewHolds ==
    ASSUME PanelInv, CloseView
    PROVE  PanelInv'
<1>1. /\ panel' = [panel EXCEPT !.view = NoView, !.snapshot = NoView] /\ posted' = {c \in posted : c.kind # "snapshot"}
      /\ UNCHANGED <<served, refusal, missed, mended, mixed>>
  BY DEF CloseView, panelHistory
<1>2. NoView \in Views
  BY DEF Views
<1>3. /\ panel' \in PanelStates /\ panel'.rows = panel.rows /\ panel'.open = panel.open /\ panel'.view = NoView
      /\ panel'.reasons = panel.reasons /\ panel'.snapshot = NoView /\ panel'.sheet = panel.sheet
  BY <1>1, <1>2, ShownFacts DEF PanelStates
<1>5. /\ posted' \subseteq posted /\ \A b \in posted \ posted' : b.kind = "snapshot"
      /\ \A b \in posted' : b.kind # "snapshot"
  BY <1>1
<1>6. QED
  BY <1>1, <1>3, <1>5, UserStep, ShownFacts

-----------------------------------------------------------------------------
(* Answers, taken or lost.                                                  *)

\* Calls stay sound while the drawings and the view stay; new ones are only asked.
LEMMA SoundKept ==
    ASSUME PanelInv, served' = served, panel'.view = panel.view,
           \A c \in posted' \ posted : SoundCall(c)'
    PROVE  \A c \in posted' : SoundCall(c)'
  BY SoundStays DEF PanelInv

LEMMA CallFacts ==
    ASSUME PanelInv, NEW c \in posted
    PROVE  /\ c \in PanelCalls /\ SoundCall(c) /\ c.drawing \in PanelDrawings /\ c.old \subseteq PanelDrawings
           /\ c.kind \in Moves \cup Writes \cup {"list", "snapshot"} /\ c.reasons \subseteq Reasons
           /\ c.rows \in AnswerRows
  BY DEF PanelInv, PanelTyped, PanelCalls

LEMMA LoseAnswerHolds ==
    ASSUME PanelInv, NEW c \in posted, LoseAnswer(c)
    PROVE  PanelInv'
<1> DEFINE lost == [c EXCEPT !.step = "failed", !.reasons = {}, !.rows = [e \in {} |-> RowOf(served, e)]]
           unheard == c.step = "done" /\ c.kind \in Moves \cup Writes
<1>1. /\ posted' = (posted \ {c}) \cup {lost}
      /\ missed' = (IF unheard THEN missed \cup {c.drawing} ELSE missed)
      /\ mended' = (mended \/ (unheard /\ c.drawing = panel.open))
      /\ UNCHANGED <<served, panel, refusal, mixed>>
  BY DEF LoseAnswer
<1>2. lost \in PanelCalls /\ lost.step = "failed" /\ lost.kind = c.kind /\ lost.drawing = c.drawing /\ lost.sheet = c.sheet
  <2>1. [e \in {} |-> RowOf(served, e)] \in AnswerRows
    <3>1. [e \in {} |-> RowOf(served, e)] \in [{} -> DrawingRows] /\ {} \in SUBSET PanelDrawings
      OBVIOUS
    <3>2. QED
      BY <3>1 DEF AnswerRows
  <2> DEFINE none == [e \in {} |-> RowOf(served, e)]
  <2> HIDE DEF none
  <2>2. lost = [c EXCEPT !.step = "failed", !.reasons = {}, !.rows = none]
    BY DEF none
  <2> HIDE DEF lost
  <2>3. QED
    BY <2>1, <2>2, CallFacts DEF PanelCalls, none
<1> HIDE DEF lost
<1>3. PICK b : b = lost
  OBVIOUS
<1>4. SoundCall(b)'
  BY <1>1, <1>2, <1>3, CallFacts DEF SoundCall
<1>5. PanelTyped'
  BY <1>1, <1>2, CallFacts DEF PanelInv, PanelTyped
<1>6. RowsTold'
  BY <1>1, StillTold DEF PanelInv
<1>7. ReasonsStand'
  <2>1. panel'.snapshot \in {NoView, panel'.view}
    BY <1>1, ShownFacts
  <2>2. QED
    BY <1>1, <2>1, ReasonsSame DEF PanelInv
<1>8. \A q \in posted' : SoundCall(q)'
  BY <1>1, <1>3, <1>4, SoundKept
<1>9. QED
  BY <1>5, <1>6, <1>7, <1>8 DEF PanelInv

LEMMA TakeFailureHolds ==
    ASSUME PanelInv, NEW c \in posted, TakeFailure(c)
    PROVE  PanelInv'
<1>1. /\ c.step # "done" /\ posted' = posted \ {c}
      /\ panel' = panel \/ panel' = [panel EXCEPT !.busy = FALSE]
      /\ UNCHANGED <<served, refusal, missed, mended, mixed>>
  BY DEF TakeFailure, panelHistory
<1>2. /\ panel' \in PanelStates /\ panel'.rows = panel.rows /\ panel'.open = panel.open /\ panel'.view = panel.view
      /\ panel'.reasons = panel.reasons /\ panel'.snapshot = panel.snapshot /\ panel'.sheet = panel.sheet
  BY <1>1, ShownFacts DEF PanelStates
<1>3. PanelTyped' /\ RowsTold'
  BY <1>1, <1>2, StillTold DEF PanelInv, PanelTyped
<1>4. ReasonsStand'
  <2>1. panel'.snapshot \in {NoView, panel'.view}
    BY <1>2, ShownFacts
  <2>2. QED
    BY <1>1, <1>2, <2>1, ReasonsSame DEF PanelInv
<1>5. \A q \in posted' : SoundCall(q)'
  BY <1>1, <1>2, SoundKept
<1>6. QED
  BY <1>3, <1>4, <1>5 DEF PanelInv

\* The rows shown after an answer are those it brings, else those shown before.
LEMMA AnsweredFacts ==
    ASSUME PanelInv, NEW c \in posted
    PROVE  /\ RowsAnswered(c) \in [PanelDrawings -> DrawingRows]
           /\ \A e \in PanelDrawings : RowsAnswered(c)[e] = IF e \in DOMAIN c.rows THEN c.rows[e] ELSE panel.rows[e]
<1>1. \A e \in DOMAIN c.rows : c.rows[e] \in DrawingRows
  BY CallFacts DEF AnswerRows
<1>2. QED
  BY <1>1, ShownFacts DEF RowsAnswered

LEMMA TakeMoveHolds ==
    ASSUME PanelInv, NEW c \in posted, TakeMove(c)
    PROVE  PanelInv'
<1>1. /\ c.kind \in Moves /\ c.step = "done" /\ posted' = posted \ {c} /\ missed' = (missed \ {c.drawing}) \cup c.old
      /\ panel' = [panel EXCEPT !.rows = RowsAnswered(c), !.reasons = {}, !.busy = FALSE]
      /\ refusal' = {} /\ served' = served
  BY DEF TakeMove
<1>2. /\ panel' \in PanelStates /\ panel'.rows = RowsAnswered(c) /\ panel'.open = panel.open /\ panel'.view = panel.view
      /\ panel'.reasons = {} /\ panel'.snapshot = panel.snapshot /\ panel'.sheet = panel.sheet
  BY <1>1, ShownFacts, AnsweredFacts DEF PanelStates
<1>3. PanelTyped'
  BY <1>1, <1>2, CallFacts DEF PanelInv, PanelTyped
<1>4. ASSUME NEW e \in PanelDrawings, e \notin missed'
      PROVE  panel'.rows[e] = RowOf(served, e) \/ \E b \in posted' : Tells(b, e)'
  <2>1. DOMAIN c.rows = {c.drawing} /\ \A d \in DOMAIN c.rows \ c.old : c.rows[d] = RowOf(served, d)
    BY <1>1, CallFacts DEF SoundCall
  <2>2. CASE e = c.drawing
    BY <1>1, <1>2, <1>4, <2>1, <2>2, AnsweredFacts
  <2>3. CASE e # c.drawing /\ panel.rows[e] = RowOf(served, e)
    BY <1>2, <2>1, <2>3, AnsweredFacts
  <2>4. CASE e # c.drawing /\ panel.rows[e] # RowOf(served, e)
    <3>1. PICK b \in posted : Tells(b, e)
      BY <1>1, <1>4, <2>4 DEF PanelInv, RowsTold
    <3>2. b \in posted' /\ panel'.rows[e] = panel.rows[e]
      BY <1>1, <1>2, <2>1, <2>4, <3>1, AnsweredFacts DEF Tells
    <3>3. Tells(b, e)'
      BY <1>1, <3>1, <3>2 DEF Tells
    <3>4. QED
      BY <3>2, <3>3
  <2>5. QED
    BY <2>2, <2>3, <2>4
<1>5. RowsTold'
  BY <1>1, <1>4 DEF RowsTold
<1>6. ReasonsStand'
  BY <1>1, <1>2, ShownFacts DEF ReasonsStand
<1>7. \A q \in posted' : SoundCall(q)'
  BY <1>1, <1>2, SoundKept
<1>8. QED
  BY <1>3, <1>5, <1>6, <1>7 DEF PanelInv

LEMMA TakeDrawingsHolds ==
    ASSUME PanelInv, NEW c \in posted, TakeDrawings(c)
    PROVE  PanelInv'
<1>1. /\ c.kind = "list" /\ c.step = "done" /\ posted' = posted \ {c} /\ missed' = c.old
      /\ panel' = [panel EXCEPT !.rows = RowsAnswered(c), !.busy = panel.busy /\ ~c.holds]
      /\ UNCHANGED <<served, refusal, mended, mixed>>
  BY DEF TakeDrawings
<1>2. /\ panel' \in PanelStates /\ panel'.rows = RowsAnswered(c) /\ panel'.open = panel.open /\ panel'.view = panel.view
      /\ panel'.reasons = panel.reasons /\ panel'.snapshot = panel.snapshot /\ panel'.sheet = panel.sheet
  <2>1. PICK busy : busy = (panel.busy /\ ~c.holds)
    OBVIOUS
  <2>2. busy \in BOOLEAN
    BY <2>1
  <2>3. panel' = [panel EXCEPT !.rows = RowsAnswered(c), !.busy = busy]
    BY <1>1, <2>1
  <2>4. QED
    BY <2>2, <2>3, ShownFacts, AnsweredFacts DEF PanelStates
<1>3. PanelTyped'
  BY <1>1, <1>2, CallFacts DEF PanelInv, PanelTyped
<1>4. ASSUME NEW e \in PanelDrawings, e \notin missed'
      PROVE  panel'.rows[e] = RowOf(served, e)
  <2>1. DOMAIN c.rows = PanelDrawings /\ \A d \in DOMAIN c.rows \ c.old : c.rows[d] = RowOf(served, d)
    BY <1>1, CallFacts DEF SoundCall
  <2>2. QED
    BY <1>1, <1>2, <1>4, <2>1, AnsweredFacts
<1>5. RowsTold'
  BY <1>1, <1>4 DEF RowsTold
<1>6. ReasonsStand'
  <2>1. panel'.snapshot \in {NoView, panel'.view}
    BY <1>2, ShownFacts
  <2>2. c.kind \notin Writes
    BY <1>1 DEF Writes
  <2>3. QED
    BY <1>1, <1>2, <2>1, <2>2, ReasonsSame DEF PanelInv
<1>7. \A q \in posted' : SoundCall(q)'
  BY <1>1, <1>2, SoundKept
<1>8. QED
  BY <1>3, <1>5, <1>6, <1>7 DEF PanelInv

\* The reasons answered hold of the drawing that is open, unless it changed after the answer.
LEMMA TakeReasonsHolds ==
    ASSUME PanelInv, NEW c \in posted, TakeReasons(c)
    PROVE  PanelInv'
<1> DEFINE q == RequestOf("list", c.drawing)
<1>1. /\ c.step = "refused" /\ panel' = [panel EXCEPT !.reasons = c.reasons]
      /\ posted' = (posted \ {c}) \cup {[q EXCEPT !.holds = TRUE]}
      /\ refusal' = c.reasons \cap ReasonsOf(served, c.drawing)
      /\ mended' = (c.old # {}) /\ mixed' = (mixed \/ c.drawing # panel.open)
      /\ UNCHANGED <<served, missed>>
  BY DEF TakeReasons
<1>2. q \in PanelCalls /\ q.kind = "list" /\ q.step = "sent"
  <2>1. "list" \in Moves \cup Writes \cup {"list", "snapshot"}
    OBVIOUS
  <2>2. QED
    BY <2>1, CallFacts, RequestFacts
<1> HIDE DEF q
<1>3. PICK b : b = [q EXCEPT !.holds = TRUE]
  OBVIOUS
<1>4. b \in PanelCalls /\ b.kind = "list" /\ b.step = "sent" /\ "list" \notin Writes
  BY <1>2, <1>3 DEF PanelCalls, Writes
<1>5. /\ panel' \in PanelStates /\ panel'.rows = panel.rows /\ panel'.open = panel.open /\ panel'.view = panel.view
      /\ panel'.reasons = c.reasons /\ panel'.snapshot = panel.snapshot /\ panel'.sheet = panel.sheet
  BY <1>1, ShownFacts, CallFacts DEF PanelStates
<1>6. PanelTyped'
  BY <1>1, <1>3, <1>4, <1>5 DEF PanelInv, PanelTyped
<1>7. RowsTold'
  BY <1>1, <1>5, StillTold DEF PanelInv
<1>8. \A p \in posted' : SoundCall(p)'
  <2>1. SoundCall(b)'
    BY <1>4 DEF SoundCall
  <2>2. QED
    BY <1>1, <1>3, <1>5, <2>1, SoundKept
<1>9. ReasonsStand'
  <2>1. /\ c.drawing \in PanelDrawings /\ \A r \in c.reasons : r.sheet \in SheetsOf[c.drawing]
        /\ c.drawing \notin c.old => c.reasons \subseteq ReasonsOf(served, c.drawing)
    BY <1>1, CallFacts DEF SoundCall
  <2>2. served \in Worlds
    BY DEF PanelInv, PanelTyped
  <2>3. \A r \in ReasonsOf(served, c.drawing) : r.code = "index_stale" => r.sheet \in served.stale
    BY <2>1, <2>2, ReasonFacts
  <2>4. refusal' \subseteq UNION {ReasonsOf(served, d) : d \in PanelDrawings}
    BY <1>1, <2>1
  <2>5. QED
    BY <1>1, <1>5, <2>1, <2>3, <2>4, ShownFacts DEF ReasonsStand
<1>10. QED
  BY <1>6, <1>7, <1>8, <1>9 DEF PanelInv

LEMMA TakeSnapshotHolds ==
    ASSUME PanelInv, NEW c \in posted, TakeSnapshot(c)
    PROVE  PanelInv'
<1>1. /\ c.kind = "snapshot" /\ panel' = [panel EXCEPT !.snapshot = <<c.drawing, c.sheet>>] /\ posted' = posted \ {c}
      /\ UNCHANGED <<served, refusal, missed, mended, mixed>>
  BY DEF TakeSnapshot, panelHistory
<1>2. panel.view = <<c.drawing, c.sheet>>
  BY <1>1, CallFacts DEF SoundCall
<1>3. /\ panel' \in PanelStates /\ panel'.rows = panel.rows /\ panel'.open = panel.open /\ panel'.view = panel.view
      /\ panel'.reasons = panel.reasons /\ panel'.snapshot = panel.view /\ panel'.sheet = panel.sheet
  BY <1>1, <1>2, ShownFacts DEF PanelStates
<1>4. QED
  BY <1>1, <1>3, UserStep, ShownFacts

\* What a write taken clears is no reason that still holds of its sheet.
LEMMA ClearedSettled ==
    ASSUME PanelInv, NEW c \in posted, c.kind \in Writes, c.step = "done", panel.open \notin c.old,
           \A r \in panel.reasons : r.sheet \in SheetsOf[panel.open],
           NEW r \in Cleared(panel.reasons, c.sheet, c.errors)
    PROVE  r \notin refusal
<1>1. r \in panel.reasons /\ r.sheet = c.sheet /\ ~(r.code = "drc_errors" /\ c.errors)
  BY DEF Cleared
<1>2. c.sheet \in SheetsOf[c.drawing] /\ c.drawing \in PanelDrawings /\ panel.open \in PanelDrawings
  BY CallFacts, ShownFacts DEF SoundCall
<1>3. c.drawing = panel.open
  BY <1>1, <1>2, SheetsApart
<1>4. c.sheet \notin served.stale /\ (c.errors <=> c.sheet \in served.errors)
  BY <1>3, CallFacts DEF SoundCall
<1>5. r.code \in {"index_stale", "drc_errors"}
  BY <1>1, ShownFacts DEF Reasons
<1>6. ASSUME NEW d \in PanelDrawings
      PROVE  r \notin ReasonsOf(served, d)
  <2>1. served \in Worlds
    BY DEF PanelInv, PanelTyped
  <2>2. QED
    BY <1>1, <1>4, <1>5, <2>1, ReasonFacts
<1>7. refusal \subseteq UNION {ReasonsOf(served, d) : d \in PanelDrawings}
  BY DEF PanelInv, ReasonsStand
<1>8. QED
  BY <1>6, <1>7

LEMMA TakeWriteHolds ==
    ASSUME PanelInv, NEW c \in posted, TakeWrite(c)
    PROVE  PanelInv'
<1> DEFINE follows == c.kind = "save" /\ c.next # "nothing"
           dropped == Cleared(panel.reasons, c.sheet, c.errors)
           stays == panel.dirty /\ ~(c.kind = "save" /\ c.sheet = panel.sheet)
<1>1. /\ c.kind \in Writes /\ c.step = "done"
      /\ panel' = [panel EXCEPT !.rows[c.drawing].stale = panel.rows[c.drawing].stale \ {c.sheet},
                                !.reasons = panel.reasons \ dropped,
                                !.dirty = stays,
                                !.busy = panel.busy \/ follows]
      /\ posted' = (posted \ {c}) \cup {q \in {RequestOf(c.next, c.drawing)} : follows}
      /\ missed' = missed \cup c.old /\ mended' = (mended \/ panel.open \in c.old)
      /\ UNCHANGED <<served, refusal, mixed>>
  BY DEF TakeWrite
<1>2. dropped \subseteq panel.reasons /\ \A r \in dropped : r.sheet = c.sheet
  BY DEF Cleared
<1>3. \A r \in panel.reasons \ dropped : r.code = "index_stale" => r.sheet # c.sheet
  BY DEF Cleared
<1>4. PICK gone : gone = dropped
  OBVIOUS
<1>5. PICK rows : rows = [panel.rows EXCEPT ![c.drawing].stale = panel.rows[c.drawing].stale \ {c.sheet}]
  OBVIOUS
<1>6. /\ rows \in [PanelDrawings -> DrawingRows]
      /\ rows[c.drawing] = [panel.rows[c.drawing] EXCEPT !.stale = @ \ {c.sheet}]
      /\ \A e \in PanelDrawings \ {c.drawing} : rows[e] = panel.rows[e]
  <2>1. c.drawing \in PanelDrawings /\ panel.rows \in [PanelDrawings -> DrawingRows]
    BY CallFacts, ShownFacts
  <2>2. [panel.rows[c.drawing] EXCEPT !.stale = panel.rows[c.drawing].stale \ {c.sheet}] \in DrawingRows
    BY <2>1 DEF DrawingRows
  <2>3. QED
    BY <1>5, <2>1, <2>2
<1>7. /\ panel' \in PanelStates /\ panel'.rows = rows /\ panel'.open = panel.open /\ panel'.view = panel.view
      /\ panel'.reasons = panel.reasons \ gone /\ panel'.snapshot = panel.snapshot /\ panel'.sheet = panel.sheet
  <2>1. PICK dirty, busy : dirty = stays /\ busy = (panel.busy \/ follows)
    OBVIOUS
  <2>2. dirty \in BOOLEAN /\ busy \in BOOLEAN
    BY <2>1
  <2>3. panel' = [panel EXCEPT !.rows = rows, !.reasons = panel.reasons \ gone, !.dirty = dirty, !.busy = busy]
    BY <1>1, <1>4, <1>5, <2>1, ShownFacts DEF PanelStates
  <2>4. QED
    BY <1>6, <2>2, <2>3, ShownFacts DEF PanelStates
<1>8. \A b \in posted' \ posted : b \in PanelCalls /\ SoundCall(b)'
  <2>1. SUFFICES ASSUME NEW b \in posted' \ posted
                 PROVE  b \in PanelCalls /\ SoundCall(b)'
    OBVIOUS
  <2>2. b = RequestOf(c.next, c.drawing) /\ c.next # "nothing"
    BY <1>1, <2>1
  <2>3. c.next \in {"submit", "release"}
    BY <2>2, CallFacts DEF PanelCalls
  <2>4. c.next \in Moves /\ c.next \notin Writes /\ c.next # "snapshot"
    BY <2>3 DEF Moves, Writes
  <2>5. b \in PanelCalls /\ b.kind = c.next /\ b.step = "sent"
    BY <2>2, <2>4, CallFacts, RequestFacts
  <2>6. SoundCall(b)'
    BY <2>4, <2>5 DEF SoundCall
  <2>7. QED
    BY <2>5, <2>6
<1>9. PanelTyped'
  BY <1>1, <1>7, <1>8, CallFacts DEF PanelInv, PanelTyped
<1>10. \A b \in posted' : SoundCall(b)'
  BY <1>1, <1>7, <1>8, SoundKept
<1>11. ASSUME NEW e \in PanelDrawings, e \notin missed'
       PROVE  rows[e] = RowOf(served, e) \/ \E b \in posted' : Tells(b, e)'
  <2>1. e \notin missed /\ e \notin c.old
    BY <1>1, <1>11
  <2>2. panel.rows[e] = RowOf(served, e) \/ \E b \in posted : Tells(b, e)
    BY <2>1 DEF PanelInv, RowsTold
  <2>3. CASE e # c.drawing
    <3>1. rows[e] = panel.rows[e]
      BY <1>6, <2>3
    <3>2. CASE panel.rows[e] # RowOf(served, e)
      <4>1. PICK b \in posted : Tells(b, e)
        BY <2>2, <3>2
      <4>2. b \in posted'
        BY <1>1, <2>3, <4>1 DEF Tells
      <4>3. Tells(b, e)'
        BY <1>1, <1>7, <3>1, <4>1 DEF Tells
      <4>4. QED
        BY <4>2, <4>3
    <3>3. QED
      BY <3>1, <3>2
  <2>4. CASE e = c.drawing
    <3>1. c.sheet \notin served.stale
      BY <1>1, <2>1, <2>4, CallFacts DEF SoundCall
    <3>2. /\ RowOf(served, e).stale \ {c.sheet} = RowOf(served, e).stale
          /\ [RowOf(served, e) EXCEPT !.stale = @ \ {c.sheet}] = RowOf(served, e)
      <4>1. (served.stale \cap SheetsOf[e]) \ {c.sheet} = served.stale \cap SheetsOf[e]
        BY <3>1
      <4>2. QED
        BY <4>1 DEF RowOf
    <3>3. rows[e] = [panel.rows[e] EXCEPT !.stale = @ \ {c.sheet}]
      BY <1>6, <2>4
    <3>4. CASE panel.rows[e] = RowOf(served, e)
      BY <3>2, <3>3, <3>4
    <3>5. CASE panel.rows[e] # RowOf(served, e)
      <4>1. PICK b \in posted : Tells(b, e)
        BY <2>2, <3>5
      <4>2. CASE b = c
        <5>1. [panel.rows[e] EXCEPT !.stale = @ \ {c.sheet}] = RowOf(served, e)
          BY <1>1, <2>1, <2>4, <4>1, <4>2 DEF Tells, Moves, Writes
        <5>2. QED
          BY <3>3, <5>1
      <4>3. CASE b # c /\ (b.kind \in Moves \/ e \in b.old)
        <5>1. b \in posted' /\ Tells(b, e)'
          BY <1>1, <4>1, <4>3 DEF Tells
        <5>2. QED
          BY <5>1
      <4>4. CASE b # c /\ b.kind \in Writes /\ [panel.rows[e] EXCEPT !.stale = @ \ {b.sheet}] = RowOf(served, e)
        <5>1. panel.rows[e] \in DrawingRows
          BY ShownFacts
        <5>2. [rows[e] EXCEPT !.stale = @ \ {b.sheet}] = [RowOf(served, e) EXCEPT !.stale = @ \ {c.sheet}]
          <6>1. RowOf(served, e) = [panel.rows[e] EXCEPT !.stale = panel.rows[e].stale \ {b.sheet}]
            BY <4>4
          <6>2. (panel.rows[e].stale \ {c.sheet}) \ {b.sheet} = (panel.rows[e].stale \ {b.sheet}) \ {c.sheet}
            OBVIOUS
          <6>3. QED
            BY <3>3, <5>1, <6>1, <6>2 DEF DrawingRows
        <5>3. [rows[e] EXCEPT !.stale = @ \ {b.sheet}] = RowOf(served, e)
          BY <3>2, <5>2
        <5>4. b \in posted' /\ b.step = "done" /\ b.drawing = e
          BY <1>1, <4>1, <4>4 DEF Tells
        <5>5. Tells(b, e)'
          BY <1>1, <1>7, <4>4, <5>3, <5>4 DEF Tells
        <5>6. QED
          BY <5>4, <5>5
      <4>5. QED
        BY <4>1, <4>2, <4>3, <4>4 DEF Tells
    <3>6. QED
      BY <3>4, <3>5
  <2>5. QED
    BY <2>3, <2>4
<1>12. RowsTold'
  BY <1>1, <1>7, <1>11 DEF RowsTold
<1>13. ReasonsStand'
  <2>1. /\ refusal' = refusal /\ served' = served /\ mixed' = mixed /\ panel'.open = panel.open
        /\ panel'.reasons \subseteq panel.reasons /\ panel'.snapshot \in {NoView, panel'.view}
    BY <1>1, <1>7, ShownFacts
  <2>2. ASSUME ~mixed, ~mended'
        PROVE  refusal \subseteq panel'.reasons
    <3>1. refusal \subseteq panel.reasons /\ panel.open \notin c.old /\ \A r \in panel.reasons : r.sheet \in SheetsOf[panel.open]
      BY <1>1, <2>2 DEF PanelInv, ReasonsStand
    <3>2. \A r \in gone : r \notin refusal
      BY <1>1, <1>4, <3>1, ClearedSettled
    <3>3. QED
      BY <1>7, <3>1, <3>2
  <2>3. ASSUME ~mixed, ~mended', NEW r \in panel'.reasons, r.code = "index_stale"
        PROVE  r.sheet \in served.stale \/ WrittenSheet(r.sheet)'
    <3>1. r \in panel.reasons /\ r.sheet # c.sheet
      BY <1>3, <1>4, <1>7, <2>3
    <3>2. r.sheet \in served.stale \/ WrittenSheet(r.sheet)
      BY <1>1, <2>3, <3>1 DEF PanelInv, ReasonsStand
    <3>3. ASSUME WrittenSheet(r.sheet)
          PROVE  WrittenSheet(r.sheet)'
      <4>1. PICK b \in posted : b.step = "done" /\ b.kind \in Writes /\ b.drawing = panel.open /\ b.sheet = r.sheet
        BY <3>3 DEF WrittenSheet
      <4>2. b \in posted'
        BY <1>1, <3>1, <4>1
      <4>3. QED
        BY <2>1, <4>1, <4>2 DEF WrittenSheet
    <3>4. QED
      BY <3>2, <3>3
  <2>4. QED
    BY <2>1, <2>2, <2>3 DEF PanelInv, ReasonsStand
<1>14. QED
  BY <1>9, <1>10, <1>12, <1>13 DEF PanelInv

LEMMA PanelInitHolds ==
    ASSUME PanelInit
    PROVE  PanelInv
<1>1. PICK d \in PanelDrawings : \E s \in SheetsOf[d] :
          panel = [rows |-> [e \in PanelDrawings |-> RowOf(served, e)], open |-> d, sheet |-> s, dirty |-> FALSE,
                   reasons |-> {}, busy |-> FALSE, view |-> NoView, snapshot |-> NoView]
  BY DEF PanelInit
<1>2. PICK s \in SheetsOf[d] :
          panel = [rows |-> [e \in PanelDrawings |-> RowOf(served, e)], open |-> d, sheet |-> s, dirty |-> FALSE,
                   reasons |-> {}, busy |-> FALSE, view |-> NoView, snapshot |-> NoView]
  BY <1>1
<1>3. served \in Worlds
  BY PanelAssumption DEF PanelInit, Worlds
<1>4. [e \in PanelDrawings |-> RowOf(served, e)] \in [PanelDrawings -> DrawingRows]
  BY <1>3, RowTyped
<1>5. s \in AllSheets /\ NoView \in Views
  BY SheetsWithin DEF Views
<1>6. posted = {} /\ refusal = {} /\ missed = {}
  BY DEF PanelInit
<1> DEFINE rows == [e \in PanelDrawings |-> RowOf(served, e)]
<1>7. \A e \in PanelDrawings : rows[e] = RowOf(served, e)
  OBVIOUS
<1> HIDE DEF rows
<1>8. panel = [rows |-> rows, open |-> d, sheet |-> s, dirty |-> FALSE,
               reasons |-> {}, busy |-> FALSE, view |-> NoView, snapshot |-> NoView]
  BY <1>2 DEF rows
<1>9. panel \in PanelStates
  BY <1>4, <1>5, <1>8 DEF PanelStates, rows
<1>10. PanelTyped
  BY <1>3, <1>6, <1>8, <1>9 DEF PanelTyped
<1>11. RowsTold
  BY <1>7, <1>8 DEF RowsTold
<1>12. ReasonsStand
  BY <1>6, <1>8 DEF ReasonsStand
<1>13. QED
  BY <1>6, <1>10, <1>11, <1>12 DEF PanelInv

LEMMA PanelNextHolds ==
    ASSUME PanelInv, [PanelNext]_panelVars
    PROVE  PanelInv'
<1>1. CASE UNCHANGED panelVars
  <2>1. UNCHANGED <<served, panel, posted, refusal, missed, mended, mixed>>
    BY <1>1 DEF panelVars, panelHistory
  <2>2. QED
    BY <2>1, UserStep, ShownFacts
<1>2. CASE \E c \in posted : \/ ServerHandles(c) \/ LoseAnswer(c) \/ TakeMove(c) \/ TakeReasons(c) \/ TakeFailure(c)
                             \/ TakeDrawings(c) \/ TakeWrite(c) \/ TakeSnapshot(c)
  BY <1>2, ServerHandlesHolds, LoseAnswerHolds, TakeMoveHolds, TakeReasonsHolds, TakeFailureHolds, TakeDrawingsHolds,
     TakeWriteHolds, TakeSnapshotHolds
<1>3. QED
  BY <1>1, <1>2, PressActionHolds, ShowDrawingHolds, OpenBlockerHolds, DismissReasonsHolds, EditShownSheetHolds,
     SaveShownSheetHolds, ReindexSheetHolds, RereadDrawingsHolds, ViewRevisionHolds, CloseViewHolds, OthersChangeHolds
     DEF PanelNext

\* Once no call is under way, the panel shows the open drawing as it is unless another user
\* changed it, and no reason of the last refusal that still holds was dropped, for any drawings
\* and sheets and however many calls of the page are under way, lost or overtaken.
THEOREM PanelTells == PanelSpec => []PanelTellsStanding
<1>1. PanelInv => PanelTellsStanding
  <2>1. SUFFICES ASSUME PanelInv
                 PROVE  PanelTellsStanding
    OBVIOUS
  <2>2. posted = {} /\ panel.open \notin missed => panel.rows[panel.open] = RowOf(served, panel.open)
    BY <2>1, ShownFacts DEF PanelInv, RowsTold
  <2>3. posted = {} => \A s : ~WrittenSheet(s)
    BY DEF WrittenSheet
  <2>4. QED
    BY <2>1, <2>2, <2>3 DEF PanelInv, ReasonsStand, PanelTellsStanding
<1>2. QED
  BY <1>1, PanelInitHolds, PanelNextHolds, PTL DEF PanelSpec

-----------------------------------------------------------------------------
(* The lists drawer: what its proof takes of the library.                  *)

\* Natural numbers have a least one.
LEMMA LeastNatural ==
    ASSUME NEW T \in SUBSET Nat, T # {}
    PROVE  \E x \in T : \A y \in T : x <= y
<1>1. IsWellFoundedOn(OpToRel(<, Nat), Nat)
  BY NatLessThanWellFounded
<1>2. PICK x \in T : \A y \in T : ~(<<y, x>> \in OpToRel(<, Nat))
  BY <1>1, WFMin
<1>3. \A y \in T : y < x => <<y, x>> \in OpToRel(<, Nat)
  BY DEF OpToRel
<1>4. \A y \in T : ~(y < x)
  BY <1>2, <1>3, Zenon
<1>5. x \in Nat /\ \A y \in T : y \in Nat
  OBVIOUS
<1>6. \A y \in T : x <= y
  BY <1>4, <1>5
<1>7. QED
  BY <1>6

-----------------------------------------------------------------------------
(* The lists drawer: its types, and facts about orders of sheets.          *)

SheetDocs == [tag : {0, 1}, ref : ConnectorRefs \cup {NoRef}, zone : Zones]

AllDifferent(order) == \A m, n \in DOMAIN order : order[m] = order[n] => m = n

Orders == {order \in Seq(ListedIds) : order # << >> /\ AllDifferent(order)}

Copies == [sheet : ListedIds, no : Nat, doc : SheetDocs]

Filings == [order : Orders, waived : SUBSET ListedIds, docs : [ListedIds -> SheetDocs]]

Desks ==
    [order : Orders, sheet : ListedIds \cup {NoSheetOpen}, doc : SheetDocs \cup {NoDocument}, others : Seq(Copies),
     waived : BOOLEAN]

WaiverKinds == {"waive", "unwaive", "read_waivers"}

ListCalls ==
    [kind : WaiverKinds \cup {"open", "waivers", "others", "save", "edit", "remove", "add", "list"},
     sheet : ListedIds \cup {NoSheetOpen}, sheets : Seq(ListedIds), copies : Seq(Copies), doc : SheetDocs \cup {NoDocument},
     step : {"sent", "reading", "read", "failed"}]

ListsTyped == filed \in Filings /\ desk \in Desks /\ asked \in SUBSET ListCalls

LEMMA OrderFacts ==
    ASSUME NEW order \in Seq(ListedIds), AllDifferent(order)
    PROVE  /\ DOMAIN order = 1..Len(order) /\ Len(order) \in Nat /\ Listed(order) \subseteq ListedIds
           /\ \A n \in 1..Len(order) : order[n] \in Listed(order) /\ NumberOf(order, order[n]) = n
           /\ \A s \in Listed(order) : NumberOf(order, s) \in 1..Len(order) /\ order[NumberOf(order, s)] = s
<1>1. DOMAIN order = 1..Len(order) /\ Len(order) \in Nat /\ Listed(order) \subseteq ListedIds
  BY DEF Listed
<1>2. \A n \in 1..Len(order) : order[n] \in Listed(order)
  BY DEF Listed
<1>3. ASSUME NEW s \in Listed(order)
      PROVE  NumberOf(order, s) \in 1..Len(order) /\ order[NumberOf(order, s)] = s
  <2>1. \E n \in 1..Len(order) : order[n] = s
    BY DEF Listed
  <2>2. QED
    BY <2>1 DEF NumberOf
<1>4. ASSUME NEW n \in 1..Len(order)
      PROVE  NumberOf(order, order[n]) = n
  <2>1. NumberOf(order, order[n]) \in 1..Len(order) /\ order[NumberOf(order, order[n])] = order[n]
    BY <1>2, <1>3
  <2>2. QED
    BY <1>1, <2>1 DEF AllDifferent
<1>5. QED
  BY <1>1, <1>2, <1>3, <1>4

LEMMA RemovedFacts ==
    ASSUME NEW S, NEW s \in Seq(S), NEW n \in DOMAIN s
    PROVE  /\ RemoveAt(s, n) \in Seq(S)
           /\ Len(RemoveAt(s, n)) = Len(s) - 1
           /\ \A i \in 1..(Len(s) - 1) : RemoveAt(s, n)[i] = IF i < n THEN s[i] ELSE s[i + 1]
<1> DEFINE a == SubSeq(s, 1, n - 1)
           b == SubSeq(s, n + 1, Len(s))
<1>1. n \in 1..Len(s) /\ Len(s) \in Nat /\ \A i \in 1..Len(s) : s[i] \in S
  OBVIOUS
<1>2. /\ a \in Seq(S) /\ Len(a) = n - 1
      /\ \A i \in 1..(n - 1) : a[i] = s[i]
  <2>1. 1 \in Int /\ n - 1 \in Int /\ \A i \in 1..(n - 1) : s[i] \in S
    BY <1>1
  <2>2. /\ a \in Seq(S) /\ Len(a) = (IF 1 <= n - 1 THEN n - 1 - 1 + 1 ELSE 0)
        /\ \A i \in 1..(n - 1 - 1 + 1) : a[i] = s[1 + i - 1]
    BY <2>1, SubSeqProperties
  <2> HIDE DEF a
  <2>3. QED
    BY <1>1, <2>2
<1>3. /\ b \in Seq(S) /\ Len(b) = Len(s) - n
      /\ \A i \in 1..(Len(s) - n) : b[i] = s[n + i]
  <2>1. n + 1 \in Int /\ Len(s) \in Int /\ \A i \in (n + 1)..Len(s) : s[i] \in S
    BY <1>1
  <2>2. /\ b \in Seq(S) /\ Len(b) = (IF n + 1 <= Len(s) THEN Len(s) - (n + 1) + 1 ELSE 0)
        /\ \A i \in 1..(Len(s) - (n + 1) + 1) : b[i] = s[n + 1 + i - 1]
    BY <2>1, SubSeqProperties
  <2> HIDE DEF b
  <2>3. Len(b) = Len(s) - n
    BY <1>1, <2>2
  <2>4. \A i \in 1..(Len(s) - n) : b[i] = s[n + i]
    <3>1. Len(s) - (n + 1) + 1 = Len(s) - n
      BY <1>1
    <3>2. \A i \in 1..(Len(s) - n) : n + 1 + i - 1 = n + i
      BY <1>1
    <3>3. QED
      BY <2>2, <3>1, <3>2
  <2>5. QED
    BY <2>2, <2>3, <2>4
<1>4. RemoveAt(s, n) = a \o b
  BY DEF RemoveAt
<1> HIDE DEF a, b
<1>5. /\ a \o b \in Seq(S) /\ Len(a \o b) = Len(a) + Len(b)
      /\ \A i \in 1..(Len(a) + Len(b)) : (a \o b)[i] = IF i <= Len(a) THEN a[i] ELSE b[i - Len(a)]
  BY <1>2, <1>3, ConcatProperties
<1>6. Len(a) + Len(b) = Len(s) - 1
  BY <1>1, <1>2, <1>3
<1>7. ASSUME NEW i \in 1..(Len(s) - 1)
      PROVE  (a \o b)[i] = IF i < n THEN s[i] ELSE s[i + 1]
  <2>1. CASE i < n
    <3>1. i <= Len(a) /\ i \in 1..(n - 1)
      BY <1>1, <1>2, <2>1
    <3>2. QED
      BY <1>2, <1>5, <1>6, <2>1, <3>1
  <2>2. CASE ~(i < n)
    <3>1. ~(i <= Len(a)) /\ i - Len(a) = i - n + 1 /\ i - n + 1 \in 1..(Len(s) - n) /\ n + (i - n + 1) = i + 1
      BY <1>1, <1>2, <2>2
    <3>2. (a \o b)[i] = b[i - Len(a)]
      BY <1>5, <1>6, <3>1
    <3>3. b[i - n + 1] = s[n + (i - n + 1)]
      BY <1>3, <3>1
    <3>4. QED
      BY <2>2, <3>1, <3>2, <3>3
  <2>3. QED
    BY <2>1, <2>2
<1>8. QED
  BY <1>4, <1>5, <1>6, <1>7

LEMMA WithoutSheetFacts ==
    ASSUME NEW order \in Seq(ListedIds), AllDifferent(order), NEW s
    PROVE  /\ WithoutSheet(order, s) \in Seq(ListedIds) /\ AllDifferent(WithoutSheet(order, s))
           /\ Listed(WithoutSheet(order, s)) = Listed(order) \ {s}
           /\ WithoutSheet(order, s) = << >> <=> Listed(order) \ {s} = {}
           /\ s \in Listed(order) => Len(WithoutSheet(order, s)) = Len(order) - 1
<1> DEFINE rest == WithoutSheet(order, s)
           n == NumberOf(order, s)
<1>1. DOMAIN order = 1..Len(order) /\ Len(order) \in Nat
  BY OrderFacts
<1>2. CASE s \notin Listed(order)
  <2>1. rest = order
    BY <1>2 DEF WithoutSheet
  <2>2. order = << >> <=> Listed(order) = {}
    BY <1>1 DEF Listed
  <2>3. QED
    BY <1>2, <2>1, <2>2
<1>3. CASE s \in Listed(order)
  <2>1. n \in 1..Len(order) /\ order[n] = s
    BY <1>3, OrderFacts
  <2>2. rest = RemoveAt(order, n)
    BY <1>3 DEF WithoutSheet
  <2> HIDE DEF n, rest
  <2>3. /\ rest \in Seq(ListedIds) /\ Len(rest) = Len(order) - 1
        /\ \A i \in 1..(Len(order) - 1) : rest[i] = IF i < n THEN order[i] ELSE order[i + 1]
    BY <1>1, <2>1, <2>2, RemovedFacts
  <2>4. DOMAIN rest = 1..(Len(order) - 1)
    BY <2>3
  <2>5. ASSUME NEW i \in DOMAIN rest, NEW j \in DOMAIN rest, rest[i] = rest[j] PROVE i = j
    <3> DEFINE f(k) == IF k < n THEN k ELSE k + 1
    <3>1. rest[i] = order[f(i)] /\ rest[j] = order[f(j)] /\ f(i) \in DOMAIN order /\ f(j) \in DOMAIN order
      BY <1>1, <2>1, <2>3, <2>4
    <3>2. f(i) = f(j)
      BY <2>5, <3>1 DEF AllDifferent
    <3>3. QED
      BY <1>1, <2>1, <2>4, <3>2
  <2>6. ASSUME NEW t \in Listed(rest) PROVE t \in Listed(order) \ {s}
    <3>1. PICK i \in 1..(Len(order) - 1) : rest[i] = t
      BY <2>3 DEF Listed
    <3>2. PICK j \in 1..Len(order) : order[j] = t /\ j # n
      <4>1. CASE i < n
        BY <1>1, <2>1, <2>3, <3>1, <4>1
      <4>2. CASE ~(i < n)
        BY <1>1, <2>1, <2>3, <3>1, <4>2
      <4>3. QED
        BY <4>1, <4>2
    <3>3. t # s
      BY <1>1, <2>1, <3>2 DEF AllDifferent
    <3>4. QED
      BY <3>2, <3>3 DEF Listed
  <2>7. ASSUME NEW t \in Listed(order) \ {s} PROVE t \in Listed(rest)
    <3>1. PICK j \in 1..Len(order) : order[j] = t
      BY DEF Listed
    <3>2. j # n
      BY <2>1, <3>1
    <3>3. \E i \in 1..(Len(order) - 1) : rest[i] = t
      <4>1. CASE j < n
        <5>1. j \in 1..(Len(order) - 1)
          BY <1>1, <2>1, <4>1
        <5>2. QED
          BY <2>3, <3>1, <4>1, <5>1
      <4>2. CASE ~(j < n)
        <5>1. j - 1 \in 1..(Len(order) - 1) /\ ~(j - 1 < n) /\ j - 1 + 1 = j
          BY <1>1, <2>1, <3>2, <4>2
        <5>2. QED
          BY <2>3, <3>1, <5>1
      <4>3. QED
        BY <4>1, <4>2
    <3>4. QED
      BY <2>3, <3>3 DEF Listed
  <2>8. Listed(rest) = Listed(order) \ {s}
    BY <2>6, <2>7
  <2>9. rest = << >> <=> Listed(rest) = {}
    BY <2>3 DEF Listed
  <2>10. AllDifferent(rest)
    BY <2>5 DEF AllDifferent
  <2>11. QED
    BY <2>3, <2>8, <2>9, <2>10 DEF rest
<1>4. QED
  BY <1>2, <1>3

LEMMA AppendedFacts ==
    ASSUME NEW order \in Orders, NEW s \in ListedIds \ Listed(order)
    PROVE  /\ Append(order, s) \in Orders
           /\ \A t \in Listed(order) : t \in Listed(Append(order, s)) /\ NumberOf(Append(order, s), t) = NumberOf(order, t)
<1> DEFINE more == Append(order, s)
<1>1. order \in Seq(ListedIds) /\ AllDifferent(order)
  BY DEF Orders
<1>2. DOMAIN order = 1..Len(order) /\ Len(order) \in Nat /\ \A n \in 1..Len(order) : order[n] \in Listed(order)
  BY <1>1, OrderFacts
<1>3. /\ more \in Seq(ListedIds) /\ Len(more) = Len(order) + 1 /\ more # << >>
      /\ \A n \in 1..Len(order) : more[n] = order[n]
      /\ more[Len(order) + 1] = s
  BY <1>1
<1> HIDE DEF more
<1>4. ASSUME NEW i \in DOMAIN more, NEW j \in DOMAIN more, more[i] = more[j] PROVE i = j
  <2>1. i \in 1..Len(order) \/ i = Len(order) + 1
    BY <1>2, <1>3
  <2>2. j \in 1..Len(order) \/ j = Len(order) + 1
    BY <1>2, <1>3
  <2>3. CASE i \in 1..Len(order) /\ j \in 1..Len(order)
    BY <1>1, <1>2, <1>3, <1>4, <2>3 DEF AllDifferent
  <2>4. QED
    BY <1>2, <1>3, <1>4, <2>1, <2>2, <2>3
<1>5. AllDifferent(more)
  BY <1>4 DEF AllDifferent
<1>6. ASSUME NEW t \in Listed(order)
      PROVE  t \in Listed(more) /\ NumberOf(more, t) = NumberOf(order, t)
  <2>1. NumberOf(order, t) \in 1..Len(order) /\ order[NumberOf(order, t)] = t
    BY <1>1, OrderFacts
  <2>2. NumberOf(order, t) \in 1..Len(more) /\ more[NumberOf(order, t)] = t
    BY <1>2, <1>3, <2>1
  <2>3. QED
    BY <1>3, <1>5, <2>2, OrderFacts
<1>7. QED
  BY <1>3, <1>5, <1>6 DEF more, Orders

-----------------------------------------------------------------------------
(* The lists drawer: its rows are derived, the cache does not matter.      *)

OwnEntry(d) == [sheet |-> d.sheet, no |-> NumberOf(d.order, d.sheet), doc |-> d.doc]

RowsOf(d) ==
    LET entries == DrawerSheets(d)
    IN  {Row(entries[n], IndexOf(entries[n].doc, Target(entries[n], entries))) : n \in 1..Len(entries)}

CacheTrue == \A cached \in drawer.cache : cached.index = IndexOf(cached.doc, cached.target)

RowsDerived ==
    /\ CacheTrue
    /\ drawer.rows = IF drawer.shown /\ desk.doc # NoDocument THEN RowsOf(desk) ELSE {}

LEMMA EntriesFacts ==
    ASSUME NEW d, d.others \in Seq(Copies)
    PROVE  /\ Len(DrawerSheets(d)) = Len(d.others) + 1 /\ Len(d.others) \in Nat
           /\ DrawerSheets(d)[1] = OwnEntry(d)
           /\ \A n \in 1..Len(d.others) : DrawerSheets(d)[n + 1] = d.others[n]
<1> DEFINE own == <<OwnEntry(d)>>
           others == d.others
           S == Copies \cup {OwnEntry(d)}
<1>1. own \in Seq(S) /\ others \in Seq(S) /\ Len(own) = 1 /\ own[1] = OwnEntry(d) /\ Len(others) \in Nat
  OBVIOUS
<1>2. DrawerSheets(d) = own \o others
  BY DEF DrawerSheets, OwnEntry
<1> HIDE DEF own, others, S
<1>3. /\ Len(own \o others) = Len(own) + Len(others)
      /\ \A i \in 1..(Len(own) + Len(others)) : (own \o others)[i] = IF i <= Len(own) THEN own[i] ELSE others[i - Len(own)]
  BY <1>1, ConcatProperties
<1>4. (own \o others)[1] = OwnEntry(d)
  BY <1>1, <1>3
<1>5. ASSUME NEW n \in 1..Len(others) PROVE (own \o others)[n + 1] = others[n]
  <2>1. n + 1 \in 1..(Len(own) + Len(others)) /\ ~(n + 1 <= Len(own)) /\ n + 1 - Len(own) = n
    BY <1>1
  <2>2. QED
    BY <1>3, <2>1
<1>6. QED
  BY <1>1, <1>2, <1>3, <1>4, <1>5 DEF others

\* Drawing the drawer gives the rows of the desk, whatever true cache it starts from.
LEMMA DrawnFacts ==
    ASSUME NEW d, d.others \in Seq(Copies), NEW shown, NEW cache,
           \A cached \in cache : cached.index = IndexOf(cached.doc, cached.target)
    PROVE  /\ \A cached \in Drawn(d, shown, cache).cache : cached.index = IndexOf(cached.doc, cached.target)
           /\ Drawn(d, shown, cache).rows = IF shown /\ d.doc # NoDocument THEN RowsOf(d) ELSE {}
           /\ Drawn(d, shown, cache).shown <=> shown
<1> DEFINE entries == DrawerSheets(d)
           others == {entries[n] : n \in 2..Len(entries)}
           kept(entry) == CachedIndex(cache, entry, Target(entry, entries))
<1>1. CASE ~shown \/ d.doc = NoDocument
  BY <1>1 DEF Drawn
<1>2. CASE shown /\ d.doc # NoDocument
  <2>1. Drawn(d, shown, cache) =
            [shown |-> TRUE, cache |-> {kept(entry) : entry \in others},
             rows |-> {Row(entries[1], IndexOf(d.doc, Target(entries[1], entries)))} \cup {Row(entry, kept(entry).index) : entry \in others}]
    BY <1>2 DEF Drawn
  <2>2. ASSUME NEW entry
        PROVE  /\ kept(entry).index = IndexOf(entry.doc, Target(entry, entries))
               /\ kept(entry).index = IndexOf(kept(entry).doc, kept(entry).target)
    <3> DEFINE hits == {cached \in cache : Hit(cached, entry, Target(entry, entries))}
    <3>1. CASE hits = {}
      <4>1. kept(entry) = [sheet |-> entry.sheet, doc |-> entry.doc, target |-> Target(entry, entries),
                           index |-> IndexOf(entry.doc, Target(entry, entries))]
        BY <3>1 DEF CachedIndex
      <4> HIDE DEF kept, entries
      <4>2. QED
        BY <4>1
    <3>2. CASE hits # {}
      <4>1. kept(entry) \in hits
        BY <3>2 DEF CachedIndex
      <4>2. kept(entry) \in cache /\ Hit(kept(entry), entry, Target(entry, entries))
        BY <4>1
      <4> HIDE DEF kept, entries
      <4>3. QED
        BY <4>2 DEF Hit
    <3>3. QED
      BY <3>1, <3>2
  <2>3. Len(entries) \in Nat /\ 1 \in 1..Len(entries) /\ entries[1] = OwnEntry(d)
    BY EntriesFacts
  <2>4. entries[1].doc = d.doc
    BY <2>3 DEF OwnEntry
  <2>5. \A n \in 1..Len(entries) : n = 1 \/ n \in 2..Len(entries)
    BY <2>3
  <2>6. 2..Len(entries) \subseteq 1..Len(entries)
    BY <2>3
  <2> HIDE DEF kept, entries
  <2>7. {Row(entries[1], IndexOf(d.doc, Target(entries[1], entries)))} \cup {Row(entry, kept(entry).index) : entry \in others}
          = {Row(entries[n], IndexOf(entries[n].doc, Target(entries[n], entries))) : n \in 1..Len(entries)}
    BY <2>2, <2>3, <2>4, <2>5, <2>6
  <2>8. \A cached \in {kept(entry) : entry \in others} : cached.index = IndexOf(cached.doc, cached.target)
    BY <2>2
  <2>9. RowsOf(d) = {Row(entries[n], IndexOf(entries[n].doc, Target(entries[n], entries))) : n \in 1..Len(entries)}
    BY DEF RowsOf, entries
  <2>10. ASSUME NEW c, NEW r, Drawn(d, shown, cache) = [shown |-> TRUE, cache |-> c, rows |-> r]
         PROVE  /\ Drawn(d, shown, cache).cache = c /\ Drawn(d, shown, cache).rows = r
                /\ Drawn(d, shown, cache).shown = TRUE
    BY <2>10
  <2>11. /\ Drawn(d, shown, cache).cache = {kept(entry) : entry \in others}
         /\ Drawn(d, shown, cache).rows = RowsOf(d)
         /\ Drawn(d, shown, cache).shown = TRUE
    BY <2>1, <2>7, <2>9, <2>10
  <2>12. QED
    BY <1>2, <2>8, <2>11
<1>3. QED
  BY <1>1, <1>2

\* How a step may change the desk and the drawer.
DeskMoves ==
    \/ Desk(desk')
    \/ UNCHANGED <<desk, drawer>>
    \/ desk' = desk /\ drawer' = Drawn(desk, ~drawer.shown, {})

LEMMA RowsFollow ==
    ASSUME RowsDerived, DeskMoves, desk.others \in Seq(Copies), desk'.others \in Seq(Copies)
    PROVE  RowsDerived'
<1>1. CASE Desk(desk')
  <2>1. drawer' = Drawn(desk', drawer.shown, drawer.cache)
    BY <1>1 DEF Desk
  <2>2. /\ \A cached \in drawer'.cache : cached.index = IndexOf(cached.doc, cached.target)
        /\ drawer'.rows = IF drawer.shown /\ desk'.doc # NoDocument THEN RowsOf(desk') ELSE {}
        /\ drawer'.shown <=> drawer.shown
    BY <2>1, DrawnFacts DEF RowsDerived, CacheTrue
  <2>3. QED
    BY <2>2 DEF RowsDerived, CacheTrue, RowsOf
<1>2. CASE UNCHANGED <<desk, drawer>>
  BY <1>2 DEF RowsDerived, CacheTrue, RowsOf
<1>3. CASE desk' = desk /\ drawer' = Drawn(desk, ~drawer.shown, {})
  <2>1. /\ \A cached \in drawer'.cache : cached.index = IndexOf(cached.doc, cached.target)
        /\ drawer'.rows = IF ~drawer.shown /\ desk.doc # NoDocument THEN RowsOf(desk) ELSE {}
        /\ drawer'.shown <=> ~drawer.shown
    <3> DEFINE none == {}
               flip == ~drawer.shown
               drawn == Drawn(desk, flip, none)
    <3>1. \A cached \in none : cached.index = IndexOf(cached.doc, cached.target)
      OBVIOUS
    <3> HIDE DEF none, flip
    <3>2. /\ \A cached \in drawn.cache : cached.index = IndexOf(cached.doc, cached.target)
          /\ drawn.rows = IF flip /\ desk.doc # NoDocument THEN RowsOf(desk) ELSE {}
          /\ drawn.shown <=> flip
      BY <3>1, DrawnFacts
    <3> USE DEF none, flip
    <3>3. drawer' = drawn
      BY <1>3
    <3> HIDE DEF drawn
    <3>4. QED
      BY <3>2, <3>3
  <2>2. QED
    BY <1>3, <2>1 DEF RowsDerived, CacheTrue, RowsOf
<1>4. QED
  BY <1>1, <1>2, <1>3 DEF DeskMoves

\* The sheet of a row of the drawer is one of the sheets there are.
LEMMA RowSheets ==
    ASSUME ListsTyped, RowsDerived, desk.doc # NoDocument => desk.sheet \in ListedIds, NEW row \in drawer.rows
    PROVE  row.sheet \in ListedIds
<1> DEFINE entries == DrawerSheets(desk)
<1>1. desk.doc # NoDocument /\ drawer.rows = RowsOf(desk)
  BY DEF RowsDerived
<1>2. PICK n \in 1..Len(entries) : row.sheet = entries[n].sheet
  BY <1>1 DEF RowsOf, Row
<1>3. desk.others \in Seq(Copies)
  BY DEF ListsTyped, Desks
<1>4. Len(entries) = Len(desk.others) + 1 /\ Len(desk.others) \in Nat /\ entries[1] = OwnEntry(desk)
      /\ \A m \in 1..Len(desk.others) : entries[m + 1] = desk.others[m]
  BY <1>3, EntriesFacts
<1> HIDE DEF entries
<1>5. CASE n = 1
  BY <1>1, <1>2, <1>4, <1>5 DEF OwnEntry
<1>6. CASE n # 1
  <2>1. n - 1 \in 1..Len(desk.others) /\ n - 1 + 1 = n
    BY <1>4, <1>6
  <2>2. entries[n] = desk.others[n - 1] /\ desk.others[n - 1] \in Copies
    BY <1>3, <1>4, <2>1
  <2>3. QED
    BY <1>2, <2>2 DEF Copies
<1>7. QED
  BY <1>5, <1>6

-----------------------------------------------------------------------------
(* The lists drawer: the invariant.                                        *)

OtherSheets == Listed(desk.order) \ {desk.sheet}

\* One copy of every other sheet.
Covering(copies) ==
    /\ \A m, n \in DOMAIN copies : copies[m].sheet = copies[n].sheet => m = n
    /\ {copies[n].sheet : n \in DOMAIN copies} = OtherSheets

Numbered(copies) ==
    \A n \in DOMAIN copies : /\ copies[n].sheet \in Listed(filed.order)
                             /\ copies[n].no = NumberOf(filed.order, copies[n].sheet)

\* A sheet was removed, and the page does not know yet.
Removing == \E c \in asked : c.kind = "remove" /\ c.step = "read"

\* Copies an answer brings: as filed, and no write of them is on its way back.
CopiesRead(copies) ==
    /\ Covering(copies)
    /\ Removing \/ Numbered(copies)
    /\ \A n \in DOMAIN copies : copies[n].doc = filed.docs[copies[n].sheet]
    /\ \A e \in asked : e.kind \in {"save", "edit"} /\ e.sheet \in OtherSheets => e.kind = "edit" /\ e.step # "read"

\* The page's copies: as filed, or an edit that was stored will bring the page the document.
CopiesKept(copies) ==
    /\ Covering(copies)
    /\ Removing \/ Numbered(copies)
    /\ \A n \in DOMAIN copies :
          \/ copies[n].doc = filed.docs[copies[n].sheet]
          \/ \E e \in asked : e.kind = "edit" /\ e.step = "read" /\ e.sheet = copies[n].sheet
    /\ \A e \in asked : e.kind \in {"save", "edit"} /\ e.sheet \in OtherSheets =>
          e.kind = "edit" /\ (e.step = "read" => e.doc = filed.docs[e.sheet])

ReadingOthers == \E c \in asked : c.kind = "others"

OthersTrue ==
    ~astray /\ desk.sheet # NoSheetOpen =>
        /\ \A c \in asked : c.kind = "others" /\ c.step = "read" => CopiesRead(c.copies)
        /\ ~ReadingOthers => CopiesKept(desk.others)

WaiverCalls == {c \in asked : c.kind \in WaiverKinds}

\* What a waiver call that is alone will tell is so.
WaiverTold(c) ==
    /\ c.kind = "unwaive" => c.sheet \notin filed.waived
    /\ c.kind = "read_waivers" => (c.sheets # << >> <=> c.sheet \in filed.waived)

WaiversTrue ==
    ~astray =>
        /\ \A c \in WaiverCalls : c.sheet = desk.sheet
        /\ \A c \in WaiverCalls : c.step = "read" /\ WaiverCalls = {c} => WaiverTold(c)
        /\ (\A c \in asked : c.kind \notin WaiverKinds \cup {"waivers"}) /\ desk.sheet # NoSheetOpen =>
              (desk.waived <=> desk.sheet \in filed.waived)

SheetShown ==
    /\ desk.sheet = NoSheetOpen => desk.doc = NoDocument
    /\ desk.sheet # NoSheetOpen => desk.sheet \in Listed(desk.order)

CallSound(c) ==
    /\ c.kind \in {"open", "waivers"} => c.sheet = desk.sheet /\ c.sheet # NoSheetOpen /\ c.step \in {"sent", "failed"}
    /\ c.kind = "others" => AllDifferent(c.sheets) /\ Listed(c.sheets) = OtherSheets /\ c.step # "reading"
    /\ c.kind \in WaiverKinds \cup {"save", "edit", "add", "remove"} => c.sheet \in ListedIds
    /\ c.kind = "save" \/ (c.kind = "edit" /\ c.step \in {"sent", "read"}) => c.doc \in SheetDocs
    /\ c.kind = "list" /\ c.step = "read" => c.sheets \in Orders
    /\ c.kind = "add" /\ c.step = "sent" => c.sheet \notin Listed(filed.order)

CallsSound ==
    /\ \A c \in asked : CallSound(c)
    /\ \A c, e \in asked : c.kind = e.kind /\ c.kind \in {"add", "edit"} => c = e

DrawerInv == ListsTyped /\ RowsDerived /\ SheetShown /\ CallsSound /\ WaiversTrue /\ OthersTrue

LEMMA QuietFollows == ASSUME DrawerInv PROVE QuietDrawerIsCurrent
<1> SUFFICES ASSUME asked = {}, ~astray, desk.order = filed.order, drawer.shown, desk.doc # NoDocument
             PROVE  /\ desk.waived = (desk.sheet \in filed.waived)
                    /\ {row.sheet : row \in drawer.rows} = Listed(filed.order)
                    /\ Cardinality(drawer.rows) = Len(filed.order)
                    /\ \A row \in drawer.rows :
                          /\ row.no = NumberOf(filed.order, row.sheet)
                          /\ row.tag = Latest(row.sheet).tag
                          /\ IF Continues(row.sheet) = {} THEN row.target = NoTarget ELSE row.target \in Continues(row.sheet)
  BY DEF QuietDrawerIsCurrent
<1> DEFINE entries == DrawerSheets(desk)
           order == filed.order
<1>1. desk.sheet # NoSheetOpen /\ desk.sheet \in Listed(order)
  BY DEF DrawerInv, SheetShown
<1>2. order \in Seq(ListedIds) /\ AllDifferent(order) /\ Len(order) \in Nat /\ desk.others \in Seq(Copies) /\ desk.waived \in BOOLEAN
  BY OrderFacts DEF DrawerInv, ListsTyped, Filings, Orders, Desks
<1>3. desk.waived = (desk.sheet \in filed.waived)
  <2>1. desk.waived <=> desk.sheet \in filed.waived
    BY <1>1 DEF DrawerInv, WaiversTrue
  <2>2. QED
    BY <1>2, <2>1
<1>4. CopiesKept(desk.others)
  BY <1>1 DEF DrawerInv, OthersTrue, ReadingOthers
<1>5. /\ \A m, n \in DOMAIN desk.others : desk.others[m].sheet = desk.others[n].sheet => m = n
      /\ {desk.others[n].sheet : n \in DOMAIN desk.others} = Listed(order) \ {desk.sheet}
      /\ \A n \in DOMAIN desk.others : desk.others[n].no = NumberOf(order, desk.others[n].sheet)
      /\ \A n \in DOMAIN desk.others : desk.others[n].doc = filed.docs[desk.others[n].sheet]
  BY <1>4 DEF CopiesKept, Covering, Numbered, Removing, OtherSheets
<1>6. /\ Len(entries) = Len(desk.others) + 1 /\ Len(desk.others) \in Nat /\ DOMAIN desk.others = 1..Len(desk.others)
      /\ entries[1] = OwnEntry(desk) /\ \A n \in 1..Len(desk.others) : entries[n + 1] = desk.others[n]
  BY <1>2, EntriesFacts
<1> HIDE DEF entries
<1>7. \A n \in 1..Len(entries) : n = 1 \/ (n - 1 \in DOMAIN desk.others /\ entries[n] = desk.others[n - 1])
  <2>1. SUFFICES ASSUME NEW n \in 1..Len(entries), n # 1
                 PROVE  n - 1 \in DOMAIN desk.others /\ entries[n] = desk.others[n - 1]
    OBVIOUS
  <2>2. n - 1 \in 1..Len(desk.others) /\ n - 1 + 1 = n
    BY <1>6, <2>1
  <2>3. QED
    BY <1>6, <2>2
<1>8. ASSUME NEW n \in 1..Len(entries)
      PROVE  /\ entries[n].sheet \in Listed(order)
             /\ entries[n].no = NumberOf(order, entries[n].sheet)
             /\ entries[n].doc = Latest(entries[n].sheet)
             /\ n = 1 <=> entries[n].sheet = desk.sheet
  <2>1. CASE n = 1
    BY <1>1, <1>6, <2>1 DEF OwnEntry, Latest
  <2>2. CASE n # 1
    <3>1. n - 1 \in DOMAIN desk.others /\ entries[n] = desk.others[n - 1]
      BY <1>7, <2>2
    <3>2. entries[n].sheet \in Listed(order) \ {desk.sheet}
      BY <1>5, <3>1
    <3>3. QED
      BY <1>5, <2>2, <3>1, <3>2 DEF Latest
  <2>3. QED
    BY <2>1, <2>2
<1>9. ASSUME NEW m \in 1..Len(entries), NEW n \in 1..Len(entries), entries[m].sheet = entries[n].sheet PROVE m = n
  <2>1. CASE m = 1 \/ n = 1
    BY <1>8, <1>9, <2>1
  <2>2. CASE m # 1 /\ n # 1
    <3>1. /\ m - 1 \in DOMAIN desk.others /\ entries[m] = desk.others[m - 1]
          /\ n - 1 \in DOMAIN desk.others /\ entries[n] = desk.others[n - 1]
      BY <1>7, <2>2
    <3>2. m - 1 = n - 1
      BY <1>5, <1>9, <3>1
    <3>3. QED
      BY <1>6, <3>2
  <2>3. QED
    BY <2>1, <2>2
<1>10. ASSUME NEW s \in Listed(order) PROVE \E n \in 1..Len(entries) : entries[n].sheet = s
  <2>1. CASE s = desk.sheet
    <3>1. 1 \in 1..Len(entries)
      BY <1>6
    <3>2. QED
      BY <1>6, <2>1, <3>1 DEF OwnEntry
  <2>2. CASE s # desk.sheet
    <3>1. PICK n \in DOMAIN desk.others : desk.others[n].sheet = s
      BY <1>5, <2>2
    <3>2. n + 1 \in 1..Len(entries) /\ entries[n + 1] = desk.others[n]
      BY <1>6, <3>1
    <3>3. QED
      BY <3>1, <3>2
  <2>3. QED
    BY <2>1, <2>2
<1> DEFINE row(n) == Row(entries[n], IndexOf(entries[n].doc, Target(entries[n], entries)))
<1>11. drawer.rows = {row(n) : n \in 1..Len(entries)}
  BY DEF DrawerInv, RowsDerived, RowsOf, entries
<1>12. ASSUME NEW n \in 1..Len(entries)
       PROVE  /\ row(n).sheet = entries[n].sheet /\ row(n).no = entries[n].no /\ row(n).tag = entries[n].doc.tag
              /\ row(n).target = Target(entries[n], entries)
  BY DEF Row, IndexOf
<1> HIDE DEF row, order
<1>13. {r.sheet : r \in drawer.rows} = Listed(order)
  <2>1. \A r \in drawer.rows : r.sheet \in Listed(order)
    BY <1>8, <1>11, <1>12
  <2>2. ASSUME NEW s \in Listed(order) PROVE \E r \in drawer.rows : r.sheet = s
    <3>1. PICK n \in 1..Len(entries) : entries[n].sheet = s
      BY <1>10
    <3>2. row(n) \in drawer.rows /\ row(n).sheet = s
      BY <1>11, <1>12, <3>1
    <3>3. QED
      BY <3>2
  <2>3. QED
    BY <2>1, <2>2
<1>14. Cardinality(drawer.rows) = Len(order)
  <2> DEFINE f == [n \in 1..Len(order) |-> CHOOSE r \in drawer.rows : r.sheet = order[n]]
  <2>1. \A r, q \in drawer.rows : r.sheet = q.sheet => r = q
    <3>1. SUFFICES ASSUME NEW r \in drawer.rows, NEW q \in drawer.rows, r.sheet = q.sheet PROVE r = q
      OBVIOUS
    <3>2. PICK m \in 1..Len(entries) : r = row(m)
      BY <1>11
    <3>3. PICK n \in 1..Len(entries) : q = row(n)
      BY <1>11
    <3>4. m = n
      BY <1>9, <1>12, <3>1, <3>2, <3>3
    <3>5. QED
      BY <3>2, <3>3, <3>4
  <2>2. ASSUME NEW n \in 1..Len(order) PROVE f[n] \in drawer.rows /\ f[n].sheet = order[n]
    <3>1. order[n] \in Listed(order)
      BY <1>2, OrderFacts
    <3>2. \E r \in drawer.rows : r.sheet = order[n]
      BY <1>13, <3>1
    <3>3. QED
      BY <3>2
  <2>3. f \in [1..Len(order) -> drawer.rows]
    BY <2>2
  <2> HIDE DEF f
  <2>4. ASSUME NEW r \in drawer.rows PROVE \E n \in 1..Len(order) : f[n] = r
    <3>1. r.sheet \in Listed(order)
      BY <1>13
    <3>2. PICK n \in 1..Len(order) : order[n] = r.sheet
      BY <1>2, <3>1, OrderFacts
    <3>3. QED
      BY <2>1, <2>2, <3>2
  <2>5. ASSUME NEW m \in 1..Len(order), NEW n \in 1..Len(order), f[m] = f[n] PROVE m = n
    <3>1. order[m] = order[n]
      BY <2>2, <2>5
    <3>2. DOMAIN order = 1..Len(order)
      BY <1>2, OrderFacts
    <3>3. QED
      BY <1>2, <3>1, <3>2 DEF AllDifferent
  <2>6. f \in Bijection(1..Len(order), drawer.rows)
    BY <2>3, <2>4, <2>5 DEF Bijection, Injection, IsInjective, Surjection
  <2>7. ASSUME NEW n \in Nat PROVE IsFiniteSet(1..n) /\ Cardinality(1..n) = n
    BY FS_Interval
  <2>8. IsFiniteSet(1..Len(order)) /\ Cardinality(1..Len(order)) = Len(order)
    BY <1>2, <2>7
  <2>9. QED
    BY <2>6, <2>8, FS_Bijection DEF ExistsBijection
<1>15. ASSUME NEW n \in 1..Len(entries)
       PROVE  IF Continues(entries[n].sheet) = {} THEN Target(entries[n], entries) = NoTarget
              ELSE Target(entries[n], entries) \in Continues(entries[n].sheet)
  <2> DEFINE entry == entries[n]
             pairs == {m \in 1..Len(entries) : entries[m].sheet # entry.sheet /\ entries[m].doc.ref = entry.doc.ref}
             first == CHOOSE m \in pairs : \A k \in pairs : m <= k
             next == {u \in Listed(order) \ {entry.sheet} : Latest(u).ref = Latest(entry.sheet).ref /\ Latest(entry.sheet).ref # NoRef}
  <2>1. Target(entry, entries) = IF entry.doc.ref = NoRef \/ pairs = {} THEN NoTarget
                                 ELSE <<entries[first].no, entries[first].doc.zone>>
    BY DEF Target
  <2>2. Continues(entry.sheet) = {<<NumberOf(order, t), Latest(t).zone>> : t \in next}
    BY DEF Continues, order
  <2>3. CASE entry.doc.ref = NoRef \/ pairs = {}
    <3>1. next = {}
      <4>1. SUFFICES ASSUME NEW u \in next PROVE FALSE
        OBVIOUS
      <4>2. PICK m \in 1..Len(entries) : entries[m].sheet = u
        BY <1>10
      <4>3. m \in pairs /\ entry.doc.ref # NoRef
        BY <1>8, <4>2
      <4>4. QED
        BY <2>3, <4>3
    <3>2. QED
      BY <2>1, <2>2, <2>3, <3>1
  <2>4. CASE entry.doc.ref # NoRef /\ pairs # {}
    <3>1. \E m \in pairs : \A k \in pairs : m <= k
      <4>1. pairs \subseteq Nat
        OBVIOUS
      <4>2. QED
        BY <2>4, <4>1, LeastNatural
    <3>2. first \in pairs
      BY <3>1
    <3>3. /\ first \in 1..Len(entries) /\ entries[first].sheet # entry.sheet
          /\ entries[first].doc.ref = entry.doc.ref
      BY <3>2
    <3> HIDE DEF first
    <3>4. entries[first].sheet \in next
      BY <1>8, <2>4, <3>3
    <3>5. entries[first].no = NumberOf(order, entries[first].sheet) /\ entries[first].doc = Latest(entries[first].sheet)
      BY <1>8, <3>3
    <3> HIDE DEF next, pairs
    <3>6. <<entries[first].no, entries[first].doc.zone>> \in Continues(entry.sheet)
      BY <2>2, <3>4, <3>5
    <3>7. QED
      BY <2>1, <2>4, <3>6
  <2>5. QED
    BY <2>3, <2>4
<1>16. ASSUME NEW r \in drawer.rows
       PROVE  /\ r.no = NumberOf(order, r.sheet)
              /\ r.tag = Latest(r.sheet).tag
              /\ IF Continues(r.sheet) = {} THEN r.target = NoTarget ELSE r.target \in Continues(r.sheet)
  <2>1. PICK n \in 1..Len(entries) : r = row(n)
    BY <1>11
  <2>2. r.sheet = entries[n].sheet /\ r.no = entries[n].no /\ r.tag = entries[n].doc.tag /\ r.target = Target(entries[n], entries)
    BY <1>12, <2>1
  <2>3. QED
    BY <1>8, <1>15, <2>2
<1>17. QED
  BY <1>3, <1>13, <1>14, <1>16 DEF order

-----------------------------------------------------------------------------
(* The lists drawer: calls come, change and go.                            *)

LEMMA AskFacts ==
    ASSUME NEW kind \in WaiverKinds \cup {"open", "waivers", "others", "save", "edit", "remove", "add", "list"},
           NEW sheet \in ListedIds \cup {NoSheetOpen}
    PROVE  /\ Ask(kind, sheet) \in ListCalls /\ Ask(kind, sheet).kind = kind /\ Ask(kind, sheet).sheet = sheet
           /\ Ask(kind, sheet).step = "sent"
<1>1. << >> \in Seq(ListedIds) /\ << >> \in Seq(Copies)
  OBVIOUS
<1>2. QED
  BY <1>1 DEF Ask, ListCalls

LEMMA DocFacts ==
    ASSUME NEW c \in ListCalls, NEW doc \in SheetDocs
    PROVE  LET changed == [c EXCEPT !.doc = doc]
           IN  /\ changed \in ListCalls /\ changed.kind = c.kind /\ changed.sheet = c.sheet /\ changed.step = c.step
               /\ changed.doc = doc
  BY DEF ListCalls

LEMMA SheetsFacts ==
    ASSUME NEW c \in ListCalls, NEW sheets \in Seq(ListedIds)
    PROVE  LET changed == [c EXCEPT !.sheets = sheets]
           IN  /\ changed \in ListCalls /\ changed.kind = c.kind /\ changed.sheet = c.sheet /\ changed.step = c.step
               /\ changed.sheets = sheets
  BY DEF ListCalls

LEMMA StepFacts ==
    ASSUME NEW c \in ListCalls, NEW step \in {"sent", "reading", "read", "failed"}
    PROVE  LET answer == [c EXCEPT !.step = step]
           IN  /\ answer \in ListCalls /\ answer.kind = c.kind /\ answer.sheet = c.sheet /\ answer.step = step
               /\ answer.sheets = c.sheets /\ answer.copies = c.copies /\ answer.doc = c.doc
  BY DEF ListCalls

\* Of these calls no two are additions, and no two commits of cells.
Single(calls) == \A c, e \in calls : c.kind = e.kind /\ c.kind \in {"add", "edit"} => c = e

\* The open sheet, the other sheets there are and their copies stay, and the order and documents filed.
SameSheets ==
    /\ desk'.sheet = desk.sheet /\ OtherSheets' = OtherSheets /\ desk'.others = desk.others
    /\ filed'.order = filed.order /\ filed'.docs = filed.docs

LEMMA CallsFrame ==
    ASSUME CallsSound, SameSheets, \A c \in asked' : c \in asked \/ CallSound(c), Single(asked')
    PROVE  CallsSound'
<1>1. ASSUME NEW c \in asked' PROVE CallSound(c)'
  <2>1. CallSound(c)
    BY DEF CallsSound
  <2>2. QED
    BY <2>1 DEF CallSound, SameSheets
<1>2. QED
  BY <1>1 DEF CallsSound, Single

LEMMA WaiversFrame ==
    ASSUME WaiversTrue, ~astray' => ~astray, desk'.sheet = desk.sheet, desk'.waived = desk.waived, filed'.waived = filed.waived,
           \A c \in asked' : c.kind \in WaiverKinds \cup {"waivers"} => c \in asked,
           \A c \in asked : c.kind \in WaiverKinds \cup {"waivers"} => c \in asked'
    PROVE  WaiversTrue'
<1>1. WaiverCalls' = WaiverCalls
  BY DEF WaiverCalls
<1>2. QED
  BY <1>1 DEF WaiversTrue, WaiverTold

KeptTrue == CopiesKept(desk.others)

LEMMA OthersFrame ==
    ASSUME OthersTrue, ~astray' => ~astray, SameSheets,
           \A c \in asked' : c.kind = "others" /\ c.step = "read" => c \in asked,
           ReadingOthers => ReadingOthers',
           Removing => Removing',
           \A e \in asked' : e.kind \in {"save", "edit"} =>
              \/ e \in asked \/ e.sheet \notin OtherSheets
              \/ e.kind = "edit" /\ e.step # "read"
              \/ e.kind = "save" /\ \E d \in asked : d.kind = "save" /\ d.sheet = e.sheet,
           \A e \in asked : e.kind = "edit" /\ e.step = "read" => e \in asked'
    PROVE  OthersTrue'
<1>1. OtherSheets' = OtherSheets /\ desk'.sheet = desk.sheet /\ desk'.others = desk.others
  BY DEF SameSheets
<1>2. \A copies : (Covering(copies) => Covering(copies)') /\ (Numbered(copies) => Numbered(copies)')
  BY <1>1 DEF Covering, Numbered, SameSheets
<1>3. ASSUME NEW e \in asked', e.kind \in {"save", "edit"}, e.sheet \in OtherSheets,
             \A d \in asked : d.kind \in {"save", "edit"} /\ d.sheet \in OtherSheets => d.kind = "edit"
      PROVE  e \in asked \/ (e.kind = "edit" /\ e.step # "read")
  BY <1>3
<1>4. ASSUME NEW copies, CopiesRead(copies) PROVE CopiesRead(copies)'
  <2>1. Covering(copies)' /\ (Removing' \/ Numbered(copies)')
    BY <1>2, <1>4 DEF CopiesRead
  <2>2. \A n \in DOMAIN copies : copies[n].doc = filed'.docs[copies[n].sheet]
    BY <1>4 DEF CopiesRead, SameSheets
  <2>3. \A e \in asked' : e.kind \in {"save", "edit"} /\ e.sheet \in OtherSheets' => e.kind = "edit" /\ e.step # "read"
    BY <1>1, <1>3, <1>4 DEF CopiesRead
  <2>4. QED
    BY <2>1, <2>2, <2>3 DEF CopiesRead
<1>5. ASSUME NEW copies, CopiesKept(copies) PROVE CopiesKept(copies)'
  <2>1. Covering(copies)' /\ (Removing' \/ Numbered(copies)')
    BY <1>2, <1>5 DEF CopiesKept
  <2>2. \A n \in DOMAIN copies :
          \/ copies[n].doc = filed'.docs[copies[n].sheet]
          \/ \E e \in asked' : e.kind = "edit" /\ e.step = "read" /\ e.sheet = copies[n].sheet
    BY <1>5 DEF CopiesKept, SameSheets
  <2>3. \A e \in asked' : e.kind \in {"save", "edit"} /\ e.sheet \in OtherSheets' =>
          e.kind = "edit" /\ (e.step = "read" => e.doc = filed'.docs[e.sheet])
    BY <1>1, <1>3, <1>5 DEF CopiesKept, SameSheets
  <2>4. QED
    BY <2>1, <2>2, <2>3 DEF CopiesKept
<1>6. SUFFICES ASSUME ~astray', desk'.sheet # NoSheetOpen
               PROVE  /\ \A c \in asked' : c.kind = "others" /\ c.step = "read" => CopiesRead(c.copies)'
                      /\ ~ReadingOthers' => KeptTrue'
  BY DEF OthersTrue, KeptTrue
<1>7. ~astray /\ desk.sheet # NoSheetOpen
  BY <1>1, <1>6
<1>8. ASSUME NEW c \in asked', c.kind = "others", c.step = "read" PROVE CopiesRead(c.copies)'
  BY <1>4, <1>7, <1>8 DEF OthersTrue
<1>9. ASSUME ~ReadingOthers' PROVE KeptTrue'
  <2>1. PICK copies : copies = desk.others
    OBVIOUS
  <2>2. CopiesKept(copies)
    BY <1>7, <1>9, <2>1 DEF OthersTrue
  <2>3. CopiesKept(copies)'
    BY <1>5, <2>2
  <2>4. copies = desk'.others
    BY <1>1, <2>1
  <2>5. QED
    BY <2>3, <2>4 DEF KeptTrue, CopiesKept, Covering, Numbered
<1>10. QED
  BY <1>8, <1>9

\* A call is made.
LEMMA CallMade ==
    ASSUME DrawerInv, NEW c \in ListCalls, asked' = asked \cup {c}, UNCHANGED <<filed, desk, drawer, astray>>,
           CallSound(c), c.step # "read", c.kind \notin {"others", "waivers"},
           c.kind \in WaiverKinds \cup {"save"} => c.sheet = desk.sheet,
           c.kind \in {"add", "edit"} => \A e \in asked : e.kind # c.kind
    PROVE  DrawerInv'
<1>1. SameSheets
  BY DEF SameSheets, OtherSheets
<1>2. ListsTyped' /\ SheetShown'
  BY DEF DrawerInv, ListsTyped, SheetShown
<1>3. RowsDerived'
  BY <1>2, RowsFollow DEF DrawerInv, DeskMoves, ListsTyped, Desks
<1>4. CallsSound'
  <2>1. Single(asked')
    BY DEF Single, DrawerInv, CallsSound
  <2>2. QED
    BY <1>1, <2>1, CallsFrame DEF DrawerInv
<1>5. WaiversTrue'
  <2>1. CASE c.kind \notin WaiverKinds
    BY <2>1, WaiversFrame DEF DrawerInv
  <2>2. CASE c.kind \in WaiverKinds
    <3>1. WaiverCalls' = WaiverCalls \cup {c}
      BY <2>2 DEF WaiverCalls
    <3>2. \A e \in WaiverCalls' : WaiverCalls' = {e} => e = c
      BY <3>1
    <3>3. c \in asked'
      OBVIOUS
    <3>4. QED
      BY <2>2, <3>1, <3>2, <3>3 DEF WaiversTrue, DrawerInv
  <2>3. QED
    BY <2>1, <2>2
<1>6. OthersTrue'
  <2>1. (ReadingOthers => ReadingOthers') /\ (Removing => Removing')
    BY DEF ReadingOthers, Removing
  <2>2. c.kind = "save" => c.sheet \notin OtherSheets
    BY DEF OtherSheets
  <2>3. QED
    BY <1>1, <2>1, <2>2, OthersFrame DEF DrawerInv
<1>7. QED
  BY <1>2, <1>3, <1>4, <1>5, <1>6 DEF DrawerInv

\* A call that is not answered yet goes on, without telling anything of the copies or waivers.
LEMMA CallMoves ==
    ASSUME DrawerInv, NEW c \in asked, NEW answer \in ListCalls, Handled(c, answer), UNCHANGED <<filed, desk, drawer>>,
           answer.kind = c.kind, answer.sheet = c.sheet, CallSound(answer), ~astray' => ~astray,
           c.step # "read", answer.step = "read" => c.kind = "list"
    PROVE  DrawerInv'
<1>0. asked' = (asked \ {c}) \cup {answer}
  BY DEF Handled
<1>1. SameSheets
  BY DEF SameSheets, OtherSheets
<1>2. ListsTyped' /\ SheetShown'
  BY <1>0 DEF DrawerInv, ListsTyped, SheetShown
<1>3. RowsDerived'
  BY <1>2, RowsFollow DEF DrawerInv, DeskMoves, ListsTyped, Desks
<1>4. CallsSound'
  <2>1. Single(asked')
    BY <1>0 DEF Single, DrawerInv, CallsSound
  <2>2. QED
    BY <1>0, <1>1, <2>1, CallsFrame DEF DrawerInv
<1>5. WaiversTrue'
  <2>1. CASE c.kind \notin WaiverKinds \cup {"waivers"}
    BY <1>0, <2>1, WaiversFrame DEF DrawerInv
  <2>2. CASE c.kind \in WaiverKinds \cup {"waivers"}
    <3>1. \A e \in WaiverCalls' : e = answer \/ e \in WaiverCalls
      BY <1>0 DEF WaiverCalls
    <3>2. ASSUME ~astray', NEW e \in WaiverCalls' PROVE e.sheet = desk'.sheet
      <4>1. CASE e = answer
        <5>1. c \in WaiverCalls
          BY <3>2, <4>1 DEF WaiverCalls
        <5>2. QED
          BY <3>2, <4>1, <5>1 DEF WaiversTrue, DrawerInv
      <4>2. CASE e \in WaiverCalls
        BY <3>2, <4>2 DEF WaiversTrue, DrawerInv
      <4>3. QED
        BY <3>1, <3>2, <4>1, <4>2
    <3>3. ASSUME ~astray', NEW e \in WaiverCalls', e.step = "read", WaiverCalls' = {e} PROVE WaiverTold(e)'
      <4>1. CASE c.kind \in WaiverKinds
        <5>1. answer \in WaiverCalls'
          BY <1>0, <4>1 DEF WaiverCalls
        <5>2. e = answer
          BY <3>3, <5>1
        <5>3. QED
          BY <3>3, <4>1, <5>2 DEF WaiverKinds
      <4>2. CASE c.kind \notin WaiverKinds
        <5>1. WaiverCalls' = WaiverCalls
          BY <1>0, <4>2 DEF WaiverCalls
        <5>2. WaiverTold(e)
          BY <3>3, <5>1 DEF WaiversTrue, DrawerInv
        <5>3. QED
          BY <5>2 DEF WaiverTold
      <4>3. QED
        BY <4>1, <4>2
    <3>4. answer \in asked' /\ answer.kind \in WaiverKinds \cup {"waivers"}
      BY <1>0, <2>2
    <3>5. QED
      BY <3>2, <3>3, <3>4 DEF WaiversTrue
  <2>3. QED
    BY <2>1, <2>2
<1>6. OthersTrue'
  <2>1. ReadingOthers => ReadingOthers'
    BY <1>0 DEF ReadingOthers
  <2>2. Removing => Removing'
    BY <1>0 DEF Removing
  <2>3. \A e \in asked' : e.kind \in {"save", "edit"} =>
              \/ e \in asked \/ e.sheet \notin OtherSheets
              \/ e.kind = "edit" /\ e.step # "read"
              \/ e.kind = "save" /\ \E d \in asked : d.kind = "save" /\ d.sheet = e.sheet
    BY <1>0
  <2>4. /\ \A d \in asked' : d.kind = "others" /\ d.step = "read" => d \in asked
        /\ \A e \in asked : e.kind = "edit" /\ e.step = "read" => e \in asked'
    BY <1>0
  <2>5. QED
    BY <1>1, <2>1, <2>2, <2>3, <2>4, OthersFrame DEF DrawerInv
<1>7. QED
  BY <1>2, <1>3, <1>4, <1>5, <1>6 DEF DrawerInv

\* A call is over, and the copies and the waivers are as they were.
LEMMA CallGone ==
    ASSUME DrawerInv, NEW c \in asked, asked' = asked \ {c}, UNCHANGED filed,
           desk' \in Desks, Listed(desk'.order) = Listed(desk.order), desk'.sheet = desk.sheet, desk'.others = desk.others,
           desk'.waived = desk.waived, SheetShown', DeskMoves, ~astray' => ~astray,
           astray' \/ c.kind \in {"open", "save", "add", "list"} \/ (c.kind = "remove" /\ c.step # "read")
    PROVE  DrawerInv'
<1>1. SameSheets
  BY DEF SameSheets, OtherSheets
<1>2. ListsTyped'
  BY DEF DrawerInv, ListsTyped
<1>3. RowsDerived'
  BY <1>2, RowsFollow DEF DrawerInv, ListsTyped, Desks
<1>4. CallsSound'
  <2>1. Single(asked')
    BY DEF Single, DrawerInv, CallsSound
  <2>2. QED
    BY <1>1, <2>1, CallsFrame DEF DrawerInv
<1>5. WaiversTrue' /\ OthersTrue'
  <2>1. CASE astray'
    BY <2>1 DEF WaiversTrue, OthersTrue
  <2>2. CASE ~astray'
    <3>1. c.kind \in {"open", "save", "add", "list"} \/ (c.kind = "remove" /\ c.step # "read")
      BY <2>2
    <3>2. WaiversTrue'
      BY <3>1, WaiversFrame DEF DrawerInv, WaiverKinds
    <3>3. (ReadingOthers => ReadingOthers') /\ (Removing => Removing')
      BY <3>1 DEF ReadingOthers, Removing
    <3>4. \A e \in asked : e.kind = "edit" /\ e.step = "read" => e \in asked'
      BY <3>1
    <3>5. OthersTrue'
      BY <1>1, <3>3, <3>4, OthersFrame DEF DrawerInv
    <3>6. QED
      BY <3>2, <3>5
  <2>3. QED
    BY <2>1, <2>2
<1>6. QED
  BY <1>2, <1>3, <1>4, <1>5 DEF DrawerInv


-----------------------------------------------------------------------------
(* The lists drawer: a sheet is opened, or a new list of sheets arrives.   *)

LEMMA OthersAskedFacts ==
    ASSUME NEW order \in Orders, NEW s \in ListedIds \cup {NoSheetOpen}
    PROVE  /\ \A c \in OthersAsked(order, s) :
                 /\ c \in ListCalls /\ c.kind = "others" /\ c.sheet = s /\ c.step = "sent"
                 /\ AllDifferent(c.sheets) /\ Listed(c.sheets) = Listed(order) \ {s}
           /\ OthersAsked(order, s) = {} <=> Listed(order) \ {s} = {}
           /\ WithoutSheet(order, s) = << >> <=> Listed(order) \ {s} = {}
<1> DEFINE rest == WithoutSheet(order, s)
           call == [Ask("others", s) EXCEPT !.sheets = rest]
<1>1. /\ rest \in Seq(ListedIds) /\ AllDifferent(rest) /\ Listed(rest) = Listed(order) \ {s}
      /\ rest = << >> <=> Listed(order) \ {s} = {}
  BY WithoutSheetFacts DEF Orders
<1>2. OthersAsked(order, s) = IF rest = << >> THEN {} ELSE {call}
  BY DEF OthersAsked
<1> HIDE DEF rest
<1>3. Ask("others", s) \in ListCalls /\ Ask("others", s).kind = "others" /\ Ask("others", s).sheet = s /\ Ask("others", s).step = "sent"
  BY AskFacts
<1>4. call \in ListCalls /\ call.kind = "others" /\ call.sheet = s /\ call.step = "sent" /\ call.sheets = rest
  BY <1>1, <1>3, SheetsFacts
<1> HIDE DEF call
<1>5. QED
  BY <1>1, <1>2, <1>4 DEF rest

LEMMA WithOthersFacts ==
    ASSUME NEW d \in Desks, d.sheet \in ListedIds \cup {NoSheetOpen}
    PROVE  /\ WithOthers(d) \in Desks
           /\ WithOthers(d).order = d.order /\ WithOthers(d).sheet = d.sheet /\ WithOthers(d).doc = d.doc
           /\ WithOthers(d).waived = d.waived
           /\ WithOthers(d).others = IF Listed(d.order) \ {d.sheet} = {} THEN << >> ELSE d.others
<1>1. d.order \in Orders
  BY DEF Desks
<1>2. WithoutSheet(d.order, d.sheet) = << >> <=> Listed(d.order) \ {d.sheet} = {}
  BY <1>1, OthersAskedFacts
<1>3. << >> \in Seq(Copies)
  OBVIOUS
<1>4. QED
  BY <1>2, <1>3 DEF WithOthers, Desks

\* The other sheets are read, or there are none.
LEMMA OthersAfresh ==
    ASSUME desk' \in Desks, desk'.sheet \in ListedIds \cup {NoSheetOpen}, NEW calls, \A c \in calls : c.kind # "others",
           asked' = calls \cup OthersAsked(desk'.order, desk'.sheet),
           Listed(desk'.order) \ {desk'.sheet} = {} => desk'.others = << >>
    PROVE  /\ OthersTrue'
           /\ \A c \in asked' : c.kind = "others" => CallSound(c)'
<1> DEFINE order == desk'.order
           s == desk'.sheet
<1>1. order \in Orders
  BY DEF Desks
<1>2. /\ \A c \in OthersAsked(order, s) :
            c.kind = "others" /\ c.step = "sent" /\ AllDifferent(c.sheets) /\ Listed(c.sheets) = Listed(order) \ {s}
      /\ OthersAsked(order, s) = {} <=> Listed(order) \ {s} = {}
  BY <1>1, OthersAskedFacts
<1>3. OtherSheets' = Listed(order) \ {s}
  BY DEF OtherSheets
<1>4. asked' = calls \cup OthersAsked(order, s)
  OBVIOUS
<1>5. OtherSheets' = {} => desk'.others = << >>
  BY <1>3
<1> HIDE DEF order, s
<1>6. \A c \in asked' : c.kind = "others" => CallSound(c)'
  BY <1>2, <1>3, <1>4 DEF CallSound, WaiverKinds
<1>7. \A c \in asked' : ~(c.kind = "others" /\ c.step = "read")
  BY <1>2, <1>4
<1>8. ASSUME ~ReadingOthers' PROVE KeptTrue'
  <2>1. OthersAsked(order, s) = {}
    BY <1>2, <1>4, <1>8 DEF ReadingOthers
  <2>2. OtherSheets' = {} /\ desk'.others = << >>
    BY <1>2, <1>3, <1>5, <2>1
  <2>3. DOMAIN desk'.others = {}
    BY <2>2
  <2>4. QED
    BY <2>2, <2>3 DEF KeptTrue, CopiesKept, Covering, Numbered
<1>9. QED
  BY <1>6, <1>7, <1>8 DEF OthersTrue, KeptTrue

LEMMA OpeningKeeps ==
    ASSUME DrawerInv, NEW order \in Orders, NEW s \in Listed(order) \cup {NoSheetOpen}, NEW calls \in SUBSET ListCalls,
           \A c \in calls : CallSound(c), Single(calls), Opening(order, s, calls), UNCHANGED filed
    PROVE  DrawerInv'
<1> DEFINE next == [desk EXCEPT !.order = order, !.sheet = s, !.doc = NoDocument, !.waived = FALSE]
           kept == Forgotten(calls, {"open", "waivers", "others"})
           opened == IF s = NoSheetOpen THEN {} ELSE {Ask("open", s), Ask("waivers", s)}
<1>1. s \in ListedIds \cup {NoSheetOpen}
  BY OrderFacts DEF Orders
<1>2. /\ next \in Desks /\ next.order = order /\ next.sheet = s /\ next.doc = NoDocument
  BY <1>1 DEF DrawerInv, ListsTyped, Desks
<1>3. /\ Desk(WithOthers(next))
      /\ asked' = kept \cup opened \cup OthersAsked(order, s)
      /\ astray' = (\E c \in calls : c.kind \in WaiverKinds)
  BY DEF Opening, WaiverKinds
<1> HIDE DEF next
<1>4. desk' = WithOthers(next)
  BY <1>3 DEF Desk
<1>5. /\ desk' \in Desks /\ desk'.order = order /\ desk'.sheet = s /\ desk'.doc = NoDocument
      /\ Listed(order) \ {s} = {} => desk'.others = << >>
  BY <1>1, <1>2, <1>4, WithOthersFacts
<1>6. \A c \in kept : c \in calls /\ c.kind \notin {"open", "waivers", "others"}
  BY DEF Forgotten
<1>7. \A c \in opened : /\ s \in ListedIds /\ s # NoSheetOpen /\ c \in ListCalls /\ c.kind \in {"open", "waivers"}
                        /\ c.sheet = s /\ c.step = "sent"
  BY <1>1, AskFacts
<1>8. s # NoSheetOpen => \E c \in opened : c.kind = "waivers"
  BY <1>1, AskFacts
<1> HIDE DEF kept, opened
<1>9. /\ \A c \in OthersAsked(order, s) : c \in ListCalls /\ c.kind = "others"
  BY <1>1, OthersAskedFacts
<1>10. ListsTyped'
  BY <1>3, <1>5, <1>6, <1>7, <1>9 DEF DrawerInv, ListsTyped
<1>11. RowsDerived'
  BY <1>3, <1>4, <1>10, RowsFollow DEF DrawerInv, ListsTyped, Desks, DeskMoves
<1>12. SheetShown'
  BY <1>5 DEF SheetShown
<1>13. OthersTrue' /\ \A c \in asked' : c.kind = "others" => CallSound(c)'
  <2> DEFINE rest == kept \cup opened
  <2>1. (\A c \in rest : c.kind # "others") /\ asked' = rest \cup OthersAsked(desk'.order, desk'.sheet)
    BY <1>3, <1>5, <1>6, <1>7
  <2> HIDE DEF rest
  <2>2. QED
    BY <1>1, <1>5, <2>1, OthersAfresh
<1>14. CallsSound'
  <2>1. ASSUME NEW c \in asked' PROVE CallSound(c)'
    <3>1. CASE c \in kept
      BY <1>6, <3>1 DEF CallSound
    <3>2. CASE c \in opened
      BY <1>5, <1>7, <3>2 DEF CallSound, WaiverKinds
    <3>3. CASE c \in OthersAsked(order, s)
      BY <1>9, <1>13, <3>3
    <3>4. QED
      BY <1>3, <3>1, <3>2, <3>3
  <2>2. Single(asked')
    BY <1>3, <1>6, <1>7, <1>9 DEF Single
  <2>3. QED
    BY <2>1, <2>2 DEF CallsSound, Single
<1>15. WaiversTrue'
  <2>1. SUFFICES ASSUME ~astray' PROVE WaiversTrue'
    BY DEF WaiversTrue
  <2>2. WaiverCalls' = {}
    BY <1>3, <1>6, <1>7, <1>9, <2>1 DEF WaiverCalls, WaiverKinds
  <2>3. desk'.sheet # NoSheetOpen => \E c \in asked' : c.kind = "waivers"
    BY <1>3, <1>5, <1>8
  <2>4. QED
    BY <2>2, <2>3 DEF WaiversTrue
<1>16. QED
  BY <1>10, <1>11, <1>12, <1>13, <1>14, <1>15 DEF DrawerInv

\* A list of the drawing's sheets is taken, and c is the call that brought it.
LEMMA RelistedKeeps ==
    ASSUME DrawerInv, NEW c \in asked, c.kind = "list", NEW order \in Orders, Relisted(order, asked \ {c}), UNCHANGED filed
    PROVE  DrawerInv'
<1> DEFINE calls == asked \ {c}
<1>1. calls \in SUBSET ListCalls /\ (\A e \in calls : CallSound(e)) /\ Single(calls)
  BY DEF DrawerInv, ListsTyped, CallsSound, Single
<1>2. desk \in Desks /\ desk.sheet \in ListedIds \cup {NoSheetOpen}
  BY DEF DrawerInv, ListsTyped, Desks
<1>3. CASE Listed(order) = Listed(desk.order)
  <2>1. Desk([desk EXCEPT !.order = order]) /\ asked' = asked \ {c} /\ UNCHANGED astray
    BY <1>3 DEF Relisted
  <2>2. desk' = [desk EXCEPT !.order = order]
    BY <2>1 DEF Desk
  <2>3. /\ desk' \in Desks /\ desk'.order = order /\ desk'.sheet = desk.sheet /\ desk'.doc = desk.doc
        /\ desk'.others = desk.others /\ desk'.waived = desk.waived
    BY <1>2, <2>2 DEF Desks
  <2>4. SheetShown' /\ DeskMoves
    BY <1>3, <2>1, <2>2, <2>3 DEF DrawerInv, SheetShown, DeskMoves
  <2>5. QED
    BY <1>3, <2>1, <2>3, <2>4, CallGone
<1>4. CASE Listed(order) # Listed(desk.order) /\ desk.sheet \in Listed(order)
  <2> DEFINE next == [desk EXCEPT !.order = order]
             kept == Forgotten(calls, {"others"})
  <2>1. /\ Desk(WithOthers(next)) /\ asked' = kept \cup OthersAsked(order, desk.sheet) /\ UNCHANGED astray
    BY <1>4 DEF Relisted
  <2>2. next \in Desks /\ next.order = order /\ next.sheet = desk.sheet /\ next.doc = desk.doc /\ next.waived = desk.waived
    BY <1>2 DEF Desks
  <2> HIDE DEF next
  <2>3. desk' = WithOthers(next)
    BY <2>1 DEF Desk
  <2>4. /\ desk' \in Desks /\ desk'.order = order /\ desk'.sheet = desk.sheet /\ desk'.doc = desk.doc /\ desk'.waived = desk.waived
        /\ Listed(order) \ {desk.sheet} = {} => desk'.others = << >>
    BY <1>2, <2>2, <2>3, WithOthersFacts
  <2>5. \A e \in kept : e \in calls /\ e.kind # "others"
    BY DEF Forgotten
  <2>6. \A e \in calls : e.kind # "others" => e \in kept
    BY DEF Forgotten
  <2>7. \A e \in OthersAsked(order, desk.sheet) : e \in ListCalls /\ e.kind = "others"
    BY <1>2, OthersAskedFacts
  <2> HIDE DEF kept
  <2>8. ListsTyped'
    BY <1>1, <2>1, <2>4, <2>5, <2>7 DEF DrawerInv, ListsTyped
  <2>9. RowsDerived'
    BY <2>1, <2>3, <2>8, RowsFollow DEF DrawerInv, ListsTyped, Desks, DeskMoves
  <2>10. SheetShown'
    BY <1>4, <2>4 DEF DrawerInv, SheetShown
  <2>11. OthersTrue' /\ \A e \in asked' : e.kind = "others" => CallSound(e)'
    BY <1>2, <2>1, <2>4, <2>5, OthersAfresh
  <2>12. CallsSound'
    <3>1. ASSUME NEW e \in asked' PROVE CallSound(e)'
      <4>1. CASE e \in kept
        BY <1>1, <2>4, <2>5, <4>1 DEF CallSound
      <4>2. CASE e \in OthersAsked(order, desk.sheet)
        BY <2>7, <2>11, <4>2
      <4>3. QED
        BY <2>1, <4>1, <4>2
    <3>2. Single(asked')
      BY <1>1, <2>1, <2>5, <2>7 DEF Single
    <3>3. QED
      BY <3>1, <3>2 DEF CallsSound, Single
  <2>13. WaiversTrue'
    <3>1. \A e \in asked' : e.kind \in WaiverKinds \cup {"waivers"} => e \in asked
      BY <2>1, <2>5, <2>7 DEF WaiverKinds
    <3>2. \A e \in asked : e.kind \in WaiverKinds \cup {"waivers"} => e \in asked'
      BY <2>1, <2>6 DEF WaiverKinds
    <3>3. QED
      BY <2>1, <2>4, <3>1, <3>2, WaiversFrame DEF DrawerInv
  <2>14. QED
    BY <2>8, <2>9, <2>10, <2>11, <2>12, <2>13 DEF DrawerInv
<1>5. CASE Listed(order) # Listed(desk.order) /\ desk.sheet \notin Listed(order)
  <2>1. Opening(order, order[1], calls)
    BY <1>5 DEF Relisted
  <2>2. order[1] \in Listed(order)
    BY DEF Orders, Listed
  <2>3. QED
    BY <1>1, <2>1, <2>2, OpeningKeeps
<1>6. QED
  BY <1>3, <1>4, <1>5

-----------------------------------------------------------------------------
(* The lists drawer: its steps.                                            *)

LEMMA DrawerTypes ==
    ASSUME DrawerInv
    PROVE  /\ filed.order \in Orders /\ filed.waived \in SUBSET ListedIds /\ filed.docs \in [ListedIds -> SheetDocs]
           /\ desk.order \in Orders /\ desk.sheet \in ListedIds \cup {NoSheetOpen} /\ desk.doc \in SheetDocs \cup {NoDocument}
           /\ desk.others \in Seq(Copies) /\ desk.waived \in BOOLEAN
           /\ asked \in SUBSET ListCalls
           /\ desk.sheet # NoSheetOpen => desk.sheet \in ListedIds
           /\ \A s \in Listed(filed.order) : s \in ListedIds
  BY OrderFacts DEF DrawerInv, ListsTyped, Filings, Desks, Orders

LEMMA ListsStart == ListsInit => DrawerInv
<1> SUFFICES ASSUME ListsInit PROVE DrawerInv
  OBVIOUS
<1> DEFINE s == FirstListed[1]
           rest == OthersAsked(FirstListed, s)
<1>1. FirstListed \in Orders /\ s \in Listed(FirstListed) /\ s \in ListedIds /\ s # NoSheetOpen
  BY ListsAssumption DEF Orders, AllDifferent, Listed
<1>2. PICK ref \in [Listed(FirstListed) -> ConnectorRefs \cup {NoRef}] :
          filed = [order |-> FirstListed, waived |-> {},
                   docs |-> [t \in ListedIds |-> Document(0, IF t \in Listed(FirstListed) THEN ref[t] ELSE NoRef, 1)]]
  BY DEF ListsInit
<1>3. \A t \in ListedIds : Document(0, IF t \in Listed(FirstListed) THEN ref[t] ELSE NoRef, 1) \in SheetDocs
  BY DEF Document, SheetDocs, Zones
<1>4. filed \in Filings
  BY <1>1, <1>2, <1>3 DEF Filings
<1>5. /\ desk = [order |-> FirstListed, sheet |-> s, doc |-> NoDocument, others |-> << >>, waived |-> FALSE]
      /\ drawer = [shown |-> TRUE, cache |-> {}, rows |-> {}]
      /\ asked = {Ask("open", s), Ask("waivers", s)} \cup rest
  BY DEF ListsInit
<1>6. << >> \in Seq(Copies) /\ desk \in Desks
  BY <1>1, <1>5 DEF Desks
<1> HIDE DEF s, rest
<1>7. \A c \in {Ask("open", s), Ask("waivers", s)} :
          c \in ListCalls /\ c.kind \in {"open", "waivers"} /\ c.sheet = s /\ c.step = "sent"
  BY <1>1, AskFacts
<1>8. \E c \in asked : c.kind = "waivers"
  BY <1>1, <1>5, AskFacts
<1>9. /\ \A c \in rest : /\ c \in ListCalls /\ c.kind = "others" /\ c.step = "sent"
                         /\ AllDifferent(c.sheets) /\ Listed(c.sheets) = Listed(FirstListed) \ {s}
      /\ rest = {} <=> Listed(FirstListed) \ {s} = {}
  BY <1>1, OthersAskedFacts DEF rest
<1>10. ListsTyped
  BY <1>4, <1>5, <1>6, <1>7, <1>9 DEF ListsTyped
<1>11. RowsDerived /\ SheetShown
  BY <1>1, <1>5 DEF RowsDerived, CacheTrue, SheetShown
<1>12. OtherSheets = Listed(FirstListed) \ {s}
  BY <1>5 DEF OtherSheets
<1>13. CallsSound
  BY <1>1, <1>5, <1>7, <1>9, <1>12 DEF CallsSound, CallSound, WaiverKinds
<1>14. WaiversTrue
  BY <1>5, <1>7, <1>8, <1>9 DEF WaiversTrue, WaiverCalls, WaiverKinds
<1>15. OthersTrue
  <2>1. \A c \in asked : ~(c.kind = "others" /\ c.step = "read")
    BY <1>5, <1>7, <1>9
  <2>2. ASSUME ~ReadingOthers PROVE CopiesKept(desk.others)
    <3>1. rest = {}
      BY <1>5, <1>9, <2>2 DEF ReadingOthers
    <3>2. OtherSheets = {} /\ desk.others = << >> /\ DOMAIN desk.others = {}
      BY <1>5, <1>9, <1>12, <3>1
    <3>3. QED
      BY <3>2 DEF CopiesKept, Covering, Numbered
  <2>3. QED
    BY <2>1, <2>2 DEF OthersTrue
<1>16. QED
  BY <1>10, <1>11, <1>13, <1>14, <1>15 DEF DrawerInv

LEMMA ShowKeeps == ASSUME DrawerInv, NEW s \in ListedIds, ShowSheet(s) PROVE DrawerInv'
  BY DrawerTypes, OpeningKeeps DEF ShowSheet, DrawerInv, CallsSound, Single

LEMMA ToggleKeeps == ASSUME DrawerInv, ToggleLists PROVE DrawerInv'
<1>1. UNCHANGED <<filed, desk, asked, astray>> /\ drawer' = Drawn(desk, ~drawer.shown, {})
  BY DEF ToggleLists
<1>2. SameSheets
  BY <1>1 DEF SameSheets, OtherSheets
<1>3. ListsTyped' /\ SheetShown'
  BY <1>1 DEF DrawerInv, ListsTyped, SheetShown
<1>4. RowsDerived'
  BY <1>1, <1>3, RowsFollow DEF DrawerInv, ListsTyped, Desks, DeskMoves
<1>5. CallsSound'
  BY <1>1, <1>2, CallsFrame DEF DrawerInv, CallsSound, Single
<1>6. WaiversTrue'
  BY <1>1, WaiversFrame DEF DrawerInv
<1>7. OthersTrue'
  <2>1. (ReadingOthers => ReadingOthers') /\ (Removing => Removing')
    BY <1>1 DEF ReadingOthers, Removing
  <2>2. QED
    BY <1>1, <1>2, <2>1, OthersFrame DEF DrawerInv
<1>8. QED
  BY <1>3, <1>4, <1>5, <1>6, <1>7 DEF DrawerInv

LEMMA EditKeeps == ASSUME DrawerInv, NEW doc \in SheetDocs, EditOpenSheet(doc) PROVE DrawerInv'
<1>1. UNCHANGED <<filed, asked, astray>> /\ desk.doc # NoDocument /\ Desk([desk EXCEPT !.doc = doc])
  BY DEF EditOpenSheet
<1>2. desk' = [desk EXCEPT !.doc = doc] /\ DeskMoves
  BY <1>1 DEF Desk, DeskMoves
<1>3. /\ desk' \in Desks /\ desk'.order = desk.order /\ desk'.sheet = desk.sheet /\ desk'.others = desk.others
      /\ desk'.waived = desk.waived
  BY <1>2 DEF DrawerInv, ListsTyped, Desks
<1>4. SameSheets
  BY <1>1, <1>3 DEF SameSheets, OtherSheets
<1>5. ListsTyped' /\ SheetShown'
  BY <1>1, <1>3 DEF DrawerInv, ListsTyped, SheetShown
<1>6. RowsDerived'
  BY <1>2, <1>5, RowsFollow DEF DrawerInv, ListsTyped, Desks
<1>7. CallsSound'
  BY <1>1, <1>4, CallsFrame DEF DrawerInv, CallsSound, Single
<1>8. WaiversTrue'
  BY <1>1, <1>3, WaiversFrame DEF DrawerInv
<1>9. OthersTrue'
  <2>1. (ReadingOthers => ReadingOthers') /\ (Removing => Removing')
    BY <1>1 DEF ReadingOthers, Removing
  <2>2. QED
    BY <1>1, <1>4, <2>1, OthersFrame DEF DrawerInv
<1>10. QED
  BY <1>5, <1>6, <1>7, <1>8, <1>9 DEF DrawerInv

LEMMA SaveKeeps == ASSUME DrawerInv, SaveOpenSheet PROVE DrawerInv'
<1> DEFINE call == [Ask("save", desk.sheet) EXCEPT !.doc = desk.doc]
<1>1. desk.doc \in SheetDocs /\ desk.sheet \in ListedIds
  BY DrawerTypes DEF SaveOpenSheet, DrawerInv, SheetShown
<1>2. /\ Ask("save", desk.sheet) \in ListCalls /\ Ask("save", desk.sheet).kind = "save"
      /\ Ask("save", desk.sheet).sheet = desk.sheet /\ Ask("save", desk.sheet).step = "sent"
  BY <1>1, AskFacts
<1>3. call \in ListCalls /\ call.kind = "save" /\ call.sheet = desk.sheet /\ call.step = "sent" /\ call.doc = desk.doc
  BY <1>1, <1>2, DocFacts
<1>4. asked' = asked \cup {call} /\ UNCHANGED <<filed, desk, drawer, astray>>
  BY DEF SaveOpenSheet
<1> HIDE DEF call
<1>5. CallSound(call)
  BY <1>1, <1>3 DEF CallSound, WaiverKinds
<1>6. QED
  BY <1>3, <1>4, <1>5, CallMade DEF WaiverKinds

LEMMA CommitKeeps == ASSUME DrawerInv, NEW row \in drawer.rows, CommitCells(row) PROVE DrawerInv'
<1> DEFINE call == [Ask("edit", row.sheet) EXCEPT !.step = "reading"]
<1>1. row.sheet \in ListedIds
  BY DrawerTypes, RowSheets DEF DrawerInv, SheetShown
<1>2. /\ Ask("edit", row.sheet) \in ListCalls /\ Ask("edit", row.sheet).kind = "edit"
      /\ Ask("edit", row.sheet).sheet = row.sheet
  BY <1>1, AskFacts
<1>3. call \in ListCalls /\ call.kind = "edit" /\ call.sheet = row.sheet /\ call.step = "reading"
  BY <1>2, StepFacts
<1>4. asked' = asked \cup {call} /\ UNCHANGED <<filed, desk, drawer, astray>> /\ \A e \in asked : e.kind # "edit"
  BY DEF CommitCells
<1> HIDE DEF call
<1>5. CallSound(call)
  BY <1>1, <1>3 DEF CallSound, WaiverKinds
<1>6. QED
  BY <1>3, <1>4, <1>5, CallMade DEF WaiverKinds

LEMMA AskingKeeps ==
    ASSUME DrawerInv, NEW kind \in {"waive", "unwaive", "remove", "add"}, NEW sheet \in ListedIds,
           asked' = asked \cup {Ask(kind, sheet)}, UNCHANGED <<filed, desk, drawer, astray>>,
           kind \in {"waive", "unwaive"} => sheet = desk.sheet,
           kind = "add" => sheet \notin Listed(filed.order) /\ \A e \in asked : e.kind # "add"
    PROVE  DrawerInv'
<1> DEFINE call == Ask(kind, sheet)
<1>1. kind \in WaiverKinds \cup {"open", "waivers", "others", "save", "edit", "remove", "add", "list"}
  BY DEF WaiverKinds
<1>2. call \in ListCalls /\ call.kind = kind /\ call.sheet = sheet /\ call.step = "sent"
  BY <1>1, AskFacts
<1> HIDE DEF call
<1>3. CallSound(call)
  BY <1>2 DEF CallSound, WaiverKinds
<1>4. asked' = asked \cup {call}
  BY DEF call
<1>5. /\ call.step # "read" /\ call.kind \notin {"others", "waivers"}
      /\ call.kind \in WaiverKinds \cup {"save"} => call.sheet = desk.sheet
      /\ call.kind \in {"add", "edit"} => \A e \in asked : e.kind # call.kind
  BY <1>2 DEF WaiverKinds
<1>6. QED
  BY <1>2, <1>3, <1>4, <1>5, CallMade

LEMMA AskKeeps ==
    ASSUME DrawerInv,
           \/ AskWaiver("waive") \/ AskWaiver("unwaive") \/ RemoveOpenSheet
           \/ \E s \in ListedIds : AddToDrawing(s)
    PROVE  DrawerInv'
<1>1. CASE AskWaiver("waive")
  BY <1>1, DrawerTypes, AskingKeeps DEF AskWaiver, DrawerInv, SheetShown
<1>2. CASE AskWaiver("unwaive")
  BY <1>2, DrawerTypes, AskingKeeps DEF AskWaiver, DrawerInv, SheetShown
<1>3. CASE RemoveOpenSheet
  <2>1. desk.sheet \in ListedIds
    BY <1>3, DrawerTypes, OrderFacts DEF RemoveOpenSheet, Orders
  <2>2. QED
    BY <1>3, <2>1, AskingKeeps DEF RemoveOpenSheet
<1>4. CASE \E s \in ListedIds : AddToDrawing(s)
  BY <1>4, AskingKeeps DEF AddToDrawing
<1>5. QED
  BY <1>1, <1>2, <1>3, <1>4

\* An answer that fails changes nothing yet.
LEMMA FailKeeps ==
    ASSUME DrawerInv, NEW c \in asked, c.step \in {"sent", "reading"}, c.kind \notin {"open", "waivers"} \/ c.step = "sent",
           Handled(c, [c EXCEPT !.step = "failed"]), UNCHANGED <<filed, desk, drawer>>, ~astray' => ~astray
    PROVE  DrawerInv'
<1> DEFINE answer == [c EXCEPT !.step = "failed"]
<1>1. c \in ListCalls /\ CallSound(c)
  BY DrawerTypes DEF DrawerInv, CallsSound
<1>2. /\ answer \in ListCalls /\ answer.kind = c.kind /\ answer.sheet = c.sheet /\ answer.step = "failed"
      /\ answer.sheets = c.sheets /\ answer.doc = c.doc
  BY <1>1, StepFacts
<1>3. Handled(c, answer)
  OBVIOUS
<1> HIDE DEF answer
<1>4. CallSound(answer)
  BY <1>1, <1>2 DEF CallSound, WaiverKinds
<1>5. QED
  BY <1>2, <1>3, <1>4, CallMoves

LEMMA LoseKeeps == ASSUME DrawerInv, NEW c \in asked, LoseCall(c) PROVE DrawerInv'
<1>1. CallSound(c)
  BY DEF DrawerInv, CallsSound
<1>2. c.kind \notin {"open", "waivers"} \/ c.step = "sent"
  BY <1>1 DEF CallSound, LoseCall
<1>3. QED
  BY <1>2, FailKeeps DEF LoseCall

LEMMA LoadKeeps == ASSUME DrawerInv, NEW c \in asked, HandleLoad(c) PROVE DrawerInv'
<1>1. c \in ListCalls /\ CallSound(c) /\ c.kind = "edit" /\ c.step = "reading" /\ c.sheet \in ListedIds
  BY DrawerTypes DEF DrawerInv, CallsSound, HandleLoad, CallSound
<1>2. CASE ~InDrawing(c.sheet)
  BY <1>1, <1>2, FailKeeps DEF HandleLoad
<1>3. CASE InDrawing(c.sheet)
  <2> DEFINE doc == [filed.docs[c.sheet] EXCEPT !.tag = 1 - @]
             answer == [c EXCEPT !.step = "sent", !.doc = doc]
  <2>1. filed.docs[c.sheet] \in SheetDocs
    BY <1>1, DrawerTypes
  <2>2. doc \in SheetDocs
    BY <2>1 DEF SheetDocs
  <2> HIDE DEF doc
  <2>3. answer \in ListCalls /\ answer.kind = "edit" /\ answer.sheet = c.sheet /\ answer.step = "sent" /\ answer.doc = doc
    BY <1>1, <2>2 DEF ListCalls
  <2>4. Handled(c, answer) /\ UNCHANGED <<filed, desk, drawer, astray>>
    BY <1>3 DEF HandleLoad, doc
  <2> HIDE DEF answer
  <2>5. CallSound(answer)
    BY <1>1, <2>2, <2>3 DEF CallSound, WaiverKinds
  <2>6. QED
    BY <1>1, <2>3, <2>4, <2>5, CallMoves
<1>4. QED
  BY <1>2, <1>3

\* A call is handled, its answer tells nothing of the copies, and what is filed and shown of the sheets stays.
LEMMA AnswerFrame ==
    ASSUME DrawerInv, NEW c \in asked, NEW answer \in ListCalls, asked' = (asked \ {c}) \cup {answer},
           UNCHANGED <<desk, drawer>>, filed' \in Filings, filed'.order = filed.order, filed'.docs = filed.docs,
           answer.kind = c.kind, c.kind \notin {"others", "save", "edit", "add"}, CallSound(answer), ~astray' => ~astray,
           c.kind = "remove" => c.step # "read"
    PROVE  ListsTyped' /\ RowsDerived' /\ SheetShown' /\ CallsSound' /\ OthersTrue'
<1>1. SameSheets
  BY DEF SameSheets, OtherSheets
<1>2. ListsTyped' /\ SheetShown'
  BY DEF DrawerInv, ListsTyped, SheetShown
<1>3. RowsDerived'
  BY <1>2, RowsFollow DEF DrawerInv, DeskMoves, ListsTyped, Desks
<1>4. CallsSound'
  <2>1. Single(asked')
    BY DEF Single, DrawerInv, CallsSound
  <2>2. QED
    BY <1>1, <2>1, CallsFrame DEF DrawerInv
<1>5. OthersTrue'
  <2>1. (ReadingOthers => ReadingOthers') /\ (Removing => Removing')
    BY DEF ReadingOthers, Removing
  <2>2. QED
    BY <1>1, <2>1, OthersFrame DEF DrawerInv
<1>6. QED
  BY <1>2, <1>3, <1>4, <1>5

LEMMA ReadWaiversKeeps == ASSUME DrawerInv, NEW c \in asked, c.kind = "read_waivers", HandleRead(c) PROVE DrawerInv'
<1> DEFINE told == IF c.sheet \in filed.waived THEN <<c.sheet>> ELSE << >>
           made == [c EXCEPT !.step = "read", !.sheets = told]
<1>1. c \in ListCalls /\ CallSound(c) /\ c.sheet \in ListedIds
  BY DrawerTypes DEF DrawerInv, CallsSound, CallSound, WaiverKinds
<1>2. told \in Seq(ListedIds) /\ (told # << >> <=> c.sheet \in filed.waived)
  BY <1>1
<1>3. Handled(c, made) /\ UNCHANGED <<filed, desk, drawer, astray>>
  BY DEF HandleRead
<1> HIDE DEF told
<1>10. PICK answer : answer = made
  OBVIOUS
<1>4. answer \in ListCalls /\ answer.kind = c.kind /\ answer.sheet = c.sheet /\ answer.step = "read" /\ answer.sheets = told
  BY <1>1, <1>2, <1>10 DEF ListCalls
<1>5. asked' = (asked \ {c}) \cup {answer}
  BY <1>3, <1>10 DEF Handled
<1> HIDE DEF made
<1>6. CallSound(answer)
  BY <1>1, <1>4 DEF CallSound, WaiverKinds
<1>7. ListsTyped' /\ RowsDerived' /\ SheetShown' /\ CallsSound' /\ OthersTrue'
  BY <1>3, <1>4, <1>5, <1>6, AnswerFrame DEF DrawerInv, ListsTyped
<1>8. WaiversTrue'
  <2>1. c \in WaiverCalls /\ answer \in WaiverCalls'
    BY <1>4, <1>5 DEF WaiverCalls, WaiverKinds
  <2>2. WaiverCalls' = (WaiverCalls \ {c}) \cup {answer}
    BY <1>4, <1>5 DEF WaiverCalls, WaiverKinds
  <2>3. WaiverTold(answer)'
    <3>1. answer.sheets # << >> <=> answer.sheet \in filed'.waived
      BY <1>2, <1>3, <1>4
    <3>2. QED
      BY <1>4, <3>1 DEF WaiverTold
  <2>4. \A e : WaiverCalls' = {e} => e = answer
    BY <2>1
  <2>5. answer \in asked' /\ answer.kind \in WaiverKinds
    BY <1>4, <1>5 DEF WaiverKinds
  <2>6. QED
    BY <1>3, <1>4, <2>1, <2>2, <2>3, <2>4, <2>5 DEF DrawerInv, WaiversTrue
<1>9. QED
  BY <1>7, <1>8 DEF DrawerInv

LEMMA ReadListKeeps == ASSUME DrawerInv, NEW c \in asked, c.kind = "list", HandleRead(c) PROVE DrawerInv'
<1> DEFINE answer == [c EXCEPT !.step = "read", !.sheets = filed.order]
<1>1. c \in ListCalls /\ CallSound(c) /\ c.step = "sent" /\ filed.order \in Orders /\ filed.order \in Seq(ListedIds)
  BY DrawerTypes DEF DrawerInv, CallsSound, HandleRead, Orders
<1>2. Handled(c, answer) /\ UNCHANGED <<filed, desk, drawer, astray>>
  BY DEF HandleRead
<1>3. answer \in ListCalls /\ answer.kind = c.kind /\ answer.sheet = c.sheet /\ answer.step = "read" /\ answer.sheets = filed.order
  BY <1>1 DEF ListCalls
<1> HIDE DEF answer
<1>4. CallSound(answer)
  BY <1>1, <1>3 DEF CallSound, WaiverKinds
<1>5. QED
  BY <1>1, <1>2, <1>3, <1>4, CallMoves

LEMMA ReadOthersKeeps == ASSUME DrawerInv, NEW c \in asked, c.kind = "others", HandleRead(c) PROVE DrawerInv'
<1> DEFINE sheets == {c.sheets[n] : n \in 1..Len(c.sheets)}
           read == [n \in 1..Len(c.sheets) |->
                       [sheet |-> c.sheets[n], no |-> NumberOf(filed.order, c.sheets[n]), doc |-> filed.docs[c.sheets[n]]]]
           made == [c EXCEPT !.step = "read", !.copies = read]
<1>1. /\ c \in ListCalls /\ CallSound(c) /\ c.step = "sent"
      /\ c.sheets \in Seq(ListedIds) /\ AllDifferent(c.sheets) /\ Listed(c.sheets) = OtherSheets
  BY DrawerTypes DEF DrawerInv, CallsSound, CallSound, HandleRead, ListCalls
<1>2. sheets = OtherSheets /\ Len(c.sheets) \in Nat /\ DOMAIN c.sheets = 1..Len(c.sheets)
  BY <1>1 DEF Listed
<1>3. /\ Handled(c, IF \A s \in sheets : InDrawing(s) THEN made ELSE [c EXCEPT !.step = "failed"])
      /\ astray' = (astray \/ Writing(sheets))
      /\ UNCHANGED <<filed, desk, drawer>>
  BY DEF HandleRead
<1>4. CASE ~(\A s \in sheets : InDrawing(s))
  <2> HIDE DEF sheets, read, made
  <2>1. Handled(c, [c EXCEPT !.step = "failed"]) /\ (~astray' => ~astray)
    BY <1>3, <1>4
  <2>2. QED
    BY <1>1, <1>3, <2>1, FailKeeps
<1>5. CASE \A s \in sheets : InDrawing(s)
  <2>1. \A n \in 1..Len(c.sheets) :
            /\ c.sheets[n] \in ListedIds /\ c.sheets[n] \in Listed(filed.order)
            /\ filed.docs[c.sheets[n]] \in SheetDocs /\ NumberOf(filed.order, c.sheets[n]) \in Nat
    BY <1>1, <1>5, DrawerTypes, OrderFacts DEF InDrawing, Orders
  <2>13. PICK copies : copies = read
    OBVIOUS
  <2>2. /\ copies \in Seq(Copies) /\ DOMAIN copies = 1..Len(c.sheets)
        /\ \A n \in 1..Len(c.sheets) :
              /\ copies[n].sheet = c.sheets[n] /\ copies[n].no = NumberOf(filed.order, c.sheets[n])
              /\ copies[n].doc = filed.docs[c.sheets[n]]
    BY <1>2, <2>1, <2>13 DEF Copies
  <2> HIDE DEF read
  <2>14. PICK answer : answer = made
    OBVIOUS
  <2>3. /\ answer \in ListCalls /\ answer.kind = "others" /\ answer.sheet = c.sheet /\ answer.step = "read"
        /\ answer.sheets = c.sheets /\ answer.copies = copies
    BY <1>1, <2>2, <2>13, <2>14 DEF ListCalls
  <2>4. asked' = (asked \ {c}) \cup {answer}
    BY <1>3, <1>5, <2>14 DEF Handled
  <2> HIDE DEF made, sheets
  <2>5. CallSound(answer)
    BY <1>1, <2>3 DEF CallSound, WaiverKinds
  <2>6. SameSheets
    BY <1>3 DEF SameSheets, OtherSheets
  <2>7. ListsTyped' /\ SheetShown'
    BY <1>3, <2>3, <2>4 DEF DrawerInv, ListsTyped, SheetShown
  <2>8. RowsDerived'
    BY <1>3, <2>7, RowsFollow DEF DrawerInv, DeskMoves, ListsTyped, Desks
  <2>9. CallsSound'
    <3>1. Single(asked')
      BY <2>3, <2>4 DEF Single, DrawerInv, CallsSound
    <3>2. QED
      BY <2>4, <2>5, <2>6, <3>1, CallsFrame DEF DrawerInv
  <2>10. WaiversTrue'
    BY <1>3, <2>3, <2>4, WaiversFrame DEF DrawerInv, WaiverKinds
  <2>11. OthersTrue'
    <3>1. SUFFICES ASSUME ~astray', desk'.sheet # NoSheetOpen PROVE OthersTrue'
      BY DEF OthersTrue
    <3>2. ~astray /\ desk.sheet # NoSheetOpen /\ ~Writing(OtherSheets) /\ OtherSheets' = OtherSheets
      BY <1>2, <1>3, <2>6, <3>1 DEF SameSheets
    <3>3. \A e \in asked' : ~(e.kind \in {"save", "edit"} /\ e.sheet \in OtherSheets)
      BY <2>3, <2>4, <3>2 DEF Writing
    <3>4. CopiesRead(copies)'
      <4>1. Covering(copies)'
        <5>1. \A m, n \in DOMAIN copies : copies[m].sheet = copies[n].sheet => m = n
          BY <1>1, <1>2, <2>2 DEF AllDifferent
        <5>2. {copies[n].sheet : n \in DOMAIN copies} = OtherSheets
          BY <1>1, <2>2 DEF Listed
        <5>3. QED
          BY <3>2, <5>1, <5>2 DEF Covering
      <4>2. Numbered(copies)'
        BY <1>3, <2>1, <2>2 DEF Numbered
      <4>3. \A n \in DOMAIN copies : copies[n].doc = filed'.docs[copies[n].sheet]
        BY <1>3, <2>2
      <4>4. QED
        BY <3>2, <3>3, <4>1, <4>2, <4>3 DEF CopiesRead
    <3>5. ASSUME NEW e \in asked', e.kind = "others", e.step = "read" PROVE CopiesRead(e.copies)'
      <4>1. CASE e = answer
        BY <2>3, <3>4, <4>1 DEF CopiesRead, Covering, Numbered
      <4>2. CASE e # answer
        <5>1. PICK brought : brought = e.copies
          OBVIOUS
        <5>2. CopiesRead(brought)
          BY <2>4, <3>2, <3>5, <4>2, <5>1 DEF DrawerInv, OthersTrue
        <5>3. Removing => Removing'
          BY <2>3, <2>4, <1>1 DEF Removing
        <5>4. CopiesRead(brought)'
          BY <1>3, <3>2, <3>3, <5>2, <5>3 DEF CopiesRead, Covering, Numbered
        <5>5. QED
          BY <5>1, <5>4 DEF CopiesRead, Covering, Numbered
      <4>3. QED
        BY <4>1, <4>2
    <3>6. ReadingOthers'
      BY <2>3, <2>4 DEF ReadingOthers
    <3>7. QED
      BY <3>5, <3>6 DEF OthersTrue
  <2>12. QED
    BY <2>7, <2>8, <2>9, <2>10, <2>11 DEF DrawerInv
<1>6. QED
  BY <1>4, <1>5

LEMMA ReadKeeps == ASSUME DrawerInv, NEW c \in asked, HandleRead(c) PROVE DrawerInv'
  BY ReadWaiversKeeps, ReadListKeeps, ReadOthersKeeps DEF HandleRead

LEMMA WriteWaiverKeeps ==
    ASSUME DrawerInv, NEW c \in asked, c.kind \in {"waive", "unwaive"}, ~WriteFails(c), HandleWrite(c)
    PROVE  DrawerInv'
<1>1. c \in ListCalls /\ CallSound(c) /\ c.sheet \in ListedIds /\ InDrawing(c.sheet) /\ c.step = "sent"
  BY DrawerTypes DEF DrawerInv, CallsSound, CallSound, WaiverKinds, WriteFails, HandleWrite
<1>2. PICK answer : answer = [c EXCEPT !.step = "read"]
  OBVIOUS
<1>3. answer \in ListCalls /\ answer.kind = c.kind /\ answer.sheet = c.sheet /\ answer.step = "read" /\ answer.sheets = c.sheets
  BY <1>1, <1>2, StepFacts
<1>4. asked' = (asked \ {c}) \cup {answer} /\ UNCHANGED <<desk, drawer>> /\ (~astray' => ~astray)
  BY <1>1, <1>2 DEF HandleWrite, Handled
<1>5. CallSound(answer)
  BY <1>1, <1>3 DEF CallSound, WaiverKinds
<1>6. /\ filed' \in Filings /\ filed'.order = filed.order /\ filed'.docs = filed.docs
      /\ c.kind = "unwaive" => c.sheet \notin filed'.waived
  <2>1. c.kind = "waive" => filed' = [filed EXCEPT !.waived = @ \cup {c.sheet}]
    BY <1>1 DEF HandleWrite
  <2>2. c.kind = "unwaive" => filed' = [filed EXCEPT !.waived = @ \ {c.sheet}]
    BY <1>1 DEF HandleWrite
  <2>3. QED
    BY <1>1, <2>1, <2>2 DEF DrawerInv, ListsTyped, Filings
<1>7. ListsTyped' /\ RowsDerived' /\ SheetShown' /\ CallsSound' /\ OthersTrue'
  BY <1>3, <1>4, <1>5, <1>6, AnswerFrame
<1>8. WaiversTrue'
  <2>1. c \in WaiverCalls /\ answer \in WaiverCalls' /\ WaiverCalls' = (WaiverCalls \ {c}) \cup {answer}
    BY <1>3, <1>4 DEF WaiverCalls, WaiverKinds
  <2>2. WaiverTold(answer)'
    BY <1>3, <1>6 DEF WaiverTold
  <2>3. answer \in asked' /\ answer.kind \in WaiverKinds
    BY <1>3, <1>4 DEF WaiverKinds
  <2>4. \A e : WaiverCalls' = {e} => e = answer
    BY <2>1
  <2>5. QED
    BY <1>3, <1>4, <2>1, <2>2, <2>3, <2>4 DEF DrawerInv, WaiversTrue
<1>9. QED
  BY <1>7, <1>8 DEF DrawerInv

\* The order of the sheets filed changes, and the documents stay.
LEMMA OrderChanges ==
    ASSUME DrawerInv, NEW c \in asked, NEW answer \in ListCalls, asked' = (asked \ {c}) \cup {answer},
           UNCHANGED <<desk, drawer>>, filed' \in Filings, filed'.docs = filed.docs, filed'.waived = filed.waived,
           c.kind \in {"add", "remove"}, answer.kind = c.kind, answer.sheet = c.sheet, answer.step = "read", c.step = "sent",
           ~astray' => ~astray,
           c.kind = "add" => \A t \in Listed(filed.order) :
              t \in Listed(filed'.order) /\ NumberOf(filed'.order, t) = NumberOf(filed.order, t),
           c.kind = "remove" => Listed(filed'.order) \subseteq Listed(filed.order)
    PROVE  DrawerInv'
<1>1. OtherSheets' = OtherSheets
  BY DEF OtherSheets
<1>2. ListsTyped' /\ SheetShown'
  BY DEF DrawerInv, ListsTyped, SheetShown
<1>3. RowsDerived'
  BY <1>2, RowsFollow DEF DrawerInv, DeskMoves, ListsTyped, Desks
<1>4. CallsSound'
  <2>1. ASSUME NEW e \in asked' PROVE CallSound(e)'
    <3>1. CASE e = answer
      <4>1. c.sheet \in ListedIds
        BY DEF DrawerInv, CallsSound, CallSound, WaiverKinds
      <4>2. QED
        BY <3>1, <4>1 DEF CallSound, WaiverKinds
    <3>2. CASE e # answer
      <4>1. e \in asked /\ e # c /\ CallSound(e)
        BY <3>2 DEF DrawerInv, CallsSound
      <4>2. e.kind = "add" => c.kind = "remove"
        BY <4>1 DEF DrawerInv, CallsSound
      <4>3. QED
        BY <1>1, <4>1, <4>2 DEF CallSound, WaiverKinds
    <3>3. QED
      BY <3>1, <3>2
  <2>2. Single(asked')
    BY DEF Single, DrawerInv, CallsSound
  <2>3. QED
    BY <2>1, <2>2 DEF CallsSound, Single
<1>5. WaiversTrue'
  BY WaiversFrame DEF DrawerInv, WaiverKinds
<1>6. ASSUME NEW copies, Removing \/ Numbered(copies) PROVE Removing' \/ Numbered(copies)'
  <2>1. CASE c.kind = "remove"
    BY <2>1 DEF Removing
  <2>2. CASE c.kind = "add"
    <3>1. Removing => Removing'
      BY <2>2 DEF Removing
    <3>2. Numbered(copies) => Numbered(copies)'
      BY <2>2 DEF Numbered
    <3>3. QED
      BY <1>6, <3>1, <3>2
  <2>3. QED
    BY <2>1, <2>2
<1>7. /\ \A e \in asked' : e.kind \in {"save", "edit"} => e \in asked
      /\ \A e \in asked : e.kind \in {"save", "edit"} => e \in asked'
  OBVIOUS
<1>8. OthersTrue'
  <2>1. SUFFICES ASSUME ~astray', desk'.sheet # NoSheetOpen PROVE OthersTrue'
    BY DEF OthersTrue
  <2>2. ASSUME NEW e \in asked', e.kind = "others", e.step = "read" PROVE CopiesRead(e.copies)'
    <3>1. PICK copies : copies = e.copies
      OBVIOUS
    <3>2. CopiesRead(copies)
      BY <2>1, <2>2, <3>1 DEF DrawerInv, OthersTrue
    <3>3. CopiesRead(copies)'
      BY <1>1, <1>6, <1>7, <3>2 DEF CopiesRead, Covering
    <3>4. QED
      BY <3>1, <3>3 DEF CopiesRead, Covering, Numbered
  <2>3. ASSUME ~ReadingOthers' PROVE KeptTrue'
    <3>1. PICK copies : copies = desk.others
      OBVIOUS
    <3>2. ~ReadingOthers
      BY <2>3 DEF ReadingOthers
    <3>3. CopiesKept(copies)
      BY <2>1, <3>1, <3>2 DEF DrawerInv, OthersTrue
    <3>4. CopiesKept(copies)'
      BY <1>1, <1>6, <1>7, <3>3 DEF CopiesKept, Covering
    <3>5. copies = desk'.others
      BY <3>1
    <3>6. QED
      BY <3>4, <3>5 DEF KeptTrue, CopiesKept, Covering, Numbered
  <2>4. QED
    BY <2>2, <2>3 DEF OthersTrue, KeptTrue
<1>9. QED
  BY <1>2, <1>3, <1>4, <1>5, <1>8 DEF DrawerInv

LEMMA WriteOrderKeeps ==
    ASSUME DrawerInv, NEW c \in asked, c.kind \in {"add", "remove"}, ~WriteFails(c), HandleWrite(c)
    PROVE  DrawerInv'
<1>1. /\ c \in ListCalls /\ CallSound(c) /\ c.sheet \in ListedIds /\ c.step = "sent"
      /\ filed.order \in Orders /\ filed \in Filings
  BY DrawerTypes DEF DrawerInv, CallsSound, CallSound, HandleWrite, ListsTyped
<1>2. PICK answer : answer = [c EXCEPT !.step = "read"]
  OBVIOUS
<1>3. answer \in ListCalls /\ answer.kind = c.kind /\ answer.sheet = c.sheet /\ answer.step = "read"
  BY <1>1, <1>2, StepFacts
<1>4. asked' = (asked \ {c}) \cup {answer} /\ UNCHANGED <<desk, drawer>> /\ (~astray' => ~astray)
  BY <1>2 DEF HandleWrite, Handled, WriteFails
<1>5. CASE c.kind = "add"
  <2>5. c.sheet \in ListedIds \ Listed(filed.order)
    BY <1>1, <1>5 DEF CallSound
  <2>6. filed' = [filed EXCEPT !.order = Append(@, c.sheet)]
    BY <1>5 DEF HandleWrite
  <2>1. filed' = [filed EXCEPT !.order = Append(@, c.sheet)] /\ c.sheet \in ListedIds \ Listed(filed.order)
    BY <2>5, <2>6
  <2>2. /\ Append(filed.order, c.sheet) \in Orders
        /\ \A t \in Listed(filed.order) : /\ t \in Listed(Append(filed.order, c.sheet))
                                          /\ NumberOf(Append(filed.order, c.sheet), t) = NumberOf(filed.order, t)
    BY <1>1, <2>1, AppendedFacts
  <2>3. /\ filed' \in Filings /\ filed'.order = Append(filed.order, c.sheet) /\ filed'.docs = filed.docs
        /\ filed'.waived = filed.waived
    BY <1>1, <2>1, <2>2 DEF Filings
  <2>4. QED
    BY <1>1, <1>3, <1>4, <1>5, <2>2, <2>3, OrderChanges
<1>6. CASE c.kind = "remove"
  <2> DEFINE rest == WithoutSheet(filed.order, c.sheet)
  <2>1. filed' = [filed EXCEPT !.order = rest] /\ c.sheet \in Listed(filed.order) /\ Len(filed.order) # 1
    BY <1>6 DEF HandleWrite, WriteFails, InDrawing
  <2>2. /\ rest \in Seq(ListedIds) /\ AllDifferent(rest) /\ Listed(rest) = Listed(filed.order) \ {c.sheet}
        /\ Len(rest) = Len(filed.order) - 1
    BY <1>1, <2>1, WithoutSheetFacts DEF Orders
  <2>3. Len(filed.order) \in Nat /\ Len(filed.order) # 0
    BY <1>1 DEF Orders
  <2> HIDE DEF rest
  <2>4. rest \in Orders
    <3>1. Len(rest) # 0
      BY <2>1, <2>2, <2>3
    <3>2. rest # << >>
      BY <3>1
    <3>3. QED
      BY <2>2, <3>2 DEF Orders
  <2>5. filed' \in Filings /\ filed'.order = rest /\ filed'.docs = filed.docs /\ filed'.waived = filed.waived
    BY <1>1, <2>1, <2>4 DEF Filings
  <2>6. Listed(filed'.order) \subseteq Listed(filed.order)
    BY <2>2, <2>5
  <2>7. QED
    BY <1>1, <1>3, <1>4, <1>6, <2>5, <2>6, OrderChanges
<1>7. QED
  BY <1>5, <1>6

LEMMA WriteSheetKeeps ==
    ASSUME DrawerInv, NEW c \in asked, c.kind \in {"save", "edit"}, ~WriteFails(c), HandleWrite(c)
    PROVE  DrawerInv'
<1>1. /\ c \in ListCalls /\ CallSound(c) /\ c.sheet \in ListedIds /\ c.doc \in SheetDocs /\ c.step = "sent"
      /\ filed \in Filings /\ InDrawing(c.sheet)
  BY DrawerTypes DEF DrawerInv, CallsSound, CallSound, HandleWrite, ListsTyped, WriteFails
<1>2. PICK answer : answer = [c EXCEPT !.step = "read"]
  OBVIOUS
<1>3. /\ answer \in ListCalls /\ answer.kind = c.kind /\ answer.sheet = c.sheet /\ answer.step = "read"
      /\ answer.doc = c.doc
  BY <1>1, <1>2, StepFacts
<1>4. /\ asked' = (asked \ {c}) \cup {answer} /\ UNCHANGED <<desk, drawer>>
      /\ astray' = (astray \/ Reading(c.sheet))
  BY <1>1, <1>2 DEF HandleWrite, Handled
<1>5. filed' = [filed EXCEPT !.docs[c.sheet] = c.doc]
  BY <1>1 DEF HandleWrite
<1>6. /\ filed' \in Filings /\ filed'.order = filed.order /\ filed'.waived = filed.waived
      /\ filed'.docs[c.sheet] = c.doc /\ \A s \in ListedIds : s # c.sheet => filed'.docs[s] = filed.docs[s]
  BY <1>1, <1>5 DEF Filings
<1>7. OtherSheets' = OtherSheets /\ OtherSheets \subseteq ListedIds
  BY <1>4, DrawerTypes, OrderFacts DEF OtherSheets, Orders
<1>8. ListsTyped' /\ SheetShown'
  BY <1>3, <1>4, <1>6 DEF DrawerInv, ListsTyped, SheetShown
<1>9. RowsDerived'
  BY <1>4, <1>8, RowsFollow DEF DrawerInv, DeskMoves, ListsTyped, Desks
<1>10. CallsSound'
  <2>1. ASSUME NEW e \in asked' PROVE CallSound(e)'
    <3>1. CASE e = answer
      BY <1>1, <1>3, <3>1 DEF CallSound, WaiverKinds
    <3>2. CASE e # answer
      <4>1. CallSound(e)
        BY <1>4, <3>2 DEF DrawerInv, CallsSound
      <4>2. QED
        BY <1>4, <1>6, <1>7, <4>1 DEF CallSound
    <3>3. QED
      BY <3>1, <3>2
  <2>2. Single(asked')
    BY <1>3, <1>4 DEF Single, DrawerInv, CallsSound
  <2>3. QED
    BY <2>1, <2>2 DEF CallsSound, Single
<1>11. WaiversTrue'
  BY <1>3, <1>4, <1>6, WaiversFrame DEF DrawerInv, WaiverKinds
<1>12. OthersTrue'
  <2>1. SUFFICES ASSUME ~astray', desk'.sheet # NoSheetOpen PROVE OthersTrue'
    BY DEF OthersTrue
  <2>2. ~astray /\ ~Reading(c.sheet) /\ desk.sheet # NoSheetOpen
    BY <1>4, <2>1
  <2>3. Removing => Removing'
    BY <1>3, <1>4 DEF Removing
  <2>4. ASSUME NEW e \in asked', e.kind = "others", e.step = "read" PROVE CopiesRead(e.copies)'
    <3>1. PICK copies : copies = e.copies
      OBVIOUS
    <3>2. e \in asked /\ CopiesRead(copies)
      BY <1>3, <1>4, <2>2, <2>4, <3>1 DEF DrawerInv, OthersTrue
    <3>3. c.sheet \notin OtherSheets
      BY <2>2, <2>4, <3>2 DEF Reading, DrawerInv, CallsSound, CallSound
    <3>4. \A n \in DOMAIN copies : copies[n].sheet \in OtherSheets
      BY <3>2 DEF CopiesRead, Covering
    <3>5. \A n \in DOMAIN copies : copies[n].doc = filed'.docs[copies[n].sheet]
      BY <1>6, <1>7, <3>2, <3>3, <3>4 DEF CopiesRead
    <3>6. Covering(copies)' /\ (Removing' \/ Numbered(copies)')
      BY <1>6, <1>7, <2>3, <3>2 DEF CopiesRead, Covering, Numbered
    <3>7. \A d \in asked' : d.kind \in {"save", "edit"} /\ d.sheet \in OtherSheets => d.kind = "edit" /\ d.step # "read"
      BY <1>3, <1>4, <3>2, <3>3 DEF CopiesRead
    <3>8. CopiesRead(copies)'
      BY <1>7, <3>5, <3>6, <3>7 DEF CopiesRead
    <3>9. QED
      BY <3>1, <3>8 DEF CopiesRead, Covering, Numbered
  <2>5. ASSUME ~ReadingOthers' PROVE KeptTrue'
    <3>1. PICK copies : copies = desk.others
      OBVIOUS
    <3>2. CopiesKept(copies)
      BY <1>3, <1>4, <2>2, <2>5, <3>1 DEF DrawerInv, OthersTrue, ReadingOthers
    <3>3. \A n \in DOMAIN copies : copies[n].sheet \in OtherSheets
      BY <3>2 DEF CopiesKept, Covering
    <3>4. c.sheet \in OtherSheets => c.kind = "edit"
      BY <3>2 DEF CopiesKept
    <3>5. answer \in asked'
      BY <1>4
    <3>6. ASSUME NEW n \in DOMAIN copies
          PROVE  \/ copies[n].doc = filed'.docs[copies[n].sheet]
                 \/ \E e \in asked' : e.kind = "edit" /\ e.step = "read" /\ e.sheet = copies[n].sheet
      <4>1. CASE copies[n].sheet = c.sheet
        BY <1>3, <3>3, <3>4, <3>5, <4>1
      <4>2. CASE copies[n].sheet # c.sheet
        <5>1. \/ copies[n].doc = filed.docs[copies[n].sheet]
              \/ \E e \in asked : e.kind = "edit" /\ e.step = "read" /\ e.sheet = copies[n].sheet
          BY <3>2 DEF CopiesKept
        <5>2. \A e \in asked : e.step = "read" => e \in asked'
          BY <1>1, <1>4
        <5>3. filed'.docs[copies[n].sheet] = filed.docs[copies[n].sheet]
          BY <1>6, <1>7, <3>3, <4>2
        <5>4. QED
          BY <5>1, <5>2, <5>3
      <4>3. QED
        BY <4>1, <4>2
    <3>7. ASSUME NEW e \in asked', e.kind \in {"save", "edit"}, e.sheet \in OtherSheets
          PROVE  e.kind = "edit" /\ (e.step = "read" => e.doc = filed'.docs[e.sheet])
      <4>1. CASE e = answer
        BY <1>3, <1>6, <3>4, <3>7, <4>1
      <4>2. CASE e # answer
        <5>1. e \in asked /\ e # c /\ e.kind = "edit" /\ (e.step = "read" => e.doc = filed.docs[e.sheet])
          BY <1>4, <3>2, <3>7, <4>2 DEF CopiesKept
        <5>2. c.kind # "edit"
          BY <5>1 DEF DrawerInv, CallsSound
        <5>3. e.sheet # c.sheet
          BY <3>4, <3>7, <5>2
        <5>4. filed'.docs[e.sheet] = filed.docs[e.sheet]
          BY <1>6, <1>7, <3>7, <5>3
        <5>5. QED
          BY <5>1, <5>4
      <4>3. QED
        BY <4>1, <4>2
    <3>8. Covering(copies)' /\ (Removing' \/ Numbered(copies)')
      BY <1>6, <1>7, <2>3, <3>2 DEF CopiesKept, Covering, Numbered
    <3>9. CopiesKept(copies)'
      BY <1>7, <3>6, <3>7, <3>8 DEF CopiesKept
    <3>10. copies = desk'.others
      BY <1>4, <3>1
    <3>11. QED
      BY <3>9, <3>10 DEF KeptTrue, CopiesKept, Covering, Numbered
  <2>6. QED
    BY <2>4, <2>5 DEF OthersTrue, KeptTrue
<1>13. QED
  BY <1>8, <1>9, <1>10, <1>11, <1>12 DEF DrawerInv

LEMMA WriteKeeps == ASSUME DrawerInv, NEW c \in asked, HandleWrite(c) PROVE DrawerInv'
<1>1. CASE WriteFails(c)
  <2>4. Handled(c, [c EXCEPT !.step = "failed"])
    BY <1>1, Zenon DEF HandleWrite, WriteFails
  <2>5. filed' = filed
    BY <1>1 DEF HandleWrite, WriteFails
  <2>6. UNCHANGED <<desk, drawer>> /\ (~astray' => ~astray)
    BY DEF HandleWrite
  <2>1. Handled(c, [c EXCEPT !.step = "failed"]) /\ UNCHANGED <<filed, desk, drawer>> /\ (~astray' => ~astray)
    BY <2>4, <2>5, <2>6
  <2>2. c.step = "sent"
    BY DEF HandleWrite
  <2>3. QED
    BY <2>1, <2>2, FailKeeps
<1>2. CASE ~WriteFails(c)
  BY <1>2, WriteWaiverKeeps, WriteOrderKeeps, WriteSheetKeeps DEF HandleWrite
<1>3. QED
  BY <1>1, <1>2

LEMMA TakeDocumentKeeps == ASSUME DrawerInv, NEW c \in asked, TakeDocument(c) PROVE DrawerInv'
<1>1. c.kind = "open" /\ asked' = asked \ {c} /\ UNCHANGED <<filed, astray>>
  BY DEF TakeDocument
<1>2. c.sheet = desk.sheet /\ c.sheet # NoSheetOpen
  BY <1>1 DEF DrawerInv, CallsSound, CallSound
<1>3. CASE c.step = "sent" /\ InDrawing(c.sheet)
  <2> DEFINE doc == filed.docs[c.sheet]
  <2>1. doc \in SheetDocs
    BY <1>2, DrawerTypes
  <2>2. Desk([desk EXCEPT !.doc = doc])
    BY <1>3 DEF TakeDocument
  <2> HIDE DEF doc
  <2>3. desk' = [desk EXCEPT !.doc = doc] /\ DeskMoves
    BY <2>2 DEF Desk, DeskMoves
  <2>4. /\ desk' \in Desks /\ desk'.order = desk.order /\ desk'.sheet = desk.sheet /\ desk'.others = desk.others
        /\ desk'.waived = desk.waived
    BY <2>1, <2>3 DEF DrawerInv, ListsTyped, Desks
  <2>5. SheetShown'
    BY <1>2, <2>4 DEF DrawerInv, SheetShown
  <2>6. QED
    BY <1>1, <2>3, <2>4, <2>5, CallGone
<1>4. CASE ~(c.step = "sent" /\ InDrawing(c.sheet))
  <2>1. UNCHANGED <<desk, drawer>>
    BY <1>4 DEF TakeDocument
  <2>2. SheetShown' /\ DeskMoves /\ desk' \in Desks
    BY <2>1 DEF DrawerInv, SheetShown, DeskMoves, ListsTyped
  <2>3. QED
    BY <1>1, <2>1, <2>2, CallGone
<1>5. QED
  BY <1>3, <1>4

\* A call is over without an effect on the page.
LEMMA DoneKeeps ==
    ASSUME DrawerInv, NEW c \in asked, asked' = asked \ {c}, UNCHANGED <<filed, desk, drawer>>, ~astray' => ~astray,
           astray' \/ c.kind \in {"open", "save", "add", "list"} \/ (c.kind = "remove" /\ c.step # "read")
    PROVE  DrawerInv'
<1>1. SheetShown' /\ DeskMoves /\ desk' \in Desks
  BY DEF DrawerInv, SheetShown, DeskMoves, ListsTyped
<1>2. QED
  BY <1>1, CallGone

\* The page takes an answer into its copies or waivers, and the call is over.
LEMMA TakenFrame ==
    ASSUME DrawerInv, NEW c \in asked, asked' = asked \ {c}, UNCHANGED filed, Desk(desk'), desk' \in Desks,
           desk'.order = desk.order, desk'.sheet = desk.sheet, desk'.doc = desk.doc
    PROVE  ListsTyped' /\ RowsDerived' /\ SheetShown' /\ CallsSound' /\ OtherSheets' = OtherSheets
<1>1. OtherSheets' = OtherSheets
  BY DEF OtherSheets
<1>2. ListsTyped' /\ SheetShown'
  BY DEF DrawerInv, ListsTyped, SheetShown
<1>3. RowsDerived'
  BY <1>2, RowsFollow DEF DrawerInv, ListsTyped, Desks, DeskMoves
<1>4. ASSUME NEW e \in asked' PROVE CallSound(e)'
  <2>1. CallSound(e)
    BY DEF DrawerInv, CallsSound
  <2>2. QED
    BY <1>1, <2>1 DEF CallSound
<1>5. QED
  BY <1>1, <1>2, <1>3, <1>4 DEF DrawerInv, CallsSound

LEMMA TakeOthersKeeps == ASSUME DrawerInv, NEW c \in asked, TakeOthers(c) PROVE DrawerInv'
<1>1. /\ c \in ListCalls /\ c.kind = "others" /\ c.step \in {"read", "failed"} /\ asked' = asked \ {c} /\ UNCHANGED filed
      /\ Desk([desk EXCEPT !.others = c.copies]) /\ astray' = (astray \/ c.step = "failed")
  BY DrawerTypes DEF TakeOthers
<1>2. desk' = [desk EXCEPT !.others = c.copies] /\ Desk(desk') /\ c.copies \in Seq(Copies)
  BY <1>1 DEF Desk, ListCalls
<1>3. /\ desk' \in Desks /\ desk'.order = desk.order /\ desk'.sheet = desk.sheet /\ desk'.doc = desk.doc
      /\ desk'.waived = desk.waived /\ desk'.others = c.copies
  BY <1>2 DEF DrawerInv, ListsTyped, Desks
<1>4. ListsTyped' /\ RowsDerived' /\ SheetShown' /\ CallsSound' /\ OtherSheets' = OtherSheets
  BY <1>1, <1>2, <1>3, TakenFrame
<1>5. WaiversTrue'
  BY <1>1, <1>3, WaiversFrame DEF DrawerInv, WaiverKinds
<1>6. OthersTrue'
  <2>1. SUFFICES ASSUME ~astray', desk'.sheet # NoSheetOpen PROVE OthersTrue'
    BY DEF OthersTrue
  <2>2. ~astray /\ c.step = "read" /\ desk.sheet # NoSheetOpen
    BY <1>1, <1>3, <2>1
  <2>3. Removing => Removing'
    BY <1>1 DEF Removing
  <2>4. ASSUME NEW copies, CopiesRead(copies) PROVE CopiesRead(copies)' /\ CopiesKept(copies)'
    <3>1. Covering(copies)' /\ (Removing' \/ Numbered(copies)')
      BY <1>1, <1>4, <2>3, <2>4 DEF CopiesRead, Covering, Numbered
    <3>2. \A n \in DOMAIN copies : copies[n].doc = filed'.docs[copies[n].sheet]
      BY <1>1, <2>4 DEF CopiesRead
    <3>3. \A e \in asked' : e.kind \in {"save", "edit"} /\ e.sheet \in OtherSheets' => e.kind = "edit" /\ e.step # "read"
      BY <1>1, <1>4, <2>4 DEF CopiesRead
    <3>4. QED
      BY <3>1, <3>2, <3>3 DEF CopiesRead, CopiesKept
  <2>5. ASSUME NEW e \in asked', e.kind = "others", e.step = "read" PROVE CopiesRead(e.copies)'
    BY <1>1, <2>2, <2>4, <2>5 DEF DrawerInv, OthersTrue
  <2>6. KeptTrue'
    <3>1. PICK copies : copies = c.copies
      OBVIOUS
    <3>2. CopiesRead(copies)
      BY <1>1, <2>2, <3>1 DEF DrawerInv, OthersTrue
    <3>3. CopiesKept(copies)'
      BY <2>4, <3>2
    <3>4. copies = desk'.others
      BY <1>3, <3>1
    <3>5. QED
      BY <3>3, <3>4 DEF KeptTrue, CopiesKept, Covering, Numbered
  <2>7. QED
    BY <2>5, <2>6 DEF OthersTrue, KeptTrue
<1>7. QED
  BY <1>4, <1>5, <1>6 DEF DrawerInv

LEMMA TakeWaiversKeeps == ASSUME DrawerInv, NEW c \in asked, TakeWaivers(c) PROVE DrawerInv'
<1> DEFINE told == c.step = "sent" /\ c.sheet \in filed.waived
<1>1. /\ c.kind = "waivers" /\ asked' = asked \ {c} /\ UNCHANGED filed
      /\ Desk([desk EXCEPT !.waived = told]) /\ astray' = (astray \/ c.step = "failed")
  BY DEF TakeWaivers
<1>2. c.sheet = desk.sheet /\ c.step \in {"sent", "failed"}
  BY <1>1 DEF DrawerInv, CallsSound, CallSound
<1>3. told \in BOOLEAN
  OBVIOUS
<1>4. desk' = [desk EXCEPT !.waived = told] /\ Desk(desk')
  BY <1>1 DEF Desk
<1>5. ASSUME NEW w \in BOOLEAN, desk' = [desk EXCEPT !.waived = w]
      PROVE  /\ desk' \in Desks /\ desk'.order = desk.order /\ desk'.sheet = desk.sheet /\ desk'.doc = desk.doc
             /\ desk'.waived = w /\ desk'.others = desk.others
  BY <1>5 DEF DrawerInv, ListsTyped, Desks
<1> HIDE DEF told
<1>6. /\ desk' \in Desks /\ desk'.order = desk.order /\ desk'.sheet = desk.sheet /\ desk'.doc = desk.doc
      /\ desk'.waived = told /\ desk'.others = desk.others
  BY <1>3, <1>4, <1>5
<1>7. ListsTyped' /\ RowsDerived' /\ SheetShown' /\ CallsSound' /\ OtherSheets' = OtherSheets
  BY <1>1, <1>4, <1>6, TakenFrame
<1>8. WaiversTrue'
  <2>1. WaiverCalls' = WaiverCalls
    BY <1>1 DEF WaiverCalls, WaiverKinds
  <2>2. ~astray' => (desk'.waived <=> desk'.sheet \in filed'.waived)
    BY <1>1, <1>2, <1>6 DEF told
  <2>3. QED
    BY <1>1, <1>6, <2>1, <2>2 DEF DrawerInv, WaiversTrue, WaiverTold
<1>9. OthersTrue'
  <2>1. SameSheets
    BY <1>1, <1>6, <1>7 DEF SameSheets
  <2>2. (ReadingOthers => ReadingOthers') /\ (Removing => Removing')
    BY <1>1 DEF ReadingOthers, Removing
  <2>3. QED
    BY <1>1, <2>1, <2>2, OthersFrame DEF DrawerInv
<1>10. QED
  BY <1>7, <1>8, <1>9 DEF DrawerInv

LEMMA TakeEditKeeps == ASSUME DrawerInv, NEW c \in asked, c.kind = "edit", c.step = "read", TakeStored(c) PROVE DrawerInv'
<1> DEFINE others == [n \in 1..Len(desk.others) |->
                        IF desk.others[n].sheet = c.sheet THEN [desk.others[n] EXCEPT !.doc = c.doc] ELSE desk.others[n]]
<1>1. /\ asked' = asked \ {c} /\ UNCHANGED filed /\ (~astray' => ~astray) /\ Desk([desk EXCEPT !.others = others])
  BY DEF TakeStored
<1>2. c.doc \in SheetDocs /\ desk.others \in Seq(Copies) /\ DOMAIN desk.others = 1..Len(desk.others) /\ Len(desk.others) \in Nat
  BY DrawerTypes DEF DrawerInv, CallsSound, CallSound
<1>3. ASSUME NEW n \in 1..Len(desk.others)
      PROVE  /\ others[n] \in Copies /\ others[n].sheet = desk.others[n].sheet /\ others[n].no = desk.others[n].no
             /\ others[n].doc = IF desk.others[n].sheet = c.sheet THEN c.doc ELSE desk.others[n].doc
  <2>1. desk.others[n] \in Copies
    BY <1>2
  <2>2. others[n] = IF desk.others[n].sheet = c.sheet THEN [desk.others[n] EXCEPT !.doc = c.doc] ELSE desk.others[n]
    OBVIOUS
  <2> HIDE DEF others
  <2>3. QED
    BY <1>2, <2>1, <2>2 DEF Copies
<1>4. others \in Seq(Copies) /\ DOMAIN others = 1..Len(desk.others)
  <2>1. DOMAIN others = 1..Len(desk.others) /\ others = [n \in 1..Len(desk.others) |-> others[n]]
    OBVIOUS
  <2> HIDE DEF others
  <2>2. others \in [1..Len(desk.others) -> Copies]
    BY <1>3, <2>1
  <2>3. QED
    BY <1>2, <2>1, <2>2
<1> HIDE DEF others
<1>5. desk' = [desk EXCEPT !.others = others] /\ Desk(desk')
  BY <1>1 DEF Desk
<1>6. /\ desk' \in Desks /\ desk'.order = desk.order /\ desk'.sheet = desk.sheet /\ desk'.doc = desk.doc
      /\ desk'.waived = desk.waived /\ desk'.others = others
  BY <1>4, <1>5 DEF DrawerInv, ListsTyped, Desks
<1>7. ListsTyped' /\ RowsDerived' /\ SheetShown' /\ CallsSound' /\ OtherSheets' = OtherSheets
  BY <1>1, <1>5, <1>6, TakenFrame
<1>8. WaiversTrue'
  BY <1>1, <1>6, WaiversFrame DEF DrawerInv, WaiverKinds
<1>9. OthersTrue'
  <2>1. SUFFICES ASSUME ~astray', desk'.sheet # NoSheetOpen PROVE OthersTrue'
    BY DEF OthersTrue
  <2>2. ~astray /\ desk.sheet # NoSheetOpen
    BY <1>1, <1>6, <2>1
  <2>3. Removing => Removing'
    BY <1>1 DEF Removing
  <2>4. ASSUME NEW e \in asked', e.kind = "others", e.step = "read" PROVE CopiesRead(e.copies)'
    <3>1. PICK copies : copies = e.copies
      OBVIOUS
    <3>2. CopiesRead(copies)
      BY <1>1, <2>2, <2>4, <3>1 DEF DrawerInv, OthersTrue
    <3>3. CopiesRead(copies)'
      BY <1>1, <1>7, <2>3, <3>2 DEF CopiesRead, Covering, Numbered
    <3>4. QED
      BY <3>1, <3>3 DEF CopiesRead, Covering, Numbered
  <2>5. ASSUME ~ReadingOthers' PROVE KeptTrue'
    <3>1. PICK old : old = desk.others
      OBVIOUS
    <3>2. PICK copies : copies = others
      OBVIOUS
    <3>3. CopiesKept(old)
      BY <1>1, <2>2, <2>5, <3>1 DEF DrawerInv, OthersTrue, ReadingOthers
    <3>4. /\ DOMAIN copies = DOMAIN old
          /\ \A n \in DOMAIN old : /\ copies[n].sheet = old[n].sheet /\ copies[n].no = old[n].no
                                   /\ copies[n].doc = IF old[n].sheet = c.sheet THEN c.doc ELSE old[n].doc
      BY <1>2, <1>3, <1>4, <3>1, <3>2
    <3>5. Covering(copies)' /\ (Removing' \/ Numbered(copies)')
      <4>1. Covering(old) /\ (Removing \/ Numbered(old))
        BY <3>3 DEF CopiesKept
      <4>2. {copies[n].sheet : n \in DOMAIN copies} = {old[n].sheet : n \in DOMAIN old}
        BY <3>4
      <4>3. Covering(copies)'
        BY <1>7, <3>4, <4>1, <4>2 DEF Covering
      <4>4. Numbered(old) => Numbered(copies)'
        BY <1>1, <3>4 DEF Numbered
      <4>5. QED
        BY <2>3, <4>1, <4>3, <4>4
    <3>6. ASSUME NEW n \in DOMAIN copies PROVE copies[n].doc = filed'.docs[copies[n].sheet]
      <4>1. CASE old[n].sheet = c.sheet
        <5>1. c.sheet \in OtherSheets
          BY <3>3, <3>4, <4>1 DEF CopiesKept, Covering
        <5>2. c.doc = filed.docs[c.sheet]
          BY <3>3, <5>1 DEF CopiesKept
        <5>3. QED
          BY <1>1, <3>4, <4>1, <5>2
      <4>2. CASE old[n].sheet # c.sheet
        <5>1. ~(\E e \in asked : e.kind = "edit" /\ e.step = "read" /\ e.sheet = old[n].sheet)
          BY <4>2 DEF DrawerInv, CallsSound
        <5>2. old[n].doc = filed.docs[old[n].sheet]
          BY <3>3, <3>4, <5>1 DEF CopiesKept
        <5>3. QED
          BY <1>1, <3>4, <4>2, <5>2
      <4>3. QED
        BY <4>1, <4>2
    <3>7. \A e \in asked' : e.kind \in {"save", "edit"} /\ e.sheet \in OtherSheets' =>
              e.kind = "edit" /\ (e.step = "read" => e.doc = filed'.docs[e.sheet])
      BY <1>1, <1>7, <3>3 DEF CopiesKept
    <3>8. CopiesKept(copies)'
      BY <3>5, <3>6, <3>7 DEF CopiesKept
    <3>9. copies = desk'.others
      BY <1>6, <3>2
    <3>10. QED
      BY <3>8, <3>9 DEF KeptTrue, CopiesKept, Covering, Numbered
  <2>6. QED
    BY <2>4, <2>5 DEF OthersTrue, KeptTrue
<1>10. QED
  BY <1>7, <1>8, <1>9 DEF DrawerInv

LEMMA TakeStoredKeeps == ASSUME DrawerInv, NEW c \in asked, TakeStored(c) PROVE DrawerInv'
<1>1. CASE c.kind = "edit" /\ c.step = "read"
  BY <1>1, TakeEditKeeps
<1>2. CASE ~(c.kind = "edit" /\ c.step = "read")
  <2>1. /\ c.kind = "save" \/ c.step = "failed"
        /\ asked' = asked \ {c} /\ UNCHANGED <<filed, desk, drawer>> /\ astray' = (astray \/ c.step = "failed")
    BY <1>2 DEF TakeStored
  <2>2. QED
    BY <2>1, DoneKeeps
<1>3. QED
  BY <1>1, <1>2

LEMMA TakeWaivedKeeps == ASSUME DrawerInv, NEW c \in asked, TakeWaived(c) PROVE DrawerInv'
<1>1. /\ c \in ListCalls /\ c.kind \in WaiverKinds /\ c.step \in {"read", "failed"} /\ UNCHANGED filed
      /\ astray' = (astray \/ c.step = "failed" \/ \E other \in asked \ {c} : other.kind \in WaiverKinds \cup {"waivers"})
  BY DrawerTypes DEF TakeWaived, WaiverKinds
<1>2. CASE c.step = "failed"
  <2>1. asked' = asked \ {c} /\ UNCHANGED <<desk, drawer>> /\ astray'
    BY <1>1, <1>2 DEF TakeWaived
  <2>2. QED
    BY <1>1, <2>1, DoneKeeps
<1>3. CASE c.step = "read"
  <2>1. c.sheet \in ListedIds
    BY <1>1 DEF DrawerInv, CallsSound, CallSound
  <2>2. CASE c.kind = "waive"
    <3> DEFINE call == Ask("read_waivers", c.sheet)
    <3>1. asked' = (asked \ {c}) \cup {call} /\ UNCHANGED <<desk, drawer>>
      BY <1>3, <2>2 DEF TakeWaived
    <3>2. call \in ListCalls /\ call.kind = "read_waivers" /\ call.sheet = c.sheet /\ call.step = "sent"
      BY <2>1, AskFacts DEF WaiverKinds
    <3> HIDE DEF call
    <3>3. PICK answer : answer = call
      OBVIOUS
    <3>4. CallSound(answer)
      BY <2>1, <3>2, <3>3 DEF CallSound, WaiverKinds
    <3>5. SameSheets
      BY <1>1, <3>1 DEF SameSheets, OtherSheets
    <3>6. ListsTyped' /\ SheetShown'
      BY <1>1, <3>1, <3>2 DEF DrawerInv, ListsTyped, SheetShown
    <3>7. RowsDerived'
      BY <3>1, <3>6, RowsFollow DEF DrawerInv, ListsTyped, Desks, DeskMoves
    <3>8. CallsSound'
      <4>1. Single(asked')
        BY <3>1, <3>2 DEF DrawerInv, CallsSound, Single
      <4>2. QED
        BY <3>1, <3>3, <3>4, <3>5, <4>1, CallsFrame DEF DrawerInv
    <3>9. WaiversTrue'
      <4>1. SUFFICES ASSUME ~astray' PROVE WaiversTrue'
        BY DEF WaiversTrue
      <4>2. ~astray /\ \A other \in asked \ {c} : other.kind \notin WaiverKinds \cup {"waivers"}
        BY <1>1, <4>1
      <4>3. c.sheet = desk.sheet
        BY <1>1, <4>2 DEF DrawerInv, WaiversTrue, WaiverCalls
      <4>4. answer \in asked' /\ answer.kind \in WaiverKinds /\ \A e \in WaiverCalls' : e = answer
        BY <3>1, <3>2, <3>3, <4>2 DEF WaiverCalls, WaiverKinds
      <4>5. answer.sheet = desk'.sheet /\ answer.step # "read"
        BY <3>1, <3>2, <3>3, <4>3
      <4>6. QED
        BY <4>4, <4>5 DEF WaiversTrue
    <3>10. OthersTrue'
      <4>1. (ReadingOthers => ReadingOthers') /\ (Removing => Removing')
        BY <2>2, <3>1 DEF ReadingOthers, Removing
      <4>2. QED
        BY <1>1, <2>2, <3>1, <3>2, <3>5, <4>1, OthersFrame DEF DrawerInv
    <3>11. QED
      BY <3>6, <3>7, <3>8, <3>9, <3>10 DEF DrawerInv
  <2>3. CASE c.kind \in {"unwaive", "read_waivers"}
    <3> DEFINE told == c.kind = "read_waivers" /\ c.sheets # << >>
    <3>1. asked' = asked \ {c} /\ Desk([desk EXCEPT !.waived = told])
      BY <1>3, <2>3 DEF TakeWaived
    <3>2. told \in BOOLEAN
      OBVIOUS
    <3>3. desk' = [desk EXCEPT !.waived = told] /\ Desk(desk')
      BY <3>1 DEF Desk
    <3>4. ASSUME NEW w \in BOOLEAN, desk' = [desk EXCEPT !.waived = w]
          PROVE  /\ desk' \in Desks /\ desk'.order = desk.order /\ desk'.sheet = desk.sheet /\ desk'.doc = desk.doc
                 /\ desk'.waived = w /\ desk'.others = desk.others
      BY <3>4 DEF DrawerInv, ListsTyped, Desks
    <3> HIDE DEF told
    <3>5. /\ desk' \in Desks /\ desk'.order = desk.order /\ desk'.sheet = desk.sheet /\ desk'.doc = desk.doc
          /\ desk'.waived = told /\ desk'.others = desk.others
      BY <3>2, <3>3, <3>4
    <3>6. ListsTyped' /\ RowsDerived' /\ SheetShown' /\ CallsSound' /\ OtherSheets' = OtherSheets
      BY <1>1, <3>1, <3>3, <3>5, TakenFrame
    <3>7. WaiversTrue'
      <4>1. SUFFICES ASSUME ~astray' PROVE WaiversTrue'
        BY DEF WaiversTrue
      <4>2. ~astray /\ \A other \in asked \ {c} : other.kind \notin WaiverKinds \cup {"waivers"}
        BY <1>1, <4>1
      <4>3. WaiverCalls = {c} /\ WaiverCalls' = {}
        BY <1>1, <3>1, <4>2 DEF WaiverCalls
      <4>4. c.sheet = desk.sheet /\ WaiverTold(c)
        BY <1>3, <4>2, <4>3 DEF DrawerInv, WaiversTrue
      <4>5. told <=> c.sheet \in filed.waived
        BY <2>3, <4>4 DEF WaiverTold, told
      <4>6. desk'.waived <=> desk'.sheet \in filed'.waived
        BY <1>1, <3>5, <4>4, <4>5
      <4>7. QED
        BY <4>3, <4>6 DEF WaiversTrue
    <3>8. OthersTrue'
      <4>1. SameSheets
        BY <1>1, <3>5, <3>6 DEF SameSheets
      <4>2. (ReadingOthers => ReadingOthers') /\ (Removing => Removing')
        BY <2>3, <3>1 DEF ReadingOthers, Removing
      <4>3. QED
        BY <1>1, <2>3, <3>1, <4>1, <4>2, OthersFrame DEF DrawerInv
    <3>9. QED
      BY <3>6, <3>7, <3>8 DEF DrawerInv
  <2>4. QED
    BY <1>1, <2>2, <2>3 DEF WaiverKinds
<1>4. QED
  BY <1>1, <1>2, <1>3

LEMMA TakeRemovedKeeps == ASSUME DrawerInv, NEW c \in asked, TakeRemoved(c) PROVE DrawerInv'
<1>1. c.kind = "remove" /\ c.step \in {"read", "failed"} /\ UNCHANGED filed
  BY DEF TakeRemoved
<1>2. CASE c.step = "failed"
  BY <1>1, <1>2, DoneKeeps DEF TakeRemoved
<1>3. CASE c.step = "read"
  <2> DEFINE call == Ask("list", NoSheetOpen)
             calls == (asked \ {c}) \cup {call}
  <2>1. call \in ListCalls /\ call.kind = "list" /\ call.step = "sent"
    BY AskFacts
  <2>2. Opening(desk.order, NoSheetOpen, calls)
    BY <1>3 DEF TakeRemoved
  <2> HIDE DEF call
  <2>3. CallSound(call)
    BY <2>1 DEF CallSound, WaiverKinds
  <2>4. calls \in SUBSET ListCalls /\ (\A e \in calls : CallSound(e)) /\ Single(calls)
    BY <2>1, <2>3 DEF DrawerInv, ListsTyped, CallsSound, Single
  <2>5. desk.order \in Orders
    BY DrawerTypes
  <2> HIDE DEF calls
  <2>6. QED
    BY <1>1, <2>2, <2>4, <2>5, OpeningKeeps
<1>4. QED
  BY <1>1, <1>2, <1>3

LEMMA TakeAddedKeeps == ASSUME DrawerInv, NEW c \in asked, TakeAdded(c) PROVE DrawerInv'
<1>1. c.kind = "add" /\ c.step \in {"read", "failed"} /\ UNCHANGED <<filed, desk, drawer, astray>>
  BY DEF TakeAdded
<1>2. CASE c.step = "failed"
  BY <1>1, <1>2, DoneKeeps DEF TakeAdded
<1>3. CASE c.step = "read"
  <2> DEFINE call == Ask("list", c.sheet)
  <2>1. c.sheet \in ListedIds
    BY <1>1 DEF DrawerInv, CallsSound, CallSound
  <2>2. call \in ListCalls /\ call.kind = "list" /\ call.step = "sent"
    BY <2>1, AskFacts
  <2>3. asked' = (asked \ {c}) \cup {call}
    BY <1>3 DEF TakeAdded
  <2> HIDE DEF call
  <2>4. CallSound(call)
    BY <2>2 DEF CallSound, WaiverKinds
  <2>5. SameSheets
    BY <1>1 DEF SameSheets, OtherSheets
  <2>6. ListsTyped' /\ SheetShown'
    BY <1>1, <2>2, <2>3 DEF DrawerInv, ListsTyped, SheetShown
  <2>7. RowsDerived'
    BY <1>1, <2>6, RowsFollow DEF DrawerInv, ListsTyped, Desks, DeskMoves
  <2>8. CallsSound'
    <3>1. Single(asked')
      BY <2>2, <2>3 DEF DrawerInv, CallsSound, Single
    <3>2. \A e \in asked' : e \in asked \/ CallSound(e)
      BY <2>3, <2>4
    <3>3. QED
      BY <2>5, <3>1, <3>2, CallsFrame DEF DrawerInv
  <2>9. WaiversTrue'
    BY <1>1, <2>2, <2>3, WaiversFrame DEF DrawerInv, WaiverKinds
  <2>10. OthersTrue'
    <3>1. (ReadingOthers => ReadingOthers') /\ (Removing => Removing')
      BY <1>1, <2>3 DEF ReadingOthers, Removing
    <3>2. QED
      BY <1>1, <2>2, <2>3, <2>5, <3>1, OthersFrame DEF DrawerInv
  <2>11. QED
    BY <2>6, <2>7, <2>8, <2>9, <2>10 DEF DrawerInv
<1>4. QED
  BY <1>1, <1>2, <1>3

LEMMA TakeListKeeps == ASSUME DrawerInv, NEW c \in asked, TakeList(c) PROVE DrawerInv'
<1>1. c.kind = "list" /\ c.step \in {"read", "failed"} /\ UNCHANGED filed
  BY DEF TakeList
<1>2. CASE c.step = "failed"
  BY <1>1, <1>2, DoneKeeps DEF TakeList
<1>3. CASE c.step = "read"
  <2> DEFINE calls == asked \ {c}
  <2>1. c.sheets \in Orders
    BY <1>1, <1>3 DEF DrawerInv, CallsSound, CallSound
  <2>2. calls \in SUBSET ListCalls /\ (\A e \in calls : CallSound(e)) /\ Single(calls)
    BY DEF DrawerInv, ListsTyped, CallsSound, Single
  <2>3. CASE c.sheet \in Listed(c.sheets) \ {desk.sheet}
    <3>1. Opening(c.sheets, c.sheet, calls)
      BY <1>3, <2>3 DEF TakeList
    <3> HIDE DEF calls
    <3>2. QED
      BY <1>1, <2>1, <2>2, <2>3, <3>1, OpeningKeeps
  <2>4. CASE c.sheet \notin Listed(c.sheets) \ {desk.sheet}
    <3>1. Relisted(c.sheets, asked \ {c})
      BY <1>3, <2>4 DEF TakeList
    <3>2. QED
      BY <1>1, <2>1, <3>1, RelistedKeeps
  <2>5. QED
    BY <2>3, <2>4
<1>4. QED
  BY <1>1, <1>2, <1>3

LEMMA DrawerKeeps == DrawerInv /\ [ListsNext]_drawerVars => DrawerInv'
<1> SUFFICES ASSUME DrawerInv, [ListsNext]_drawerVars PROVE DrawerInv'
  OBVIOUS
<1>1. CASE \E s \in ListedIds : ShowSheet(s)
  BY <1>1, ShowKeeps
<1>2. CASE ToggleLists
  BY <1>2, ToggleKeeps
<1>3. CASE \E ref \in ConnectorRefs \cup {NoRef}, zone \in Zones : EditOpenSheet(Document(0, ref, zone))
  <2>1. PICK ref \in ConnectorRefs \cup {NoRef}, zone \in Zones : EditOpenSheet(Document(0, ref, zone))
    BY <1>3
  <2>2. Document(0, ref, zone) \in SheetDocs
    BY DEF Document, SheetDocs
  <2>3. QED
    BY <2>1, <2>2, EditKeeps
<1>4. CASE SaveOpenSheet
  BY <1>4, SaveKeeps
<1>5. CASE \E row \in drawer.rows : CommitCells(row)
  BY <1>5, CommitKeeps
<1>6. CASE \/ AskWaiver("waive") \/ AskWaiver("unwaive") \/ RemoveOpenSheet
           \/ \E s \in ListedIds : AddToDrawing(s)
  BY <1>6, AskKeeps
<1>7. ASSUME NEW c \in asked,
             \/ HandleRead(c) \/ HandleLoad(c) \/ HandleWrite(c) \/ LoseCall(c)
             \/ TakeDocument(c) \/ TakeOthers(c) \/ TakeWaivers(c) \/ TakeStored(c) \/ TakeWaived(c)
             \/ TakeRemoved(c) \/ TakeAdded(c) \/ TakeList(c)
      PROVE  DrawerInv'
  BY <1>7, ReadKeeps, LoadKeeps, WriteKeeps, LoseKeeps, TakeDocumentKeeps, TakeOthersKeeps, TakeWaiversKeeps,
     TakeStoredKeeps, TakeWaivedKeeps, TakeRemovedKeeps, TakeAddedKeeps, TakeListKeeps
<1>8. CASE UNCHANGED drawerVars
  <2>1. UNCHANGED <<filed, desk, drawer, asked, astray>>
    BY <1>8 DEF drawerVars
  <2>2. SameSheets
    BY <2>1 DEF SameSheets, OtherSheets
  <2>3. ListsTyped' /\ SheetShown'
    BY <2>1 DEF DrawerInv, ListsTyped, SheetShown
  <2>4. RowsDerived'
    BY <2>1, <2>3, RowsFollow DEF DrawerInv, ListsTyped, Desks, DeskMoves
  <2>5. CallsSound'
    BY <2>1, <2>2, CallsFrame DEF DrawerInv, CallsSound, Single
  <2>6. WaiversTrue'
    BY <2>1, WaiversFrame DEF DrawerInv
  <2>7. OthersTrue'
    <3>1. (ReadingOthers => ReadingOthers') /\ (Removing => Removing')
      BY <2>1 DEF ReadingOthers, Removing
    <3>2. QED
      BY <2>1, <2>2, <3>1, OthersFrame DEF DrawerInv
  <2>8. QED
    BY <2>3, <2>4, <2>5, <2>6, <2>7 DEF DrawerInv
<1>9. QED
  BY <1>1, <1>2, <1>3, <1>4, <1>5, <1>6, <1>7, <1>8 DEF ListsNext

\* With no call under way and nothing read while it was written, the lists drawer shows every
\* sheet of the drawing once and as it is, with the cross-references that hold, and the waivers
\* stored, however many sheets and references there are and however long the user goes on
\* (DraftingPage.tsx, ListsDrawer.tsx).
THEOREM QuietDrawer == ListsSpec => []QuietDrawerIsCurrent
<1>1. ListsInit => DrawerInv
  BY ListsStart
<1>2. DrawerInv /\ [ListsNext]_drawerVars => DrawerInv'
  BY DrawerKeeps
<1>3. DrawerInv => QuietDrawerIsCurrent
  BY QuietFollows
<1>4. QED
  BY <1>1, <1>2, <1>3, PTL DEF ListsSpec

=============================================================================
