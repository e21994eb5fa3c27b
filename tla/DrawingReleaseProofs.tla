------------------------ MODULE DrawingReleaseProofs ------------------------
(***************************************************************************)
(* Theorems about DrawingRelease, for every finite set of sheets and any   *)
(* drawings, documents, parts, findings and bound on the revisions.        *)
(***************************************************************************)
EXTENDS DrawingRelease, FiniteSetTheorems, SequenceTheorems, TLAPS

\* Steps that change only rows of sheets.
SheetStep ==
    \/ \E d \in Drawings, s \in Sheets, t \in Texts, c \in Documents : CreateSheet(d, s, t, c)
    \/ \E s \in Sheets, t \in Texts \cup {Absent}, c \in Documents \cup {Absent},
          drc \in (SUBSET FindingKeys) \cup {Absent} :
          \E ix \in {Absent, IndexOf(s, c)} : SaveSheet(s, t, c, ix, drc, TRUE)
    \/ \E s \in Sheets : DeleteSheet(s)
    \/ \E s \in Sheets, k \in FindingKeys : Waive(s, k) \/ Unwaive(s, k)

\* Steps that change only rows of drawings and their revisions.
RevisionStep == \E d \in Drawings :
    \/ \E y \in Systems \cup {Null}, t \in Texts : UpdateDrawing(d, y, t)
    \/ \E t \in Texts : CreateRevision(d, t)
    \/ \E n \in 1..Current(d), t \in Texts : UpdateRevision(d, n, t)
    \/ Submit(d)
    \/ Withdraw(d)
    \/ Release(d)

\* Steps that change rows of both tables.
DrawingStep == \E d \in Drawings :
    \/ \E s \in Sheets, t \in Texts, c \in Documents, j \in Projects :
          \E y \in SystemsOf(j) : CreateDrawing(d, s, j, y, t, c)
    \/ DeleteDrawing(d)
    \/ \E t \in Texts : Revise(d, t)

\* Steps that reach the sheets through the parts and requirements, or not at all.
FlagStep ==
    \/ \E p \in Parts : CatalogRequest(p)
    \/ \E r \in Requirements : RequirementRequest(r)
    \/ \E j \in Projects : CreateProject(j)

\* Steps that reach the drawings through what they belong to.
RemovalStep ==
    \/ \E j \in Projects : DeleteProject(j)
    \/ \E y \in Systems : DeleteSystem(y)

LEMMA NextCases == Next => SheetStep \/ RevisionStep \/ DrawingStep \/ FlagStep \/ RemovalStep
  BY DEF Next, SheetRequest, DrawingRequest, SheetStep, RevisionStep, DrawingStep, FlagStep,
         RemovalStep

-----------------------------------------------------------------------------
(* Rows as the handlers build them.                                        *)

LEMMA AnyTextType == AnyText \in Texts
  BY ConstantsAssumption DEF AnyText

LEMMA FreeSheetType == FreeSheet \in SheetRow
  BY AnyTextType, ConstantsAssumption DEF FreeSheet, SheetRow

LEMMA NoRowType == NoRow \in DrawingRow
  BY AnyTextType DEF NoRow, DrawingRow

LEMMA NewRevisionType ==
    ASSUME NEW t \in Texts
    PROVE  NewRevision(t) \in Revision
  BY DEF NewRevision, Revision, Status

LEMMA NewSheetType ==
    ASSUME NEW d \in Drawings, NEW no \in Nat, NEW t \in Texts, NEW c \in Documents
    PROVE  NewSheet(d, no, t, c) \in SheetRow
  BY AnyTextType DEF NewSheet, FreeSheet, SheetRow, NeedsIndex

LEMMA SavedRowType ==
    ASSUME TypeOK, NEW row \in SheetRow, NEW t \in Texts \cup {Absent},
           NEW c \in Documents \cup {Absent}, NEW ix \in (SUBSET Parts) \cup {Absent},
           NEW drc \in (SUBSET FindingKeys) \cup {Absent}, NEW current \in BOOLEAN
    PROVE  SavedRow(row, t, c, ix, drc, current) \in SheetRow
<1> DEFINE complete == ix # Absent /\ drc # Absent
           partial  == ~complete /\ (c # Absent \/ ix # Absent \/ drc # Absent)
           title    == IF t = Absent THEN row.title ELSE t
           doc      == IF c = Absent THEN row.doc ELSE c
           index    == IF ix = Absent THEN row.index ELSE ix \cap listed
           findings == IF drc = Absent THEN row.findings ELSE drc
           cites    == IF drc = Absent THEN row.cites ELSE {k \in drc : RequirementOf[k] \in listed}
           stale    == ~complete /\ (partial \/ row.stale)
           derived  == IF complete THEN current ELSE ~partial /\ row.derived
<1>1. /\ title \in Texts
      /\ doc \in Documents
      /\ index \in SUBSET Parts
      /\ findings \in SUBSET FindingKeys
      /\ cites \in SUBSET FindingKeys
  BY DEF SheetRow
<1>2. stale \in BOOLEAN /\ derived \in BOOLEAN
  BY DEF SheetRow
<1>3. SavedRow(row, t, c, ix, drc, current) =
        [row EXCEPT !.title = title, !.doc = doc, !.index = index, !.findings = findings,
                    !.cites = cites, !.stale = stale, !.derived = derived]
  BY Zenon DEF SavedRow
<1> HIDE DEF title, doc, index, findings, cites, stale, derived
<1>4. [row EXCEPT !.title = title, !.doc = doc, !.index = index, !.findings = findings,
                  !.cites = cites, !.stale = stale, !.derived = derived] \in SheetRow
  BY <1>1, <1>2 DEF SheetRow
<1>5. QED
  BY <1>3, <1>4

LEMMA NextNoType ==
    ASSUME TypeOK, NEW d \in Drawings
    PROVE  NextNo(d) \subseteq Nat
  BY DEF TypeOK, NextNo, SheetsOf, SheetRow

\* Replacing an entry of a sequence, or nothing when n is out of range, keeps its type.
LEMMA RowReplaced ==
    ASSUME NEW S, NEW rows \in Seq(S), NEW n, NEW row, n \in 1..Len(rows) => row \in S
    PROVE  [rows EXCEPT ![n] = row] \in Seq(S)
<1>1. CASE n \in 1..Len(rows)
  BY <1>1, ExceptSeq
<1>2. CASE n \notin 1..Len(rows)
  <2>1. rows \in [1..Len(rows) -> S]
    BY LenProperties
  <2>2. [rows EXCEPT ![n] = row] = rows
    BY <1>2, <2>1
  <2>3. QED
    BY <2>2
<1>3. QED
  BY <1>1, <1>2

LEMMA ContentType ==
    ASSUME TypeOK, NEW d \in Drawings, NEW t \in Texts
    PROVE  Content(d, t) \in Snapshot
<1>1. \A s \in Sheets : Copy(sheets[s]) \in SheetCopy
  BY DEF TypeOK, Copy, SheetCopy, SheetRow
<1>2. drawings[d].title \in Texts
  BY DEF TypeOK, DrawingRow
<1>3. Links(d) \subseteq Systems \cup (Sheets \X FindingKeys)
  BY DEF TypeOK, DrawingRow, Links, SheetsOf
<1>4. QED
  BY <1>1, <1>2, <1>3 DEF Content, Snapshot

\* The current revision of a drawing is one of its revisions.
LEMMA CurrentType ==
    ASSUME TypeOK, NEW d \in Drawings
    PROVE  /\ drawings[d].revs \in Seq(Revision)
           /\ Current(d) \in Nat
           /\ \A n \in 1..Current(d) : drawings[d].revs[n] \in Revision
           /\ Current(d) > 0 => CurrentRevision(d) \in Revision
  BY DEF TypeOK, DrawingRow, Current, CurrentRevision

-----------------------------------------------------------------------------
(* Type correctness.                                                       *)

LEMMA InitTypeOK == Init => TypeOK
  BY FreeSheetType, NoRowType DEF Init, TypeOK

LEMMA SheetStepTypeOK ==
    ASSUME TypeOK, SheetStep
    PROVE  TypeOK'
<1>1. ASSUME NEW d \in Drawings, NEW s \in Sheets, NEW t \in Texts, NEW c \in Documents,
             CreateSheet(d, s, t, c)
      PROVE  TypeOK'
  BY <1>1, NextNoType, NewSheetType DEF CreateSheet, TypeOK
<1>2. ASSUME NEW s \in Sheets, NEW t \in Texts \cup {Absent}, NEW c \in Documents \cup {Absent},
             NEW drc \in (SUBSET FindingKeys) \cup {Absent},
             NEW ix \in {Absent, IndexOf(s, c)}, SaveSheet(s, t, c, ix, drc, TRUE)
      PROVE  TypeOK'
  <2>1. ix \in (SUBSET Parts) \cup {Absent}
    BY ConstantsAssumption DEF IndexOf, TypeOK, SheetRow
  <2>2. SavedRow(sheets[s], t, c, ix, drc, TRUE) \in SheetRow
    BY <2>1, SavedRowType DEF TypeOK
  <2>3. QED
    BY <1>2, <2>2 DEF SaveSheet, TypeOK
<1>3. ASSUME NEW s \in Sheets, DeleteSheet(s)
      PROVE  TypeOK'
  <2> DEFINE rest == SheetsOf(sheets[s].drawing) \ {s}
             below(r) == {q \in rest : sheets[q].no < sheets[r].no}
  <2>1. \A r \in Sheets : Cardinality(below(r)) \in Nat
    <3> TAKE r \in Sheets
    <3>1. IsFiniteSet(below(r))
      BY FS_Subset, ConstantsAssumption DEF SheetsOf
    <3>2. QED
      BY <3>1, FS_CardinalityType
  <2>2. \A r \in Sheets : [sheets[r] EXCEPT !.no = 1 + Cardinality(below(r))] \in SheetRow
    BY <2>1 DEF TypeOK, SheetRow
  <2>3. QED
    BY <1>3, <2>2, FreeSheetType DEF DeleteSheet, TypeOK
<1>4. ASSUME NEW s \in Sheets, NEW k \in FindingKeys, Waive(s, k) \/ Unwaive(s, k)
      PROVE  TypeOK'
  BY <1>4 DEF Waive, Unwaive, TypeOK, SheetRow
<1>5. QED
  BY <1>1, <1>2, <1>3, <1>4 DEF SheetStep

LEMMA RevisionStepTypeOK ==
    ASSUME TypeOK, RevisionStep
    PROVE  TypeOK'
<1>1. ASSUME NEW d \in Drawings, NEW y \in Systems \cup {Null}, NEW t \in Texts,
             UpdateDrawing(d, y, t)
      PROVE  TypeOK'
  BY <1>1 DEF UpdateDrawing, TypeOK, DrawingRow
<1>2. ASSUME NEW d \in Drawings, NEW t \in Texts, CreateRevision(d, t)
      PROVE  TypeOK'
  <2>1. Append(drawings[d].revs, NewRevision(t)) \in Seq(Revision)
    BY NewRevisionType, CurrentType
  <2>2. QED
    BY <1>2, <2>1 DEF CreateRevision, TypeOK, DrawingRow
<1>3. ASSUME NEW d \in Drawings, NEW n \in 1..Current(d), NEW t \in Texts,
             UpdateRevision(d, n, t)
      PROVE  TypeOK'
  <2>1. [drawings[d].revs[n] EXCEPT !.text = t] \in Revision
    BY CurrentType DEF Revision
  <2>2. [drawings[d].revs EXCEPT ![n].text = t] \in Seq(Revision)
    BY <2>1, CurrentType DEF Current
  <2>3. QED
    BY <1>3, <2>2 DEF UpdateRevision, TypeOK, DrawingRow
<1>4. ASSUME NEW d \in Drawings, Submit(d) \/ Withdraw(d)
      PROVE  TypeOK'
  <2>1. PICK status \in Status : SetStatus(d, status) /\ UNCHANGED <<sheets, listed>>
    BY <1>4 DEF Submit, Withdraw, Status
  <2>2. Current(d) \in 1..Current(d) =>
          [drawings[d].revs[Current(d)] EXCEPT !.status = status] \in Revision
    BY CurrentType DEF Revision
  <2>3. [drawings[d].revs EXCEPT ![Current(d)].status = status] \in Seq(Revision)
    BY <2>2, CurrentType, RowReplaced DEF Current
  <2>4. QED
    BY <2>1, <2>3 DEF SetStatus, TypeOK, DrawingRow
<1>5. ASSUME NEW d \in Drawings, Release(d)
      PROVE  TypeOK'
  <2>1. Current(d) \in 1..Current(d) => Filed(d) \in Revision
    BY CurrentType, ContentType DEF Filed, Revision, Status, CurrentRevision
  <2>2. [drawings[d].revs EXCEPT ![Current(d)] = Filed(d)] \in Seq(Revision)
    BY <2>1, CurrentType, RowReplaced DEF Current
  <2>3. QED
    BY <1>5, <2>2 DEF Release, TypeOK, DrawingRow, Status
<1>6. QED
  BY <1>1, <1>2, <1>3, <1>4, <1>5 DEF RevisionStep

LEMMA DrawingStepTypeOK ==
    ASSUME TypeOK, DrawingStep
    PROVE  TypeOK'
<1>1. ASSUME NEW d \in Drawings, NEW s \in Sheets, NEW t \in Texts, NEW c \in Documents,
             NEW j \in Projects, NEW y \in SystemsOf(j), CreateDrawing(d, s, j, y, t, c)
      PROVE  TypeOK'
  <2>1. <<NewRevision(t)>> \in Seq(Revision)
    BY NewRevisionType
  <2>2. [status |-> "draft", project |-> j, system |-> y, title |-> t,
         revs |-> <<NewRevision(t)>>] \in DrawingRow
    BY <2>1 DEF DrawingRow, Status, SystemsOf
  <2>3. QED
    BY <1>1, <2>2, NewSheetType DEF CreateDrawing, TypeOK
<1>2. ASSUME NEW d \in Drawings, DeleteDrawing(d)
      PROVE  TypeOK'
  BY <1>2, FreeSheetType, NoRowType DEF DeleteDrawing, TypeOK
<1>3. ASSUME NEW d \in Drawings, NEW t \in Texts, Revise(d, t)
      PROVE  TypeOK'
  <2>1. drawings' \in [Drawings -> DrawingRow]
    BY <1>3, NewRevisionType DEF Revise, TypeOK, DrawingRow, Status
  <2>2. \A s \in Sheets : [sheets[s] EXCEPT !.stale = TRUE] \in SheetRow
    BY DEF TypeOK, SheetRow
  <2>3. QED
    BY <1>3, <2>1, <2>2 DEF Revise, TypeOK
<1>4. QED
  BY <1>1, <1>2, <1>3 DEF DrawingStep

\* The rows after a step that flags the sheets in marked and makes those in touched no
\* longer match: all else stays, except that findings may stop naming their requirement.
RowsFlagged(marked, touched) == \A s \in Sheets :
    /\ sheets'[s] \in SheetRow
    /\ sheets'[s].drawing = sheets[s].drawing
    /\ Copy(sheets'[s]) = Copy(sheets[s])
    /\ sheets'[s].cites \subseteq sheets[s].cites
    /\ sheets'[s].stale = (sheets[s].stale \/ s \in marked)
    /\ sheets'[s].derived = (sheets[s].derived /\ s \notin touched)

LEMMA FlagSheetsRows ==
    ASSUME TypeOK, NEW marked, NEW touched, FlagSheets(marked, touched)
    PROVE  RowsFlagged(marked, touched) /\ sheets' \in [Sheets -> SheetRow]
<1>1. \A s \in Sheets : Flagged(s, marked, touched) \in SheetRow
  BY DEF Flagged, TypeOK, SheetRow
<1>2. QED
  BY <1>1 DEF FlagSheets, Flagged, RowsFlagged, Copy, TypeOK, SheetRow

LEMMA CreateRequirementRows ==
    ASSUME TypeOK, NEW r \in Requirements, NEW constrained \in BOOLEAN,
           CreateRequirement(r, constrained)
    PROVE  /\ RowsFlagged(IF constrained THEN MarkedFor(r) ELSE {},
                          IF constrained THEN SheetsUnder(ProjectOf[r]) ELSE {})
           /\ sheets' \in [Sheets -> SheetRow]
<1>1. CASE constrained
  BY <1>1, FlagSheetsRows DEF CreateRequirement
<1>2. CASE ~constrained
  BY <1>2 DEF CreateRequirement, RowsFlagged, TypeOK, SheetRow
<1>3. QED
  BY <1>1, <1>2

LEMMA DeleteRequirementRows ==
    ASSUME TypeOK, NEW r \in Requirements, NEW constrained \in BOOLEAN,
           DeleteRequirement(r, constrained)
    PROVE  /\ RowsFlagged(IF constrained THEN MarkedFor(r) ELSE {},
                          IF constrained THEN SheetsUnder(ProjectOf[r]) ELSE {})
           /\ sheets' \in [Sheets -> SheetRow]
<1> DEFINE marked  == IF constrained THEN MarkedFor(r) ELSE {}
           touched == IF constrained THEN SheetsUnder(ProjectOf[r]) ELSE {}
           row(s)  == [Flagged(s, marked, touched) EXCEPT !.cites = Citing(sheets[s], {r})]
<1>1. sheets' = [s \in Sheets |-> row(s)]
  BY DEF DeleteRequirement
<1> HIDE DEF marked, touched
<1>2. \A s \in Sheets : Citing(sheets[s], {r}) \subseteq sheets[s].cites
  BY DEF Citing
<1>3. \A s \in Sheets : row(s) \in SheetRow
  BY <1>2 DEF Flagged, TypeOK, SheetRow
<1>4. RowsFlagged(marked, touched)
  <2>1. \A s \in Sheets : sheets[s] \in SheetRow
    BY DEF TypeOK
  <2>2. ASSUME NEW s \in Sheets
        PROVE  /\ row(s).drawing = sheets[s].drawing
               /\ Copy(row(s)) = Copy(sheets[s])
               /\ row(s).cites = Citing(sheets[s], {r})
               /\ row(s).stale = (sheets[s].stale \/ s \in marked)
               /\ row(s).derived = (sheets[s].derived /\ s \notin touched)
    BY <2>1 DEF Flagged, Copy, SheetRow
  <2>3. \A s \in Sheets : sheets'[s] = row(s)
    BY <1>1
  <2> HIDE DEF row
  <2>4. QED
    BY <1>2, <1>3, <2>2, <2>3 DEF RowsFlagged
<1>5. QED
  BY <1>1, <1>3, <1>4 DEF marked, touched

LEMMA FlagStepTypeOK ==
    ASSUME TypeOK, FlagStep
    PROVE  TypeOK'
<1>1. ASSUME NEW p \in Parts, CatalogRequest(p)
      PROVE  TypeOK'
  BY <1>1, FlagSheetsRows DEF CatalogRequest, UpdatePart, ObsoletePart, DeletePart, TypeOK
<1>2. ASSUME NEW r \in Requirements, NEW constrained \in BOOLEAN,
             CreateRequirement(r, constrained)
      PROVE  TypeOK'
  BY <1>2, CreateRequirementRows DEF CreateRequirement, TypeOK
<1>3. ASSUME NEW r \in Requirements, NEW changed \in BOOLEAN, UpdateRequirement(r, changed)
      PROVE  TypeOK'
  BY <1>3, FlagSheetsRows DEF UpdateRequirement, TypeOK
<1>4. ASSUME NEW r \in Requirements, NEW constrained \in BOOLEAN,
             DeleteRequirement(r, constrained)
      PROVE  TypeOK'
  BY <1>4, DeleteRequirementRows DEF DeleteRequirement, TypeOK
<1>5. ASSUME NEW j \in Projects, CreateProject(j)
      PROVE  TypeOK'
  BY <1>5 DEF CreateProject, TypeOK
<1>6. QED
  BY <1>1, <1>2, <1>3, <1>4, <1>5 DEF FlagStep, RequirementRequest

\* The tables after a project is deleted, one drawing at a time and one sheet at a time.
LEMMA DeleteProjectRows ==
    ASSUME TypeOK, NEW j \in Projects, DeleteProject(j)
    PROVE  /\ TypeOK'
           /\ \A d \in Drawings :
                 drawings'[d] = IF drawings[d].project = j THEN NoRow ELSE drawings[d]
           /\ \A s \in SheetsUnder(j) : sheets'[s] = FreeSheet
           /\ \A s \in Sheets \ SheetsUnder(j) :
                 /\ sheets'[s].drawing = sheets[s].drawing
                 /\ Copy(sheets'[s]) = Copy(sheets[s])
                 /\ sheets'[s].cites \subseteq sheets[s].cites
                 /\ sheets'[s].stale = sheets[s].stale
                 /\ sheets'[s].derived = sheets[s].derived
<1> DEFINE gone == RequirementsOf(j)
           rest(s) == [sheets[s] EXCEPT !.cites = Citing(sheets[s], gone)]
<1>1. \A s \in Sheets : Citing(sheets[s], gone) \subseteq sheets[s].cites
  BY DEF Citing
<1>2. \A s \in Sheets : rest(s) \in SheetRow
  BY <1>1 DEF TypeOK, SheetRow
<1>3. \A s \in Sheets : (\E d \in Drawings : drawings[d].project = j /\ s \in SheetsOf(d))
                            <=> s \in SheetsUnder(j)
  BY ConstantsAssumption DEF SheetsOf, SheetsUnder, InUse, TypeOK, SheetRow
<1>4. sheets' = [s \in Sheets |-> IF s \in SheetsUnder(j) THEN FreeSheet ELSE rest(s)]
  BY <1>3 DEF DeleteProject
<1>5. sheets' \in [Sheets -> SheetRow]
  BY <1>2, <1>4, FreeSheetType
<1>6. \A s \in SheetsUnder(j) : sheets'[s] = FreeSheet
  BY <1>4 DEF SheetsUnder
<1>7. \A s \in Sheets \ SheetsUnder(j) :
         /\ sheets'[s].drawing = sheets[s].drawing
         /\ Copy(sheets'[s]) = Copy(sheets[s])
         /\ sheets'[s].cites \subseteq sheets[s].cites
         /\ sheets'[s].stale = sheets[s].stale
         /\ sheets'[s].derived = sheets[s].derived
  BY <1>1, <1>4 DEF Copy, TypeOK, SheetRow
<1>8. drawings' = [d \in Drawings |-> IF drawings[d].project = j THEN NoRow ELSE drawings[d]]
      /\ listed' \subseteq listed
  BY DEF DeleteProject
<1>9. QED
  BY <1>5, <1>6, <1>7, <1>8, NoRowType DEF TypeOK

\* What a deleted system leaves of a drawing: at most the system is gone from it.
RowFades(d) == \E y \in {drawings[d].system, Null} :
    drawings'[d] = [drawings[d] EXCEPT !.system = y]

LEMMA RowKeptFades ==
    ASSUME TypeOK, NEW d \in Drawings, drawings'[d] = drawings[d]
    PROVE  RowFades(d)
  BY DEF RowFades, TypeOK, DrawingRow

LEMMA RowFaded ==
    ASSUME TypeOK, NEW d \in Drawings, RowFades(d)
    PROVE  /\ drawings'[d] \in DrawingRow
           /\ drawings'[d].status = drawings[d].status
           /\ drawings'[d].project = drawings[d].project
           /\ drawings'[d].title = drawings[d].title
           /\ drawings'[d].revs = drawings[d].revs
           /\ drawings'[d].system \in {drawings[d].system, Null}
  BY DEF RowFades, TypeOK, DrawingRow

LEMMA DeleteSystemRows ==
    ASSUME TypeOK, NEW y \in Systems, DeleteSystem(y)
    PROVE  TypeOK' /\ \A d \in Drawings : RowFades(d)
<1>1. \A d \in Drawings : RowFades(d)
  BY DEF DeleteSystem, RowFades, TypeOK, DrawingRow
<1>2. \A d \in Drawings : drawings'[d] \in DrawingRow
  BY <1>1, RowFaded
<1>3. QED
  BY <1>1, <1>2 DEF DeleteSystem, TypeOK

LEMMA RemovalStepTypeOK ==
    ASSUME TypeOK, RemovalStep
    PROVE  TypeOK'
  BY DeleteProjectRows, DeleteSystemRows DEF RemovalStep

\* The tables always hold rows of their types, for any constants.
THEOREM TypeCorrect == Spec => []TypeOK
<1>1. TypeOK /\ [Next]_vars => TypeOK'
  BY NextCases, SheetStepTypeOK, RevisionStepTypeOK, DrawingStepTypeOK, FlagStepTypeOK,
     RemovalStepTypeOK DEF vars, TypeOK
<1>2. QED
  BY InitTypeOK, <1>1, PTL DEF Spec

-----------------------------------------------------------------------------
(* The release workflow.                                                   *)

\* What the three release invariants say of one drawing.
RevisionsSound(d) ==
    /\ \A n \in 1..Current(d) : drawings[d].revs[n].status = "released"
                                 <=> drawings[d].revs[n].snapshot # NoSnapshot
    /\ Exists(d) <=> Current(d) > 0
    /\ Editable(d) => CurrentRevision(d).status # "released"

Baselined(d) ==
    drawings[d].status = "released" =>
        /\ NoBlockers(d)
        /\ CurrentRevision(d).status = "released"
        /\ Promise!Loses(CurrentRevision(d).snapshot, Content(d, CurrentRevision(d).text))

ReleaseInv == \A d \in Drawings : RevisionsSound(d) /\ Baselined(d)

LEMMA ReleaseInvMeaning ==
    ReleaseInv <=> ReleasedIsClean /\ SnapshotIsLive /\ ReleasedRevisionsHaveSnapshots
  BY DEF ReleaseInv, RevisionsSound, Baselined, ReleasedIsClean, SnapshotIsLive,
         ReleasedRevisionsHaveSnapshots

\* A step that leaves alone which sheets d has and what is copied of them, except that
\* findings may stop naming their requirement.
SheetsFade(d) == \A s \in Sheets :
    /\ sheets'[s].drawing = d <=> sheets[s].drawing = d
    /\ sheets[s].drawing = d => /\ Copy(sheets'[s]) = Copy(sheets[s])
                               /\ sheets'[s].cites \subseteq sheets[s].cites

\* It leaves alone all that a release of d looks at: their flags as well.
SheetsKept(d) ==
    /\ SheetsFade(d)
    /\ \A s \in Sheets : sheets[s].drawing = d => sheets'[s].stale = sheets[s].stale

LEMMA LosesMore ==
    ASSUME NEW c \in Snapshot, NEW e, NEW f, Promise!Loses(c, e), Promise!Loses(e, f)
    PROVE  Promise!Loses(c, f)
  BY DEF Promise!Loses, Snapshot

LEMMA ContentFades ==
    ASSUME TypeOK, NEW d \in Drawings, RowFades(d), SheetsFade(d), NEW t
    PROVE  Promise!Loses(Content(d, t), Content(d, t)')
<1>1. SheetsOf(d)' = SheetsOf(d)
  BY DEF SheetsFade, SheetsOf
<1>2. drawings'[d].title = drawings[d].title
  BY RowFaded
<1>3. [s \in Sheets |-> IF s \in SheetsOf(d) THEN Copy(sheets[s]) ELSE Absent]'
        = [s \in Sheets |-> IF s \in SheetsOf(d) THEN Copy(sheets[s]) ELSE Absent]
  BY <1>1 DEF SheetsFade, SheetsOf
<1>4. Links(d)' \subseteq Links(d)
  <2>1. {drawings'[d].system} \ {Null} \subseteq {drawings[d].system} \ {Null}
    BY RowFaded
  <2>2. \A s \in SheetsOf(d) : sheets'[s].cites \subseteq sheets[s].cites
    BY DEF SheetsFade, SheetsOf
  <2>3. \A link \in SheetsOf(d) \X FindingKeys :
           link[2] \in sheets'[link[1]].cites => link[2] \in sheets[link[1]].cites
    BY <2>2
  <2>4. QED
    BY <1>1, <2>1, <2>3 DEF Links
<1>5. QED
  BY <1>2, <1>3, <1>4 DEF Content, Promise!Loses

LEMMA BaselineKept ==
    ASSUME TypeOK, NEW d \in Drawings, SheetsKept(d), RowFades(d),
           RevisionsSound(d), Baselined(d)
    PROVE  RevisionsSound(d)' /\ Baselined(d)'
<1>1. SheetsOf(d)' = SheetsOf(d)
  BY DEF SheetsKept, SheetsFade, SheetsOf
<1>2. \A s \in SheetsOf(d) : OpenErrors(s)' = OpenErrors(s)
  BY DEF SheetsKept, SheetsFade, SheetsOf, OpenErrors, Copy
<1>3. NoBlockers(d)' <=> NoBlockers(d)
  BY <1>1, <1>2 DEF NoBlockers, SheetsKept, SheetsOf
<1>4. /\ drawings'[d].status = drawings[d].status
      /\ Current(d)' = Current(d) /\ CurrentRevision(d)' = CurrentRevision(d)
      /\ \A n : drawings'[d].revs[n] = drawings[d].revs[n]
  BY RowFaded DEF Current, CurrentRevision
<1>5. RevisionsSound(d)'
  BY <1>4 DEF RevisionsSound, Exists, Editable
<1>6. ASSUME drawings[d].status = "released", NEW t, t = CurrentRevision(d).text
      PROVE  Promise!Loses(CurrentRevision(d).snapshot, Content(d, t)')
  <2>1. CurrentRevision(d).snapshot \in Snapshot
    BY <1>6, CurrentType DEF RevisionsSound, Baselined, Exists, CurrentRevision, Revision
  <2>2. Promise!Loses(CurrentRevision(d).snapshot, Content(d, t))
    BY <1>6 DEF Baselined
  <2>3. Promise!Loses(Content(d, t), Content(d, t)')
    BY ContentFades DEF SheetsKept
  <2>4. QED
    BY <2>1, <2>2, <2>3, LosesMore
<1>7. QED
  BY <1>3, <1>4, <1>5, <1>6 DEF Baselined

\* A request on the sheets refuses a released drawing, so it keeps the sheets of one.
LEMMA SheetStepKeeps ==
    ASSUME TypeOK, SheetStep, NEW d \in Drawings, drawings[d].status = "released"
    PROVE  SheetsKept(d) /\ drawings' = drawings
<1>1. ASSUME NEW e \in Drawings, NEW s \in Sheets, NEW t \in Texts, NEW c \in Documents,
             CreateSheet(e, s, t, c)
      PROVE  SheetsKept(d) /\ drawings' = drawings
  BY <1>1, ConstantsAssumption
     DEF CreateSheet, Editable, SheetsKept, SheetsFade, NewSheet, FreeSheet, TypeOK
<1>2. ASSUME NEW s \in Sheets, NEW t, NEW c, NEW drc, NEW ix,
             SaveSheet(s, t, c, ix, drc, TRUE)
      PROVE  SheetsKept(d) /\ drawings' = drawings
  <2>1. SavedRow(sheets[s], t, c, ix, drc, TRUE).drawing = sheets[s].drawing
    BY DEF SavedRow, TypeOK, SheetRow
  <2>2. QED
    BY <1>2, <2>1 DEF SaveSheet, Editable, SheetsKept, SheetsFade, TypeOK
<1>3. ASSUME NEW s \in Sheets, DeleteSheet(s)
      PROVE  SheetsKept(d) /\ drawings' = drawings
  <2>1. sheets[s].drawing # d /\ sheets'[s].drawing # d /\ drawings' = drawings
    BY <1>3, ConstantsAssumption DEF DeleteSheet, Editable, FreeSheet
  <2>2. \A r \in Sheets : r # s /\ sheets[r].drawing = d => sheets'[r] = sheets[r]
    BY <1>3, <2>1 DEF DeleteSheet, SheetsOf, TypeOK
  <2>3. \A r \in Sheets : r # s => sheets'[r].drawing = sheets[r].drawing
    BY <1>3 DEF DeleteSheet, TypeOK, SheetRow
  <2>4. QED
    BY <2>1, <2>2, <2>3 DEF SheetsKept, SheetsFade
<1>4. ASSUME NEW s \in Sheets, NEW k \in FindingKeys, Waive(s, k) \/ Unwaive(s, k)
      PROVE  SheetsKept(d) /\ drawings' = drawings
  BY <1>4 DEF Waive, Unwaive, Editable, SheetsKept, SheetsFade, TypeOK, SheetRow
<1>5. QED
  BY <1>1, <1>2, <1>3, <1>4 DEF SheetStep

\* The mark_*_stale updates skip released drawings and touch no copied column; nor does
\* a requirement that is deleted.
LEMMA FlagStepFlags ==
    ASSUME TypeOK, FlagStep
    PROVE  \E marked, touched : RowsFlagged(marked, touched) /\ \A s \in marked : Markable(s)
<1>1. ASSUME NEW p \in Parts, CatalogRequest(p)
      PROVE  \E marked, touched : RowsFlagged(marked, touched) /\ \A s \in marked : Markable(s)
  <2>1. PICK marked, touched : FlagSheets(marked, touched) /\ \A s \in marked : Markable(s)
    <3>1. CASE UpdatePart(p)
      BY <3>1 DEF UpdatePart, AssignedOn
    <3>2. ASSUME NEW changed \in BOOLEAN, ObsoletePart(p, changed)
          PROVE  FlagSheets(AssignedOn(p), IF changed THEN DependOn(p) ELSE {})
                   /\ \A s \in AssignedOn(p) : Markable(s)
      BY <3>2 DEF ObsoletePart, AssignedOn
    <3>3. CASE DeletePart(p)
      BY <3>3 DEF DeletePart
    <3>4. QED
      BY <1>1, <3>1, <3>2, <3>3 DEF CatalogRequest
  <2>2. QED
    BY <2>1, FlagSheetsRows
<1>2. ASSUME NEW r \in Requirements, RequirementRequest(r)
      PROVE  \E marked, touched : RowsFlagged(marked, touched) /\ \A s \in marked : Markable(s)
  <2>1. \A s \in MarkedFor(r) : Markable(s)
    BY DEF MarkedFor
  <2>2. ASSUME NEW constrained \in BOOLEAN,
               CreateRequirement(r, constrained) \/ DeleteRequirement(r, constrained)
        PROVE  /\ RowsFlagged(IF constrained THEN MarkedFor(r) ELSE {},
                              IF constrained THEN SheetsUnder(ProjectOf[r]) ELSE {})
               /\ \A s \in (IF constrained THEN MarkedFor(r) ELSE {}) : Markable(s)
    BY <2>1, <2>2, CreateRequirementRows, DeleteRequirementRows
  <2>3. ASSUME NEW changed \in BOOLEAN, UpdateRequirement(r, changed)
        PROVE  RowsFlagged(MarkedFor(r), IF changed THEN SheetsUnder(ProjectOf[r]) ELSE {})
    BY <2>3, FlagSheetsRows DEF UpdateRequirement
  <2>4. QED
    BY <1>2, <2>1, <2>2, <2>3 DEF RequirementRequest
<1>3. ASSUME NEW j \in Projects, CreateProject(j)
      PROVE  RowsFlagged({}, {})
  BY <1>3 DEF CreateProject, RowsFlagged, TypeOK, SheetRow
<1>4. QED
  BY <1>1, <1>2, <1>3 DEF FlagStep

LEMMA FlagStepKeeps ==
    ASSUME TypeOK, FlagStep, NEW d \in Drawings, drawings[d].status = "released"
    PROVE  SheetsKept(d)
<1>1. PICK marked, touched : RowsFlagged(marked, touched) /\ \A s \in marked : Markable(s)
  BY FlagStepFlags
<1>2. \A s \in Sheets : sheets[s].drawing = d => s \notin marked
  BY <1>1 DEF Markable, Unreleased
<1>3. \A s \in Sheets : sheets[s].stale \in BOOLEAN
  BY DEF TypeOK, SheetRow
<1>4. QED
  BY <1>1, <1>2, <1>3 DEF RowsFlagged, SheetsKept, SheetsFade

\* A step after which every row of drawings is as it was, up to its system, and released
\* drawings have the sheets they had.
LEMMA KeepsRelease ==
    ASSUME TypeOK, ReleaseInv, \A d \in Drawings : RowFades(d),
           \A d \in Drawings : drawings[d].status = "released" => SheetsKept(d)
    PROVE  ReleaseInv'
<1>1. SUFFICES ASSUME NEW d \in Drawings
               PROVE  RevisionsSound(d)' /\ Baselined(d)'
  BY DEF ReleaseInv
<1>2. CASE drawings[d].status = "released"
  BY <1>2, BaselineKept DEF ReleaseInv
<1>3. CASE drawings[d].status # "released"
  BY <1>3, RowFaded DEF ReleaseInv, RevisionsSound, Baselined, Exists, Editable, Current,
              CurrentRevision
<1>4. QED
  BY <1>2, <1>3

\* The current revision replaced by row and the drawing set to status, as Submit,
\* Withdraw and Release write them.
ReplacesCurrent(d, status, row) ==
    drawings' = [drawings EXCEPT ![d].status = status, ![d].revs[Current(d)] = row]

\* Nothing else of the tables differs after it.
LEMMA CurrentReplaced ==
    ASSUME TypeOK, NEW d \in Drawings, Current(d) > 0, NEW row \in Revision, NEW status,
           ReplacesCurrent(d, status, row)
    PROVE  /\ drawings'[d].status = status
           /\ drawings'[d].project = drawings[d].project
           /\ drawings'[d].system = drawings[d].system
           /\ drawings'[d].title = drawings[d].title
           /\ Current(d)' = Current(d)
           /\ CurrentRevision(d)' = row
           /\ drawings'[d].revs[Current(d)] = row
           /\ \A n \in 1..Current(d) \ {Current(d)} :
                 drawings'[d].revs[n] = drawings[d].revs[n]
           /\ \A e \in Drawings \ {d} : drawings'[e] = drawings[e]
<1>1. drawings[d].revs \in Seq(Revision) /\ Current(d) \in 1..Len(drawings[d].revs)
  BY LenProperties DEF TypeOK, DrawingRow, Current
<1>2. drawings'[d].revs = [drawings[d].revs EXCEPT ![Current(d)] = row]
  BY DEF ReplacesCurrent, TypeOK, DrawingRow
<1>3. /\ Len(drawings'[d].revs) = Len(drawings[d].revs)
      /\ drawings'[d].revs[Current(d)] = row
      /\ \A n \in 1..Current(d) \ {Current(d)} :
            drawings'[d].revs[n] = drawings[d].revs[n]
  <2> DEFINE q == drawings[d].revs
             k == Current(d)
             r == [q EXCEPT ![k] = row]
  <2>1. q \in Seq(Revision) /\ k \in 1..Len(q)
    BY <1>1
  <2> HIDE DEF q, k
  <2>2. /\ Len(r) = Len(q) /\ r[k] = row
        /\ \A n \in 1..Len(q) : n # k => r[n] = q[n]
    BY <2>1, ExceptSeq, LenProperties
  <2>3. QED
    BY <1>2, <2>2 DEF q, k, Current
<1>4. QED
  BY <1>3 DEF ReplacesCurrent, TypeOK, DrawingRow, Current, CurrentRevision

\* Every handler of drawings and revisions that leaves the sheets alone keeps the
\* release invariant; Release establishes it for its drawing.
LEMMA RevisionStepRelease ==
    ASSUME TypeOK, ReleaseInv, RevisionStep
    PROVE  ReleaseInv'
<1>1. ASSUME NEW d \in Drawings, sheets' = sheets, drawings'[d] = drawings[d]
      PROVE  RevisionsSound(d)' /\ Baselined(d)'
  BY <1>1, BaselineKept, RowKeptFades DEF SheetsKept, SheetsFade, ReleaseInv
<1>2. ASSUME NEW d \in Drawings, NEW y \in Systems \cup {Null}, NEW t \in Texts,
             UpdateDrawing(d, y, t)
      PROVE  ReleaseInv'
  <2>1. RevisionsSound(d)' /\ Baselined(d)'
    BY <1>2 DEF ReleaseInv, RevisionsSound, Baselined, UpdateDrawing, Exists, Editable,
                Current, CurrentRevision, TypeOK, DrawingRow
  <2>2. QED
    BY <1>1, <1>2, <2>1 DEF UpdateDrawing, ReleaseInv, TypeOK
<1>3. ASSUME NEW d \in Drawings, NEW t \in Texts, CreateRevision(d, t)
      PROVE  ReleaseInv'
  <2>1. RevisionsSound(d)' /\ Baselined(d)'
    BY <1>3, CurrentType DEF ReleaseInv, RevisionsSound, Baselined, CreateRevision, NewRevision,
                Exists, Editable, Current, CurrentRevision, TypeOK, DrawingRow
  <2>2. QED
    BY <1>1, <1>3, <2>1 DEF CreateRevision, ReleaseInv, TypeOK
<1>4. ASSUME NEW d \in Drawings, NEW n \in 1..Current(d), NEW t \in Texts,
             UpdateRevision(d, n, t)
      PROVE  ReleaseInv'
  <2>1. RevisionsSound(d)' /\ Baselined(d)'
    BY <1>4, CurrentType DEF ReleaseInv, RevisionsSound, Baselined, UpdateRevision, Revision,
                Exists, Editable, Current, CurrentRevision, TypeOK, DrawingRow
  <2>2. QED
    BY <1>1, <1>4, <2>1 DEF UpdateRevision, ReleaseInv, TypeOK
<1>5. ASSUME NEW d \in Drawings, NEW status \in Status, SetStatus(d, status),
             Editable(d), status # "released", sheets' = sheets
      PROVE  ReleaseInv'
  <2> DEFINE row == [CurrentRevision(d) EXCEPT !.status = status]
  <2>1. Current(d) > 0 /\ CurrentRevision(d).snapshot = NoSnapshot
    BY <1>5, CurrentType DEF ReleaseInv, RevisionsSound, Editable, CurrentRevision
  <2>2. row \in Revision /\ row.status = status /\ row.snapshot = NoSnapshot
    BY <2>1, CurrentType DEF Revision
  <2>3. ReplacesCurrent(d, status, row)
    BY <1>5 DEF ReplacesCurrent, SetStatus, CurrentRevision
  <2> HIDE DEF row
  <2>4. RevisionsSound(d)'
    <3>1. \A n \in 1..Current(d) : drawings'[d].revs[n].status = "released"
                                      <=> drawings'[d].revs[n].snapshot # NoSnapshot
      BY <1>5, <2>1, <2>2, <2>3, CurrentReplaced DEF ReleaseInv, RevisionsSound
    <3>2. QED
      BY <1>5, <2>1, <2>2, <2>3, <3>1, CurrentReplaced
         DEF RevisionsSound, Editable, Exists, Status
  <2>5. Baselined(d)'
    BY <1>5, <2>1, <2>2, <2>3, CurrentReplaced DEF Baselined
  <2>6. QED
    BY <1>1, <1>5, <2>1, <2>2, <2>3, <2>4, <2>5, CurrentReplaced DEF ReleaseInv
<1>6. ASSUME NEW d \in Drawings, Release(d)
      PROVE  ReleaseInv'
  <2>1. Current(d) > 0 /\ sheets' = sheets
    BY <1>6 DEF ReleaseInv, RevisionsSound, Release, Editable
  <2>2. CurrentRevision(d).text \in Texts
    BY <2>1, CurrentType DEF Revision
  <2>3. /\ Filed(d) \in Revision /\ Filed(d).status = "released"
        /\ Filed(d).text = CurrentRevision(d).text
        /\ Filed(d).snapshot = Content(d, CurrentRevision(d).text)
        /\ Filed(d).snapshot # NoSnapshot
    BY <2>1, <2>2, CurrentType, ContentType, NoSnapshotAssumption DEF Filed, Revision, Status
  <2>4. ReplacesCurrent(d, "released", Filed(d))
    BY <1>6 DEF ReplacesCurrent, Release
  <2>5. RevisionsSound(d)'
    <3>1. \A n \in 1..Current(d) : drawings'[d].revs[n].status = "released"
                                      <=> drawings'[d].revs[n].snapshot # NoSnapshot
      BY <2>1, <2>3, <2>4, CurrentReplaced DEF ReleaseInv, RevisionsSound
    <3>2. QED
      BY <2>1, <2>3, <2>4, <3>1, CurrentReplaced
         DEF RevisionsSound, Editable, Exists, Status
  <2>6. NoBlockers(d)'
    BY <1>6, <2>1 DEF Release, NoBlockers, SheetsOf, OpenErrors
  <2>7. Content(d, CurrentRevision(d).text)' = Content(d, CurrentRevision(d).text)
    BY <2>1, <2>3, <2>4, CurrentReplaced DEF Content, SheetsOf, Links
  <2>8. Baselined(d)'
    BY <2>1, <2>3, <2>4, <2>6, <2>7, CurrentReplaced DEF Baselined, Promise!Loses
  <2>9. QED
    BY <1>1, <2>1, <2>3, <2>4, <2>5, <2>8, CurrentReplaced DEF ReleaseInv
<1>7. ASSUME NEW d \in Drawings, Submit(d) \/ Withdraw(d)
      PROVE  ReleaseInv'
  BY <1>5, <1>7 DEF Submit, Withdraw, Editable, Exists, Status
<1>8. QED
  BY <1>2, <1>3, <1>4, <1>6, <1>7 DEF RevisionStep


\* CreateDrawing, DeleteDrawing and Revise leave their drawing unreleased and every
\* other drawing, with its sheets, as it was.
LEMMA DrawingStepRelease ==
    ASSUME TypeOK, ReleaseInv, DrawingStep
    PROVE  ReleaseInv'
<1>1. ASSUME NEW d \in Drawings, RevisionsSound(d)', Baselined(d)',
             \A e \in Drawings \ {d} : drawings'[e] = drawings[e] /\ SheetsKept(e)
      PROVE  ReleaseInv'
  BY <1>1, BaselineKept, RowKeptFades DEF ReleaseInv
<1>2. ASSUME NEW d \in Drawings, NEW s \in Sheets, NEW t \in Texts, NEW c \in Documents,
             NEW j \in Projects, NEW y \in SystemsOf(j), CreateDrawing(d, s, j, y, t, c)
      PROVE  ReleaseInv'
  <2>1. drawings'[d] = [status |-> "draft", project |-> j, system |-> y, title |-> t,
                        revs |-> <<NewRevision(t)>>]
    BY <1>2 DEF CreateDrawing, TypeOK
  <2>2. RevisionsSound(d)' /\ Baselined(d)'
    BY <2>1 DEF RevisionsSound, Baselined, NewRevision, Exists, Editable, Current,
                CurrentRevision
  <2>3. \A e \in Drawings \ {d} : drawings'[e] = drawings[e] /\ SheetsKept(e)
    BY <1>2, ConstantsAssumption
       DEF CreateDrawing, SheetsKept, SheetsFade, NewSheet, FreeSheet, TypeOK
  <2>4. QED
    BY <1>1, <2>2, <2>3
<1>3. ASSUME NEW d \in Drawings, DeleteDrawing(d)
      PROVE  ReleaseInv'
  <2>1. drawings'[d] = NoRow
    BY <1>3 DEF DeleteDrawing, TypeOK
  <2>2. RevisionsSound(d)' /\ Baselined(d)'
    BY <2>1 DEF RevisionsSound, Baselined, NoRow, Exists, Editable, Current
  <2>3. \A e \in Drawings \ {d} : drawings'[e] = drawings[e] /\ SheetsKept(e)
    BY <1>3, ConstantsAssumption
       DEF DeleteDrawing, SheetsOf, SheetsKept, SheetsFade, FreeSheet, TypeOK
  <2>4. QED
    BY <1>1, <2>2, <2>3
<1>4. ASSUME NEW d \in Drawings, NEW t \in Texts, Revise(d, t)
      PROVE  ReleaseInv'
  <2>1. /\ drawings'[d].status = "draft"
        /\ drawings'[d].revs = Append(drawings[d].revs, NewRevision(t))
    BY <1>4 DEF Revise, TypeOK, DrawingRow
  <2>2. RevisionsSound(d)' /\ Baselined(d)'
    BY <1>4, <2>1, CurrentType
       DEF ReleaseInv, RevisionsSound, Baselined, NewRevision, Exists, Editable, Current,
           CurrentRevision
  <2>3. \A e \in Drawings \ {d} : drawings'[e] = drawings[e] /\ SheetsKept(e)
    BY <1>4 DEF Revise, SheetsOf, SheetsKept, SheetsFade, Copy, TypeOK, SheetRow
  <2>4. QED
    BY <1>1, <2>2, <2>3
<1>5. QED
  BY <1>2, <1>3, <1>4 DEF DrawingStep

LEMMA RowsKept ==
    ASSUME SheetStep \/ FlagStep
    PROVE  drawings' = drawings
  BY DEF SheetStep, CreateSheet, SaveSheet, DeleteSheet, Waive, Unwaive, FlagStep,
         CatalogRequest, UpdatePart, ObsoletePart, DeletePart, RequirementRequest,
         CreateRequirement, UpdateRequirement, DeleteRequirement, CreateProject

\* The drawings of a deleted project are gone, all others keep what was released of them,
\* but for links.
LEMMA RemovalStepRelease ==
    ASSUME TypeOK, ReleaseInv, RemovalStep
    PROVE  ReleaseInv'
<1>1. ASSUME NEW j \in Projects, DeleteProject(j), NEW d \in Drawings
      PROVE  RevisionsSound(d)' /\ Baselined(d)'
  <2>1. CASE drawings[d].project = j
    <3>1. drawings'[d] = NoRow
      BY <1>1, <2>1, DeleteProjectRows
    <3>2. QED
      BY <3>1 DEF RevisionsSound, Baselined, NoRow, Exists, Editable, Current
  <2>2. CASE drawings[d].project # j
    <3>1. RowFades(d)
      BY <1>1, <2>2, DeleteProjectRows, RowKeptFades
    <3>2. \A s \in Sheets : sheets[s].drawing = d => s \notin SheetsUnder(j)
      BY <2>2 DEF SheetsUnder
    <3>3. \A s \in SheetsUnder(j) : sheets'[s].drawing # d
      BY <1>1, DeleteProjectRows, ConstantsAssumption DEF FreeSheet
    <3>4. SheetsKept(d)
      <4>1. \A s \in SheetsUnder(j) : sheets[s].drawing # d
        BY <3>2 DEF SheetsUnder
      <4>2. \A s \in Sheets \ SheetsUnder(j) :
               /\ sheets'[s].drawing = sheets[s].drawing
               /\ Copy(sheets'[s]) = Copy(sheets[s])
               /\ sheets'[s].cites \subseteq sheets[s].cites
               /\ sheets'[s].stale = sheets[s].stale
        BY <1>1, DeleteProjectRows
      <4>3. QED
        BY <3>3, <4>1, <4>2 DEF SheetsKept, SheetsFade
    <3>5. QED
      BY <3>1, <3>4, BaselineKept DEF ReleaseInv
  <2>3. QED
    BY <2>1, <2>2
<1>2. ASSUME NEW y \in Systems, DeleteSystem(y)
      PROVE  ReleaseInv'
  <2>1. \A d \in Drawings : SheetsKept(d)
    BY <1>2 DEF DeleteSystem, SheetsKept, SheetsFade
  <2>2. QED
    BY <1>2, <2>1, DeleteSystemRows, KeepsRelease
<1>3. QED
  BY <1>1, <1>2 DEF RemovalStep, ReleaseInv

LEMMA InitRelease == Init => ReleaseInv
  BY DEF Init, ReleaseInv, RevisionsSound, Baselined, NoRow, Exists, Editable, Current

LEMMA ReleaseInvHolds == Spec => []ReleaseInv
<1>1. TypeOK /\ ReleaseInv /\ [Next]_vars => ReleaseInv'
  <2>1. ASSUME TypeOK, ReleaseInv, SheetStep \/ FlagStep
        PROVE  ReleaseInv'
    <3>1. \A d \in Drawings : drawings[d].status = "released" => SheetsKept(d)
      BY <2>1, SheetStepKeeps, FlagStepKeeps
    <3>2. \A d \in Drawings : RowFades(d)
      BY <2>1, RowsKept, RowKeptFades
    <3>3. QED
      BY <2>1, <3>1, <3>2, KeepsRelease
  <2>2. ASSUME TypeOK, ReleaseInv, UNCHANGED vars
        PROVE  ReleaseInv'
    <3>1. \A d \in Drawings : RowFades(d) /\ SheetsKept(d)
      BY <2>2, RowKeptFades DEF vars, SheetsKept, SheetsFade
    <3>2. QED
      BY <2>2, <3>1, KeepsRelease
  <2>3. QED
    BY <2>1, <2>2, NextCases, RevisionStepRelease, DrawingStepRelease, RemovalStepRelease
<1>2. QED
  BY InitRelease, TypeCorrect, <1>1, PTL DEF Spec

\* While a drawing is released its current revision is released too, and the rows hold
\* what the snapshot on it holds, up to links to a system or requirement that has been
\* deleted since, whatever is requested: no request changes anything else of a released
\* drawing, delete_system, delete_requirement and delete_project of other drawings
\* included, which ask for no status.  This is inductive only
\* together with the next two: Release needs that the current revision of an editable
\* drawing is not released yet, and that needs that nothing but a new revision leads
\* out of released.
THEOREM ReleasesAreSound == Spec => []SnapshotIsLive
  BY ReleaseInvHolds, ReleaseInvMeaning, PTL

\* A revision has a snapshot exactly when it is released, and the revision under way of
\* a drawing that can be edited is not (release_drawing, revise_drawing).
THEOREM SnapshotsMarkReleases == Spec => []ReleasedRevisionsHaveSnapshots
  BY ReleaseInvHolds, ReleaseInvMeaning, PTL

\* No request, part change or requirement change gives a released drawing a stale sheet
\* or an open error (_ensure_editable, mark_*_stale).
THEOREM ReleasedStaysClean == Spec => []ReleasedIsClean
  BY ReleaseInvHolds, ReleaseInvMeaning, PTL

LEMMA NextKeepsReleased ==
    ASSUME TypeOK, ReleaseInv, Next
    PROVE  KeepsReleased
<1> SUFFICES ASSUME NEW d \in Drawings, NEW n \in 1..Current(d),
                    drawings[d].revs[n].status = "released"
             PROVE  \/ n \in 1..Current(d)' /\ drawings'[d].revs[n] = drawings[d].revs[n]
                    \/ drawings[d].status # "released" /\ ~Exists(d)'
                    \/ drawings[d].project \in listed \ listed' /\ ~Exists(d)'
  BY DEF KeepsReleased
<1>1. ASSUME drawings'[d] = drawings[d]
      PROVE  n \in 1..Current(d)' /\ drawings'[d].revs[n] = drawings[d].revs[n]
  BY <1>1 DEF Current
<1>2. Exists(d) /\ (Editable(d) => n # Current(d))
  BY CurrentType DEF ReleaseInv, RevisionsSound, CurrentRevision
<1>3. ASSUME NEW e \in Drawings, NEW status, NEW row \in Revision,
             Editable(e), ReplacesCurrent(e, status, row)
      PROVE  n \in 1..Current(d)' /\ drawings'[d].revs[n] = drawings[d].revs[n]
  <2>1. Current(e) > 0
    BY <1>3 DEF ReleaseInv, RevisionsSound, Editable
  <2>2. QED
    BY <1>1, <1>2, <1>3, <2>1, CurrentReplaced DEF Current
<1>4. ASSUME NEW e \in Drawings, NEW y \in Systems \cup {Null}, NEW t \in Texts,
             UpdateDrawing(e, y, t)
      PROVE  n \in 1..Current(d)' /\ drawings'[d].revs[n] = drawings[d].revs[n]
  BY <1>4 DEF UpdateDrawing, Current, TypeOK, DrawingRow
<1>5. ASSUME NEW e \in Drawings, NEW t \in Texts, CreateRevision(e, t) \/ Revise(e, t)
      PROVE  n \in 1..Current(d)' /\ drawings'[d].revs[n] = drawings[d].revs[n]
  <2>1. CASE e # d
    BY <1>1, <1>5, <2>1 DEF CreateRevision, Revise, TypeOK
  <2>2. CASE e = d
    <3>1. drawings'[d].revs = Append(drawings[d].revs, NewRevision(t))
      BY <1>5, <2>2 DEF CreateRevision, Revise, TypeOK, DrawingRow
    <3>2. QED
      BY <3>1, CurrentType DEF Current
  <2>3. QED
    BY <2>1, <2>2
<1>6. ASSUME NEW e \in Drawings, NEW m \in 1..Current(e), NEW t \in Texts,
             UpdateRevision(e, m, t)
      PROVE  n \in 1..Current(d)' /\ drawings'[d].revs[n] = drawings[d].revs[n]
  <2>1. CASE e # d
    BY <1>1, <1>6, <2>1 DEF UpdateRevision, TypeOK
  <2>2. CASE e = d
    <3>1. /\ drawings'[d].revs = [drawings[d].revs EXCEPT ![m].text = t]
          /\ m # n
      BY <1>6, <2>2 DEF UpdateRevision, TypeOK, DrawingRow
    <3>2. QED
      BY <3>1, CurrentType DEF Current
  <2>3. QED
    BY <2>1, <2>2
<1>7. ASSUME NEW e \in Drawings, Submit(e) \/ Withdraw(e) \/ Release(e)
      PROVE  n \in 1..Current(d)' /\ drawings'[d].revs[n] = drawings[d].revs[n]
  <2>1. Editable(e) /\ Current(e) > 0
    BY <1>7 DEF Submit, Withdraw, Release, ReleaseInv, RevisionsSound, Editable, Exists
  <2>2. CurrentRevision(e) \in Revision /\ Filed(e) \in Revision
    BY <2>1, CurrentType, ContentType DEF Filed, Revision, Status
  <2>3. PICK status \in Status, row \in Revision : ReplacesCurrent(e, status, row)
    <3>1. ASSUME NEW status \in Status, SetStatus(e, status)
          PROVE  /\ [CurrentRevision(e) EXCEPT !.status = status] \in Revision
                 /\ ReplacesCurrent(e, status, [CurrentRevision(e) EXCEPT !.status = status])
      BY <2>2, <3>1 DEF ReplacesCurrent, SetStatus, CurrentRevision, Revision
    <3>2. QED
      BY <1>7, <2>2, <3>1 DEF Submit, Withdraw, Release, ReplacesCurrent, Status
  <2>4. QED
    BY <1>3, <2>1, <2>3
<1>8. ASSUME NEW e \in Drawings, NEW s \in Sheets, NEW t \in Texts, NEW c \in Documents,
             NEW j \in Projects, NEW y \in SystemsOf(j), CreateDrawing(e, s, j, y, t, c)
      PROVE  drawings'[d] = drawings[d]
  BY <1>2, <1>8 DEF CreateDrawing, TypeOK
<1>9. ASSUME NEW e \in Drawings, DeleteDrawing(e)
      PROVE  \/ drawings'[d] = drawings[d]
             \/ drawings[d].status # "released" /\ ~Exists(d)'
  BY <1>9 DEF DeleteDrawing, Editable, Exists, NoRow, TypeOK
<1>10. CASE SheetStep \/ FlagStep
  BY <1>1, <1>10, RowsKept
<1>11. CASE RevisionStep
  BY <1>4, <1>5, <1>6, <1>7, <1>11 DEF RevisionStep
<1>12. CASE DrawingStep
  BY <1>1, <1>5, <1>8, <1>9, <1>12 DEF DrawingStep
<1>13. CASE RemovalStep
  <2>1. ASSUME NEW j \in Projects, DeleteProject(j)
        PROVE  \/ drawings'[d] = drawings[d]
               \/ drawings[d].project \in listed \ listed' /\ ~Exists(d)'
    BY <2>1 DEF DeleteProject, NoRow, Exists
  <2>2. ASSUME NEW y \in Systems, DeleteSystem(y)
        PROVE  n \in 1..Current(d)' /\ drawings'[d].revs[n] = drawings[d].revs[n]
    BY <2>2, DeleteSystemRows, RowFaded DEF Current
  <2>3. QED
    BY <1>1, <1>13, <2>1, <2>2 DEF RemovalStep
<1>14. QED
  BY <1>10, <1>11, <1>12, <1>13, NextCases

\* No request changes a released revision, its status, text or snapshot.  It can only go
\* with its whole drawing once that has been reopened, or with the whole project, which
\* may be deleted while the drawing is released.
THEOREM ReleasedStaysFrozen == Spec => ReleasedRevisionFrozen
<1>1. TypeOK /\ ReleaseInv /\ [Next]_vars => [KeepsReleased]_vars
  BY NextKeepsReleased
<1>2. QED
  BY TypeCorrect, ReleaseInvHolds, <1>1, PTL DEF Spec, ReleasedRevisionFrozen

-----------------------------------------------------------------------------
(* The stale flags and the index rows.                                     *)

\* A row whose flag can be trusted, and whose index rows refer to parts that exist.
\* An id not in use has no index rows, which DeletePart relies on.
Trusted(s) ==
    /\ Markable(s) /\ ~sheets[s].stale =>
         sheets[s].derived /\ sheets[s].index = PartsOf[sheets[s].doc] \cap listed
    /\ sheets[s].index \subseteq listed
    /\ ~InUse(s) => sheets[s].index = {}

DerivedInv == \A s \in Sheets : Trusted(s)

LEMMA InitDerived == Init => DerivedInv
  BY DEF Init, DerivedInv, Trusted, Markable, InUse, FreeSheet

\* A row the step leaves as it was, in a drawing that is not reopened, stays trusted.
LEMMA RowKept ==
    ASSUME NEW s \in Sheets, Trusted(s), sheets'[s] = sheets[s], listed' = listed,
           Markable(s)' => Markable(s)
    PROVE  Trusted(s)'
  BY DEF Trusted, InUse

\* New sheets start empty and fresh, or with a document and stale.
LEMMA NewSheetTrusted ==
    ASSUME NEW s \in Sheets, NEW d \in Drawings, NEW no, NEW t, NEW c,
           sheets'[s] = NewSheet(d, no, t, c)
    PROVE  Trusted(s)'
<1>1. /\ sheets'[s].drawing = d /\ sheets'[s].doc = c /\ sheets'[s].index = {}
      /\ sheets'[s].stale = NeedsIndex(c) /\ sheets'[s].derived = ~NeedsIndex(c)
  BY DEF NewSheet, FreeSheet
<1>2. CASE NeedsIndex(c)
  BY <1>1, <1>2, ConstantsAssumption DEF Trusted, InUse
<1>3. CASE ~NeedsIndex(c)
  BY <1>1, <1>3, ConstantsAssumption DEF Trusted, InUse, NeedsIndex
<1>4. QED
  BY <1>2, <1>3

LEMMA FreeSheetTrusted ==
    ASSUME NEW s \in Sheets, sheets'[s] = FreeSheet
    PROVE  Trusted(s)'
  BY DEF Trusted, FreeSheet, Markable, InUse

LEMMA SheetStepDerived ==
    ASSUME TypeOK, DerivedInv, SheetStep
    PROVE  DerivedInv'
<1> USE DEF DerivedInv
<1>1. ASSUME NEW d \in Drawings, NEW s \in Sheets, NEW t \in Texts, NEW c \in Documents,
             CreateSheet(d, s, t, c)
      PROVE  DerivedInv'
  <2>1. PICK no : sheets' = [sheets EXCEPT ![s] = NewSheet(d, no, t, c)]
    BY <1>1 DEF CreateSheet
  <2>2. sheets'[s] = NewSheet(d, no, t, c) /\ \A r \in Sheets \ {s} : sheets'[r] = sheets[r]
    BY <2>1 DEF TypeOK
  <2>3. \A r \in Sheets \ {s} : Trusted(r)'
    BY <1>1, <2>2, RowKept DEF CreateSheet, Markable, InUse, Unreleased
  <2>4. QED
    BY <2>2, <2>3, NewSheetTrusted
<1>2. ASSUME NEW s \in Sheets, NEW t \in Texts \cup {Absent}, NEW c \in Documents \cup {Absent},
             NEW drc \in (SUBSET FindingKeys) \cup {Absent},
             NEW ix \in {Absent, IndexOf(s, c)}, SaveSheet(s, t, c, ix, drc, TRUE)
      PROVE  DerivedInv'
  <2>1. /\ sheets'[s] = SavedRow(sheets[s], t, c, ix, drc, TRUE)
        /\ \A r \in Sheets \ {s} : sheets'[r] = sheets[r]
    BY <1>2 DEF SaveSheet, TypeOK
  <2>2. /\ sheets'[s].drawing = sheets[s].drawing
        /\ sheets'[s].doc = IF c = Absent THEN sheets[s].doc ELSE c
        /\ sheets'[s].index = IF ix = Absent THEN sheets[s].index ELSE ix \cap listed
    BY <2>1 DEF SavedRow, TypeOK, SheetRow
  <2>3. sheets[s].index \subseteq listed /\ InUse(s)
    BY <1>2 DEF SaveSheet, InUse, Trusted
  <2>4. CASE ix # Absent /\ drc # Absent
    <3>1. sheets'[s].derived /\ sheets'[s].index = PartsOf[sheets'[s].doc] \cap listed
      BY <2>1, <2>2, <2>4 DEF SavedRow, IndexOf, TypeOK, SheetRow
    <3>2. Trusted(s)'
      BY <1>2, <2>2, <2>3, <3>1 DEF Trusted, InUse, SaveSheet
    <3>3. QED
      BY <1>2, <2>1, <3>2, RowKept DEF SaveSheet, Markable, InUse, Unreleased
  <2>5. CASE ~(ix # Absent /\ drc # Absent) /\ (c # Absent \/ ix # Absent \/ drc # Absent)
    <3>1. sheets'[s].stale
      <4> DEFINE complete == ix # Absent /\ drc # Absent
                 partial  == ~complete /\ (c # Absent \/ ix # Absent \/ drc # Absent)
      <4>1. sheets'[s].stale = (~complete /\ (partial \/ sheets[s].stale))
        BY <2>1 DEF SavedRow, TypeOK, SheetRow
      <4>2. QED
        BY <2>5, <4>1
    <3>2. sheets'[s].index \subseteq listed
      BY <2>2, <2>3
    <3>3. Trusted(s)'
      BY <1>2, <2>2, <2>3, <3>1, <3>2 DEF Trusted, InUse, SaveSheet
    <3>4. QED
      BY <1>2, <2>1, <3>3, RowKept DEF SaveSheet, Markable, InUse, Unreleased
  <2>6. CASE c = Absent /\ ix = Absent /\ drc = Absent
    <3>1. /\ sheets'[s].stale = sheets[s].stale
          /\ sheets'[s].derived = sheets[s].derived
      BY <2>1, <2>6 DEF SavedRow, TypeOK, SheetRow
    <3>2. Trusted(s)'
      BY <1>2, <2>2, <2>3, <2>6, <3>1
         DEF Trusted, InUse, Markable, Unreleased, SaveSheet
    <3>3. QED
      BY <1>2, <2>1, <3>2, RowKept DEF SaveSheet, Markable, InUse, Unreleased
  <2>7. QED
    BY <2>4, <2>5, <2>6
<1>3. ASSUME NEW s \in Sheets, DeleteSheet(s)
      PROVE  DerivedInv'
  <2> SUFFICES ASSUME NEW r \in Sheets PROVE Trusted(r)'
    OBVIOUS
  <2>1. CASE r = s
    BY <1>3, <2>1, FreeSheetTrusted DEF DeleteSheet
  <2>2. CASE r # s
    <3>1. /\ sheets'[r].drawing = sheets[r].drawing /\ sheets'[r].doc = sheets[r].doc
          /\ sheets'[r].index = sheets[r].index /\ sheets'[r].stale = sheets[r].stale
          /\ sheets'[r].derived = sheets[r].derived
      BY <1>3, <2>2 DEF DeleteSheet, TypeOK, SheetRow
    <3>2. QED
      BY <1>3, <3>1 DEF DeleteSheet, Trusted, Markable, InUse, Unreleased
  <2>3. QED
    BY <2>1, <2>2
<1>4. ASSUME NEW s \in Sheets, NEW k \in FindingKeys, Waive(s, k) \/ Unwaive(s, k)
      PROVE  DerivedInv'
  <2>1. \A r \in Sheets :
          /\ sheets'[r].drawing = sheets[r].drawing /\ sheets'[r].doc = sheets[r].doc
          /\ sheets'[r].index = sheets[r].index /\ sheets'[r].stale = sheets[r].stale
          /\ sheets'[r].derived = sheets[r].derived
    BY <1>4 DEF Waive, Unwaive, TypeOK, SheetRow
  <2>2. QED
    BY <1>4, <2>1 DEF Waive, Unwaive, Trusted, Markable, InUse, Unreleased
<1>5. QED
  BY <1>1, <1>2, <1>3, <1>4 DEF SheetStep

\* Steps of the drawings: one becomes released or stays as open as it was, except for
\* Revise, which flags every sheet of the drawing it reopens.
LEMMA RevisionStepDerived ==
    ASSUME TypeOK, DerivedInv, RevisionStep
    PROVE  DerivedInv'
<1>1. sheets' = sheets /\ listed' = listed
  BY DEF RevisionStep, UpdateDrawing, CreateRevision, UpdateRevision, Submit, Withdraw, Release
<1>2. \A d \in Drawings : Unreleased(d)' => Unreleased(d)
  BY DEF RevisionStep, UpdateDrawing, CreateRevision, UpdateRevision, Submit, Withdraw,
         SetStatus, Release, Editable, Unreleased, TypeOK, DrawingRow
<1>3. \A s \in Sheets : Markable(s)' => Markable(s)
  BY <1>1, <1>2 DEF Markable, InUse, TypeOK, SheetRow
<1>4. QED
  BY <1>1, <1>3, RowKept DEF DerivedInv

LEMMA DrawingStepDerived ==
    ASSUME TypeOK, DerivedInv, DrawingStep
    PROVE  DerivedInv'
<1> USE DEF DerivedInv
<1>1. ASSUME NEW d \in Drawings, NEW s \in Sheets, NEW t \in Texts, NEW c \in Documents,
             NEW j \in Projects, NEW y \in SystemsOf(j), CreateDrawing(d, s, j, y, t, c)
      PROVE  DerivedInv'
  <2>1. /\ sheets'[s] = NewSheet(d, 1, t, c)
        /\ \A r \in Sheets \ {s} : sheets'[r] = sheets[r] /\ (Markable(r)' => Markable(r))
    BY <1>1 DEF CreateDrawing, Markable, InUse, Unreleased, Exists, TypeOK, DrawingRow
  <2>2. QED
    BY <1>1, <2>1, NewSheetTrusted, RowKept DEF CreateDrawing
<1>2. ASSUME NEW d \in Drawings, DeleteDrawing(d)
      PROVE  DerivedInv'
  <2>1. \A s \in SheetsOf(d) : sheets'[s] = FreeSheet
    BY <1>2 DEF DeleteDrawing, SheetsOf
  <2>2. \A s \in Sheets \ SheetsOf(d) :
            sheets'[s] = sheets[s] /\ (Markable(s)' => Markable(s))
    BY <1>2 DEF DeleteDrawing, SheetsOf, Markable, InUse, Unreleased, Editable, TypeOK
  <2>3. QED
    BY <1>2, <2>1, <2>2, FreeSheetTrusted, RowKept DEF DeleteDrawing, SheetsOf
<1>3. ASSUME NEW d \in Drawings, NEW t \in Texts, Revise(d, t)
      PROVE  DerivedInv'
  <2>1. \A s \in SheetsOf(d) :
            sheets'[s].stale /\ sheets'[s].index = sheets[s].index /\ InUse(s)'
    BY <1>3, ConstantsAssumption DEF Revise, SheetsOf, InUse, TypeOK, SheetRow
  <2>2. \A s \in Sheets \ SheetsOf(d) :
            sheets'[s] = sheets[s] /\ (Markable(s)' => Markable(s))
    <3>1. \A e \in Drawings \ {d} : drawings'[e] = drawings[e]
      BY <1>3 DEF Revise, TypeOK
    <3>2. \A s \in Sheets \ SheetsOf(d) :
              sheets'[s] = sheets[s] /\ sheets[s].drawing \in Drawings \cup {NoDrawing}
      BY <1>3 DEF Revise, TypeOK, SheetRow
    <3>3. QED
      BY <3>1, <3>2 DEF SheetsOf, Markable, InUse, Unreleased
  <2>3. \A s \in SheetsOf(d) : Trusted(s)'
    BY <1>3, <2>1 DEF Trusted, Revise, SheetsOf
  <2>4. QED
    BY <1>3, <2>2, <2>3, RowKept DEF Revise
<1>4. QED
  BY <1>1, <1>2, <1>3 DEF DrawingStep

\* A part change finds every fresh sheet that depends on the part by its index rows,
\* because a fresh index lists exactly the catalog parts of the document.
LEMMA FlagStepDerived ==
    ASSUME TypeOK, DerivedInv, FlagStep
    PROVE  DerivedInv'
<1>1. ASSUME NEW marked, NEW touched, RowsFlagged(marked, touched),
             drawings' = drawings, NEW s \in Sheets,
             Markable(s) /\ ~sheets[s].stale /\ s \in touched => s \in marked,
             \A p \in sheets[s].index : p \in listed',
             Markable(s) /\ ~sheets[s].stale =>
                 PartsOf[sheets[s].doc] \cap listed = PartsOf[sheets[s].doc] \cap listed'
      PROVE  Trusted(s)'
  <2>1. /\ sheets'[s].drawing = sheets[s].drawing /\ sheets'[s].doc = sheets[s].doc
        /\ sheets'[s].index = sheets[s].index
        /\ sheets'[s].stale = (sheets[s].stale \/ s \in marked)
        /\ sheets'[s].derived = (sheets[s].derived /\ s \notin touched)
    BY <1>1 DEF RowsFlagged, Copy
  <2>2. Markable(s)' <=> Markable(s)
    BY <1>1, <2>1 DEF Markable, InUse, Unreleased
  <2>3. QED
    BY <1>1, <2>1, <2>2 DEF Trusted, InUse, DerivedInv
<1>2. ASSUME NEW p \in Parts, CatalogRequest(p), NEW s \in Sheets
      PROVE  Trusted(s)'
  <2>1. Trusted(s)
    BY DEF DerivedInv
  <2>2. ASSUME p \in listed, Markable(s), ~sheets[s].stale, s \in DependOn(p)
        PROVE  p \in sheets[s].index
    BY <2>1, <2>2 DEF Trusted, DependOn
  <2>3. CASE UpdatePart(p)
    <3>1. Markable(s) /\ ~sheets[s].stale /\ s \in DependOn(p) => s \in AssignedOn(p)
      BY <2>2, <2>3 DEF UpdatePart, AssignedOn
    <3>2. QED
      BY <1>1, <2>1, <2>3, <3>1, FlagSheetsRows DEF UpdatePart, Trusted
  <2>4. ASSUME NEW changed \in BOOLEAN, ObsoletePart(p, changed)
        PROVE  Trusted(s)'
    <3>1. Markable(s) /\ ~sheets[s].stale /\ s \in (IF changed THEN DependOn(p) ELSE {})
              => s \in AssignedOn(p)
      BY <2>2, <2>4 DEF ObsoletePart, AssignedOn
    <3>2. QED
      BY <1>1, <2>1, <2>4, <3>1, FlagSheetsRows DEF ObsoletePart, Trusted
  <2>5. CASE DeletePart(p)
    <3>1. p \notin sheets[s].index
      BY <2>1, <2>5 DEF DeletePart, Trusted
    <3>2. Markable(s) /\ ~sheets[s].stale => p \notin PartsOf[sheets[s].doc]
      BY <2>1, <2>5, <3>1 DEF DeletePart, Trusted
    <3>3. /\ Markable(s) /\ ~sheets[s].stale => s \notin DependOn(p)
          /\ Markable(s) /\ ~sheets[s].stale =>
                PartsOf[sheets[s].doc] \cap listed = PartsOf[sheets[s].doc] \cap listed'
          /\ \A q \in sheets[s].index : q \in listed'
      BY <2>1, <2>5, <3>1, <3>2 DEF DeletePart, DependOn, Trusted
    <3>4. QED
      BY <1>1, <2>5, <3>3, FlagSheetsRows DEF DeletePart
  <2>6. QED
    BY <1>2, <2>3, <2>4, <2>5 DEF CatalogRequest
<1>3. ASSUME NEW s \in Sheets, listed' \cap Parts = listed \cap Parts
      PROVE  /\ \A p \in sheets[s].index : p \in listed'
             /\ PartsOf[sheets[s].doc] \cap listed = PartsOf[sheets[s].doc] \cap listed'
  <2>1. sheets[s].index \subseteq listed /\ sheets[s].index \subseteq Parts
    BY DEF DerivedInv, Trusted, TypeOK, SheetRow
  <2>2. PartsOf[sheets[s].doc] \subseteq Parts
    BY ConstantsAssumption DEF TypeOK, SheetRow
  <2>3. QED
    BY <1>3, <2>1, <2>2
<1>4. ASSUME NEW r \in Requirements, NEW s \in Sheets
      PROVE  Markable(s) /\ s \in SheetsUnder(ProjectOf[r]) => s \in MarkedFor(r)
  BY DEF MarkedFor
<1>5. ASSUME NEW r \in Requirements, NEW constrained \in BOOLEAN, NEW s \in Sheets,
             CreateRequirement(r, constrained) \/ DeleteRequirement(r, constrained)
      PROVE  Trusted(s)'
  <2>1. drawings' = drawings /\ listed' \cap Parts = listed \cap Parts
    BY <1>5, ConstantsAssumption DEF CreateRequirement, DeleteRequirement
  <2>2. RowsFlagged(IF constrained THEN MarkedFor(r) ELSE {},
                    IF constrained THEN SheetsUnder(ProjectOf[r]) ELSE {})
    BY <1>5, CreateRequirementRows, DeleteRequirementRows
  <2>3. QED
    BY <1>1, <1>3, <1>4, <2>1, <2>2
<1>6. ASSUME NEW r \in Requirements, NEW changed \in BOOLEAN, NEW s \in Sheets,
             UpdateRequirement(r, changed)
      PROVE  Trusted(s)'
  <2>1. drawings' = drawings /\ listed' = listed
    BY <1>6 DEF UpdateRequirement
  <2>2. RowsFlagged(MarkedFor(r), IF changed THEN SheetsUnder(ProjectOf[r]) ELSE {})
    BY <1>6, FlagSheetsRows DEF UpdateRequirement
  <2>3. QED
    BY <1>1, <1>3, <1>4, <2>1, <2>2
<1>7. ASSUME NEW j \in Projects, CreateProject(j), NEW s \in Sheets
      PROVE  Trusted(s)'
  <2>1. /\ drawings' = drawings /\ sheets' = sheets
        /\ listed' \cap Parts = listed \cap Parts
    BY <1>7, ConstantsAssumption DEF CreateProject
  <2>2. RowsFlagged({}, {})
    BY <2>1 DEF RowsFlagged, TypeOK, SheetRow
  <2>3. QED
    BY <1>1, <1>3, <2>1, <2>2
<1>8. QED
  BY <1>2, <1>5, <1>6, <1>7 DEF FlagStep, RequirementRequest, DerivedInv

\* What goes with a project takes no part away, and the drawings that stay keep their status.
LEMMA RemovalStepDerived ==
    ASSUME TypeOK, DerivedInv, RemovalStep
    PROVE  DerivedInv'
<1>1. ASSUME NEW j \in Projects, DeleteProject(j), NEW s \in Sheets
      PROVE  Trusted(s)'
  <2>1. CASE s \in SheetsUnder(j)
    BY <1>1, <2>1, DeleteProjectRows, FreeSheetTrusted
  <2>2. CASE s \notin SheetsUnder(j)
    <3>1. /\ sheets'[s].drawing = sheets[s].drawing /\ sheets'[s].doc = sheets[s].doc
          /\ sheets'[s].index = sheets[s].index
          /\ sheets'[s].stale = sheets[s].stale /\ sheets'[s].derived = sheets[s].derived
      <4>1. /\ sheets'[s].drawing = sheets[s].drawing
            /\ Copy(sheets'[s]) = Copy(sheets[s])
            /\ sheets'[s].stale = sheets[s].stale /\ sheets'[s].derived = sheets[s].derived
        BY <1>1, <2>2, DeleteProjectRows
      <4>2. QED
        BY <4>1 DEF Copy
    <3>2. Markable(s)' => Markable(s)
      <4>1. InUse(s) => sheets[s].drawing \in Drawings
                           /\ drawings[sheets[s].drawing].project # j
        BY <2>2 DEF SheetsUnder, InUse, TypeOK, SheetRow
      <4>2. InUse(s) => drawings'[sheets[s].drawing] = drawings[sheets[s].drawing]
        BY <1>1, <4>1, DeleteProjectRows
      <4>3. QED
        BY <3>1, <4>2 DEF Markable, InUse, Unreleased
    <3>3. /\ PartsOf[sheets[s].doc] \cap listed' = PartsOf[sheets[s].doc] \cap listed
          /\ sheets[s].index \cap listed' = sheets[s].index \cap listed
      <4>1. PartsOf[sheets[s].doc] \subseteq Parts /\ sheets[s].index \subseteq Parts
        BY ConstantsAssumption DEF TypeOK, SheetRow
      <4>2. \A p \in Parts : p \in listed' <=> p \in listed
        BY <1>1, ConstantsAssumption DEF DeleteProject, RequirementsOf
      <4>3. QED
        BY <4>1, <4>2
    <3>4. Trusted(s)
      BY DEF DerivedInv
    <3>5. QED
      BY <3>1, <3>2, <3>3, <3>4 DEF Trusted, InUse
  <2>3. QED
    BY <2>1, <2>2
<1>2. ASSUME NEW y \in Systems, DeleteSystem(y), NEW s \in Sheets
      PROVE  Trusted(s)'
  <2>1. sheets' = sheets /\ listed' = listed
    BY <1>2 DEF DeleteSystem
  <2>2. \A d \in Drawings : drawings'[d].status = drawings[d].status
    BY <1>2, DeleteSystemRows, RowFaded
  <2>3. Markable(s)' => Markable(s)
    BY <2>1, <2>2 DEF Markable, InUse, Unreleased, TypeOK, SheetRow
  <2>4. QED
    BY <2>1, <2>3, RowKept DEF DerivedInv
<1>3. QED
  BY <1>1, <1>2 DEF RemovalStep, DerivedInv

LEMMA DerivedInvHolds == Spec => []DerivedInv
<1>1. TypeOK /\ DerivedInv /\ [Next]_vars => DerivedInv'
  <2>1. ASSUME DerivedInv, UNCHANGED vars
        PROVE  DerivedInv'
    BY <2>1 DEF vars, DerivedInv, Trusted, Markable, InUse, Unreleased
  <2>2. QED
    BY <2>1, NextCases, SheetStepDerived, RevisionStepDerived, DrawingStepDerived,
       FlagStepDerived, RemovalStepDerived
<1>2. QED
  BY InitDerived, TypeCorrect, <1>1, PTL DEF Spec

\* The stale flag of an unreleased sheet never lies, as long as requests run one after
\* the other and every save derives its data from the parts and requirements as they are
\* (Next saves with current = TRUE; a client whose part list is old breaks it): a sheet
\* not flagged has the index and the checks the engine would derive now (update_sheet,
\* mark_*_stale, delete_project).
THEOREM FlagsAreTrue == Spec => []FreshIsDerived
<1>1. DerivedInv => FreshIsDerived
  BY DEF DerivedInv, Trusted, FreshIsDerived
<1>2. QED
  BY DerivedInvHolds, <1>1, PTL

\* No index row refers to a part that is gone, in released drawings either: a part is
\* deleted only once no row assigns it, and a save drops the parts that are not listed.
THEOREM AssignedPartsStay == Spec => []AssignedPartsExist
<1>1. DerivedInv => AssignedPartsExist
  BY DEF DerivedInv, Trusted, AssignedPartsExist
<1>2. QED
  BY DerivedInvHolds, <1>1, PTL

-----------------------------------------------------------------------------
(* The sheets of a drawing are numbered 1, 2, ... without a gap, for any   *)
(* finite set of sheets: the sheet a request adds takes the next number,   *)
(* and after one is deleted the rank of each that remains is its number.   *)

\* A drawing has sheets exactly while it exists, and their numbers are 1 to their count,
\* each taken once.
Numbered(d) ==
    /\ SheetsOf(d) # {} <=> Exists(d)
    /\ {sheets[s].no : s \in SheetsOf(d)} = 1..Cardinality(SheetsOf(d))
    /\ \A s, r \in SheetsOf(d) : sheets[s].no = sheets[r].no => s = r

NumberedInv == \A d \in Drawings : Numbered(d)

\* A step that leaves the drawing with the sheets it has, at the numbers they have.
NumbersKept(d) ==
    /\ Exists(d)' <=> Exists(d)
    /\ \A s \in Sheets :
          /\ sheets'[s].drawing = d <=> sheets[s].drawing = d
          /\ sheets[s].drawing = d => sheets'[s].no = sheets[s].no

LEMMA KeptNumbered ==
    ASSUME NEW d \in Drawings, NumbersKept(d), Numbered(d)
    PROVE  Numbered(d)'
<1>1. SheetsOf(d)' = SheetsOf(d)
  BY DEF NumbersKept, SheetsOf
<1>2. \A s \in SheetsOf(d) : sheets'[s].no = sheets[s].no
  BY DEF NumbersKept, SheetsOf
<1>3. {sheets'[s].no : s \in SheetsOf(d)} = {sheets[s].no : s \in SheetsOf(d)}
  BY <1>2
<1>4. QED
  BY <1>1, <1>2, <1>3 DEF Numbered, NumbersKept

LEMMA SheetsFinite ==
    ASSUME NEW d \in Drawings
    PROVE  IsFiniteSet(SheetsOf(d)) /\ Cardinality(SheetsOf(d)) \in Nat
<1>1. SheetsOf(d) \in SUBSET Sheets
  BY DEF SheetsOf
<1>2. QED
  BY <1>1, FS_Subset, FS_CardinalityType, ConstantsAssumption

\* Where the members of S are numbered 1 to their count, m - 1 of them come before m.
LEMMA CountBefore ==
    ASSUME NEW S, IsFiniteSet(S), NEW no \in [S -> Nat], NEW n \in Nat,
           {no[x] : x \in S} = 1..n, \A x, y \in S : no[x] = no[y] => x = y,
           NEW m \in 1..n + 1
    PROVE  /\ IsFiniteSet({x \in S : no[x] < m})
           /\ Cardinality({x \in S : no[x] < m}) = m - 1
<1> DEFINE T == {x \in S : no[x] < m}
           g == [x \in T |-> no[x]]
<1>1. IsFiniteSet(T)
  BY FS_Subset
<1>2. g \in [T -> 1..m - 1]
  BY Z3
<1>3. ASSUME NEW y \in 1..m - 1
      PROVE  \E x \in T : g[x] = y
  <2>1. y \in 1..n
    OBVIOUS
  <2>2. PICK x \in S : no[x] = y
    BY <2>1
  <2>3. x \in T /\ g[x] = y
    BY <2>2
  <2>4. QED
    BY <2>3
<1>4. g \in Bijection(T, 1..m - 1)
  BY <1>2, <1>3 DEF Bijection, Injection, Surjection, IsInjective
<1>5. Cardinality(1..m - 1) = Cardinality(T)
  BY <1>1, <1>4, FS_Bijection DEF ExistsBijection
<1>6. Cardinality(1..m - 1) = m - 1
  BY FS_Interval
<1>7. QED
  BY <1>1, <1>5, <1>6

-----------------------------------------------------------------------------

LEMMA InitNumbered == Init => NumberedInv
<1>1. ASSUME Init, NEW d \in Drawings
      PROVE  Numbered(d)
  <2>1. SheetsOf(d) = {} /\ ~Exists(d)
    BY <1>1, ConstantsAssumption DEF Init, SheetsOf, FreeSheet, Exists, NoRow
  <2>2. QED
    BY <2>1, FS_EmptySet DEF Numbered
<1>2. QED
  BY <1>1 DEF NumberedInv

\* A drawing that gets its first sheet or one more: the number after the last.
LEMMA SheetAdded ==
    ASSUME TypeOK, NEW d \in Drawings, NEW s \in Sheets, Numbered(d),
           s \notin SheetsOf(d), Exists(d)', SheetsOf(d)' = SheetsOf(d) \cup {s},
           \A r \in SheetsOf(d) : sheets'[r].no = sheets[r].no,
           sheets'[s].no = Cardinality(SheetsOf(d)) + 1
    PROVE  Numbered(d)'
<1> DEFINE n == Cardinality(SheetsOf(d))
<1>1. n \in Nat /\ Cardinality(SheetsOf(d)') = n + 1
  BY SheetsFinite, FS_AddElement
<1>2. {sheets'[r].no : r \in SheetsOf(d)'} = {sheets[r].no : r \in SheetsOf(d)} \cup {n + 1}
  OBVIOUS
<1>3. {sheets'[r].no : r \in SheetsOf(d)'} = 1..n + 1
  BY <1>1, <1>2 DEF Numbered
<1>4. \A r \in SheetsOf(d) : sheets[r].no \in 1..n
  BY DEF Numbered
<1>5. \A q, r \in SheetsOf(d)' : sheets'[q].no = sheets'[r].no => q = r
  BY <1>1, <1>4 DEF Numbered
<1>6. QED
  BY <1>1, <1>3, <1>5 DEF Numbered

\* One more than the highest number is one more than the count.
LEMMA NextNoIsNext ==
    ASSUME TypeOK, NEW d \in Drawings, Numbered(d), Exists(d), NEW no \in NextNo(d)
    PROVE  no = Cardinality(SheetsOf(d)) + 1
<1> DEFINE n == Cardinality(SheetsOf(d))
<1>1. n \in Nat /\ n # 0
  BY SheetsFinite, FS_EmptySet DEF Numbered
<1>2. PICK last \in SheetsOf(d) : sheets[last].no = n
  <2>1. n \in {sheets[r].no : r \in SheetsOf(d)}
    BY <1>1 DEF Numbered
  <2>2. QED
    BY <2>1
<1>3. /\ no \in Nat /\ sheets[last].no < no
      /\ no = 1 \/ \E r \in SheetsOf(d) : no = sheets[r].no + 1
  BY NextNoType DEF NextNo
<1>4. \A r \in SheetsOf(d) : sheets[r].no \in 1..n
  BY DEF Numbered
<1>5. QED
  BY <1>1, <1>2, <1>3, <1>4

\* A drawing that loses one of several sheets: the others close up.
LEMMA SheetRemoved ==
    ASSUME TypeOK, NEW d \in Drawings, NEW s \in SheetsOf(d), Numbered(d),
           Exists(d)', SheetsOf(d)' = SheetsOf(d) \ {s}, SheetsOf(d) # {s},
           \A r \in SheetsOf(d) \ {s} : sheets'[r].no = 1 + Cardinality(
               {q \in SheetsOf(d) \ {s} : sheets[q].no < sheets[r].no})
    PROVE  Numbered(d)'
<1> DEFINE S == SheetsOf(d)
           n == Cardinality(S)
           no == [r \in S |-> sheets[r].no]
           k == no[s]
<1>1. IsFiniteSet(S) /\ n \in Nat /\ Cardinality(S \ {s}) = n - 1
  BY SheetsFinite, FS_RemoveElement
<1>2. /\ no \in [S -> Nat]
      /\ {no[r] : r \in S} = 1..n
      /\ \A q, r \in S : no[q] = no[r] => q = r
  <2>1. no \in [S -> Nat]
    BY DEF TypeOK, SheetRow, SheetsOf
  <2>2. {no[r] : r \in S} = {sheets[r].no : r \in S}
    OBVIOUS
  <2>3. QED
    BY <2>1, <2>2 DEF Numbered
<1>3. \A r \in S : no[r] \in 1..n
  BY <1>2
<1>4. ASSUME NEW r \in S \ {s}
      PROVE  sheets'[r].no = IF no[r] < k THEN no[r] ELSE no[r] - 1
  <2> DEFINE before == {q \in S : no[q] < no[r]}
  <2>1. IsFiniteSet(before) /\ Cardinality(before) = no[r] - 1
    <3>1. no[r] \in 1..n + 1
      BY <1>1, <1>3
    <3> HIDE DEF S, n, no
    <3>2. QED
      BY <1>1, <1>2, <3>1, CountBefore
  <2>2. {q \in S \ {s} : sheets[q].no < sheets[r].no} = before \ {s}
    OBVIOUS
  <2>3. s \in before <=> k < no[r]
    OBVIOUS
  <2>4. Cardinality(before \ {s}) = IF k < no[r] THEN no[r] - 2 ELSE no[r] - 1
    <3>1. no[r] \in Nat
      BY <1>2
    <3> HIDE DEF before, no, k
    <3>2. Cardinality(before \ {s}) = IF s \in before THEN no[r] - 1 - 1 ELSE no[r] - 1
      BY <2>1, FS_RemoveElement
    <3>3. QED
      BY <2>3, <3>1, <3>2
  <2>5. k # no[r] /\ k \in Nat /\ no[r] \in Nat
    BY <1>2
  <2>6. sheets'[r].no = 1 + Cardinality(before \ {s})
    BY <2>2
  <2> HIDE DEF no, k, before
  <2>7. QED
    BY <2>4, <2>5, <2>6
<1>5. {sheets'[r].no : r \in S \ {s}} = 1..n - 1
  <2>1. ASSUME NEW r \in S \ {s}
        PROVE  sheets'[r].no \in 1..n - 1
    <3>1. no[r] \in 1..n /\ k \in 1..n /\ no[r] # k
      BY <1>2, <1>3
    <3> HIDE DEF no, k
    <3>2. QED
      BY <1>1, <1>4, <3>1
  <2>2. ASSUME NEW i \in 1..n - 1
        PROVE  \E r \in S \ {s} : sheets'[r].no = i
    <3>1. k \in 1..n
      BY <1>3
    <3>2. PICK r \in S : no[r] = IF i < k THEN i ELSE i + 1
      <4>1. (IF i < k THEN i ELSE i + 1) \in 1..n
        BY <1>1
      <4>2. QED
        BY <1>2, <4>1
    <3>3. r \in S \ {s} /\ no[r] \in Nat
      BY <3>1, <3>2
    <3> HIDE DEF no, k, S
    <3>4. QED
      BY <1>4, <3>1, <3>2, <3>3
  <2>3. QED
    BY <2>1, <2>2
<1>6. \A q, r \in S \ {s} : sheets'[q].no = sheets'[r].no => q = r
  <2> SUFFICES ASSUME NEW q \in S \ {s}, NEW r \in S \ {s}, sheets'[q].no = sheets'[r].no
               PROVE  q = r
    OBVIOUS
  <2>1. /\ no[q] \in Nat /\ no[r] \in Nat /\ k \in Nat
        /\ no[q] # k /\ no[r] # k /\ (no[q] = no[r] => q = r)
    BY <1>2
  <2> HIDE DEF no, k
  <2>2. QED
    BY <1>4, <2>1
<1>7. S \ {s} # {}
  OBVIOUS
<1>8. QED
  BY <1>1, <1>5, <1>6, <1>7 DEF Numbered

-----------------------------------------------------------------------------

\* A step on the sheets of one drawing leaves the numbers of the others alone.
LEMMA NumbersElsewhere ==
    ASSUME NumberedInv, NEW d \in Drawings, Numbered(d)',
           \A e \in Drawings \ {d} : NumbersKept(e)
    PROVE  NumberedInv'
  BY KeptNumbered DEF NumberedInv

LEMMA SheetStepNumbered ==
    ASSUME TypeOK, NumberedInv, SheetStep
    PROVE  NumberedInv'
<1>1. ASSUME NEW d \in Drawings, NEW s \in Sheets, NEW t \in Texts, NEW c \in Documents,
             CreateSheet(d, s, t, c)
      PROVE  NumberedInv'
  <2>1. PICK no \in NextNo(d) : sheets' = [sheets EXCEPT ![s] = NewSheet(d, no, t, c)]
    BY <1>1 DEF CreateSheet
  <2>2. /\ sheets'[s].drawing = d /\ sheets'[s].no = no
        /\ \A r \in Sheets \ {s} : sheets'[r] = sheets[r]
    BY <2>1 DEF NewSheet, FreeSheet, TypeOK
  <2>3. /\ drawings' = drawings /\ Exists(d) /\ Exists(d)'
        /\ sheets[s].drawing = NoDrawing /\ d # NoDrawing
    BY <1>1, ConstantsAssumption DEF CreateSheet, Editable, Exists
  <2>4. s \notin SheetsOf(d) /\ SheetsOf(d)' = SheetsOf(d) \cup {s}
    BY <2>2, <2>3 DEF SheetsOf
  <2>5. \A r \in SheetsOf(d) : sheets'[r].no = sheets[r].no
    BY <2>2, <2>4 DEF SheetsOf
  <2>6. Numbered(d)'
    BY <2>2, <2>3, <2>4, <2>5, SheetAdded, NextNoIsNext DEF NumberedInv
  <2>7. \A e \in Drawings \ {d} : NumbersKept(e)
    BY <2>2, <2>3, ConstantsAssumption DEF NumbersKept, Exists
  <2>8. QED
    BY <2>6, <2>7, NumbersElsewhere
<1>2. ASSUME NEW s \in Sheets, NEW t, NEW c, NEW drc, NEW ix,
             SaveSheet(s, t, c, ix, drc, TRUE)
      PROVE  NumberedInv'
  <2>1. /\ SavedRow(sheets[s], t, c, ix, drc, TRUE).drawing = sheets[s].drawing
        /\ SavedRow(sheets[s], t, c, ix, drc, TRUE).no = sheets[s].no
    BY DEF SavedRow, TypeOK, SheetRow
  <2>2. \A e \in Drawings : NumbersKept(e)
    BY <1>2, <2>1 DEF SaveSheet, NumbersKept, Exists, TypeOK
  <2>3. QED
    BY <2>2, KeptNumbered DEF NumberedInv
<1>3. ASSUME NEW s \in Sheets, DeleteSheet(s)
      PROVE  NumberedInv'
  <2>1. PICK d \in Drawings : d = sheets[s].drawing
    BY <1>3 DEF DeleteSheet, TypeOK, SheetRow
  <2> DEFINE rest == SheetsOf(d) \ {s}
             rank(r) == 1 + Cardinality({q \in rest : sheets[q].no < sheets[r].no})
  <2>2. /\ drawings' = drawings /\ Exists(d) /\ Exists(d)'
        /\ rest # {} /\ s \in SheetsOf(d) /\ d # NoDrawing
    BY <1>3, <2>1, ConstantsAssumption DEF DeleteSheet, Editable, Exists, SheetsOf
  <2>3. sheets' = [r \in Sheets |-> IF r = s THEN FreeSheet
                                   ELSE IF r \in rest THEN [sheets[r] EXCEPT !.no = rank(r)]
                                   ELSE sheets[r]]
    BY <1>3, <2>1 DEF DeleteSheet
  <2> HIDE DEF rank
  <2>4. /\ sheets'[s].drawing = NoDrawing
        /\ \A r \in rest : sheets'[r].drawing = d /\ sheets'[r].no = rank(r)
        /\ \A r \in Sheets \ SheetsOf(d) : sheets'[r] = sheets[r]
    BY <2>2, <2>3 DEF SheetsOf, FreeSheet, TypeOK, SheetRow
  <2>5. SheetsOf(d)' = SheetsOf(d) \ {s}
    BY <2>2, <2>4 DEF SheetsOf
  <2>6. Numbered(d)'
    <3>1. \A r \in SheetsOf(d) \ {s} : sheets'[r].no = 1 + Cardinality(
             {q \in SheetsOf(d) \ {s} : sheets[q].no < sheets[r].no})
      BY <2>4 DEF rank
    <3>2. QED
      BY <2>2, <2>5, <3>1, SheetRemoved DEF NumberedInv
  <2>7. \A e \in Drawings \ {d} : NumbersKept(e)
    BY <2>2, <2>4, ConstantsAssumption DEF NumbersKept, Exists, SheetsOf
  <2>8. QED
    BY <2>6, <2>7, NumbersElsewhere
<1>4. ASSUME NEW s \in Sheets, NEW k \in FindingKeys, Waive(s, k) \/ Unwaive(s, k)
      PROVE  NumberedInv'
  <2>1. \A e \in Drawings : NumbersKept(e)
    BY <1>4 DEF Waive, Unwaive, NumbersKept, Exists, TypeOK, SheetRow
  <2>2. QED
    BY <2>1, KeptNumbered DEF NumberedInv
<1>5. QED
  BY <1>1, <1>2, <1>3, <1>4 DEF SheetStep


LEMMA DrawingStepNumbered ==
    ASSUME TypeOK, NumberedInv, DrawingStep
    PROVE  NumberedInv'
<1>1. ASSUME NEW d \in Drawings, NEW s \in Sheets, NEW t \in Texts, NEW c \in Documents,
             NEW j \in Projects, NEW y \in SystemsOf(j), CreateDrawing(d, s, j, y, t, c)
      PROVE  NumberedInv'
  <2>1. /\ sheets'[s].drawing = d /\ sheets'[s].no = 1
        /\ \A r \in Sheets \ {s} : sheets'[r] = sheets[r]
        /\ sheets[s].drawing = NoDrawing /\ d # NoDrawing
    BY <1>1, ConstantsAssumption DEF CreateDrawing, NewSheet, FreeSheet, TypeOK
  <2>2. /\ ~Exists(d) /\ Exists(d)'
        /\ \A e \in Drawings \ {d} : drawings'[e] = drawings[e]
    BY <1>1 DEF CreateDrawing, Exists, TypeOK
  <2>3. SheetsOf(d) = {} /\ Cardinality(SheetsOf(d)) = 0
    BY <2>2, FS_EmptySet DEF NumberedInv, Numbered
  <2>4. s \notin SheetsOf(d) /\ SheetsOf(d)' = SheetsOf(d) \cup {s}
    BY <2>1, <2>3 DEF SheetsOf
  <2>5. Numbered(d)'
    <3>1. Numbered(d) /\ sheets'[s].no = Cardinality(SheetsOf(d)) + 1
      BY <2>1, <2>3 DEF NumberedInv
    <3>2. \A r \in SheetsOf(d) : sheets'[r].no = sheets[r].no
      BY <2>3
    <3>3. QED
      BY <2>2, <2>4, <3>1, <3>2, SheetAdded
  <2>6. \A e \in Drawings \ {d} : NumbersKept(e)
    BY <2>1, <2>2, ConstantsAssumption DEF NumbersKept, Exists
  <2>7. QED
    BY <2>5, <2>6, NumbersElsewhere
<1>2. ASSUME NEW d \in Drawings, DeleteDrawing(d)
      PROVE  NumberedInv'
  <2>1. /\ ~Exists(d)' /\ \A e \in Drawings \ {d} : drawings'[e] = drawings[e]
        /\ \A s \in SheetsOf(d) : sheets'[s].drawing = NoDrawing
        /\ \A s \in Sheets \ SheetsOf(d) : sheets'[s] = sheets[s]
    BY <1>2 DEF DeleteDrawing, SheetsOf, FreeSheet, NoRow, Exists, TypeOK
  <2>2. SheetsOf(d)' = {}
    BY <2>1, ConstantsAssumption DEF SheetsOf
  <2>3. Numbered(d)'
    BY <2>1, <2>2, FS_EmptySet DEF Numbered
  <2>4. \A e \in Drawings \ {d} : NumbersKept(e)
    BY <2>1, ConstantsAssumption DEF NumbersKept, Exists, SheetsOf
  <2>5. QED
    BY <2>3, <2>4, NumbersElsewhere
<1>3. ASSUME NEW d \in Drawings, NEW t \in Texts, Revise(d, t)
      PROVE  NumberedInv'
  <2>1. \A e \in Drawings : NumbersKept(e)
    BY <1>3 DEF Revise, NumbersKept, SheetsOf, Exists, TypeOK, DrawingRow, SheetRow
  <2>2. QED
    BY <2>1, KeptNumbered DEF NumberedInv
<1>4. QED
  BY <1>1, <1>2, <1>3 DEF DrawingStep

\* Revisions and flags have nothing to do with the numbers.
LEMMA OtherStepNumbered ==
    ASSUME TypeOK, NumberedInv, RevisionStep \/ FlagStep
    PROVE  NumberedInv'
<1>1. \A d \in Drawings : Exists(d)' <=> Exists(d)
  <2>1. ASSUME NEW e \in Drawings, drawings'[e].status # "none" <=> drawings[e].status # "none",
               \A d \in Drawings \ {e} : drawings'[d] = drawings[d]
        PROVE  \A d \in Drawings : Exists(d)' <=> Exists(d)
    BY <2>1 DEF Exists
  <2>2. ASSUME NEW e \in Drawings, NEW y \in Systems \cup {Null}, NEW t \in Texts,
               UpdateDrawing(e, y, t) \/ CreateRevision(e, t)
        PROVE  \A d \in Drawings : Exists(d)' <=> Exists(d)
    BY <2>1, <2>2 DEF UpdateDrawing, CreateRevision, TypeOK, DrawingRow
  <2>3. ASSUME NEW e \in Drawings, NEW n \in 1..Current(e), NEW t \in Texts,
               UpdateRevision(e, n, t)
        PROVE  \A d \in Drawings : Exists(d)' <=> Exists(d)
    BY <2>1, <2>3 DEF UpdateRevision, TypeOK, DrawingRow
  <2>4. ASSUME NEW e \in Drawings, Submit(e) \/ Withdraw(e) \/ Release(e)
        PROVE  \A d \in Drawings : Exists(d)' <=> Exists(d)
    BY <2>1, <2>4 DEF Submit, Withdraw, SetStatus, Release, Editable, Exists, TypeOK, DrawingRow
  <2>5. CASE RevisionStep
    BY <2>2, <2>3, <2>4, <2>5 DEF RevisionStep
  <2>6. CASE FlagStep
    BY <2>6, RowsKept DEF Exists
  <2>7. QED
    BY <2>5, <2>6
<1>2. \A s \in Sheets : sheets'[s].drawing = sheets[s].drawing /\ sheets'[s].no = sheets[s].no
  <2>1. CASE RevisionStep
    BY <2>1 DEF RevisionStep, UpdateDrawing, CreateRevision, UpdateRevision, Submit, Withdraw,
                Release
  <2>2. CASE FlagStep
    BY <2>2, FlagStepFlags DEF RowsFlagged, Copy
  <2>3. QED
    BY <2>1, <2>2
<1>3. \A d \in Drawings : NumbersKept(d)
  BY <1>1, <1>2 DEF NumbersKept
<1>4. QED
  BY <1>3, KeptNumbered DEF NumberedInv

\* The drawings of a deleted project have no sheets left, the others keep theirs.
LEMMA RemovalStepNumbered ==
    ASSUME TypeOK, NumberedInv, RemovalStep
    PROVE  NumberedInv'
<1>1. ASSUME NEW j \in Projects, DeleteProject(j), NEW d \in Drawings
      PROVE  Numbered(d)'
  <2>1. /\ \A s \in SheetsUnder(j) : sheets'[s].drawing # d
        /\ \A s \in Sheets \ SheetsUnder(j) :
              sheets'[s].drawing = sheets[s].drawing /\ sheets'[s].no = sheets[s].no
    <3>1. \A s \in SheetsUnder(j) : sheets'[s].drawing # d
      BY <1>1, DeleteProjectRows, ConstantsAssumption DEF FreeSheet
    <3>2. \A s \in Sheets \ SheetsUnder(j) :
              sheets'[s].drawing = sheets[s].drawing /\ Copy(sheets'[s]) = Copy(sheets[s])
      BY <1>1, DeleteProjectRows
    <3>3. QED
      BY <3>1, <3>2 DEF Copy
  <2>2. CASE drawings[d].project = j
    <3>1. ~Exists(d)'
      BY <1>1, <2>2, DeleteProjectRows DEF Exists, NoRow
    <3>2. \A s \in Sheets : sheets[s].drawing = d => s \in SheetsUnder(j)
      BY <2>2, ConstantsAssumption DEF SheetsUnder, InUse
    <3>3. SheetsOf(d)' = {}
      BY <2>1, <3>2 DEF SheetsOf
    <3>4. QED
      BY <3>1, <3>3, FS_EmptySet DEF Numbered
  <2>3. CASE drawings[d].project # j
    <3>1. Exists(d)' <=> Exists(d)
      BY <1>1, <2>3, DeleteProjectRows DEF Exists
    <3>2. \A s \in SheetsUnder(j) : sheets[s].drawing # d
      BY <2>3 DEF SheetsUnder
    <3>3. NumbersKept(d)
      BY <2>1, <3>1, <3>2 DEF NumbersKept
    <3>4. QED
      BY <3>3, KeptNumbered DEF NumberedInv
  <2>4. QED
    BY <2>2, <2>3
<1>2. ASSUME NEW y \in Systems, DeleteSystem(y), NEW d \in Drawings
      PROVE  Numbered(d)'
  <2>1. NumbersKept(d)
    BY <1>2, DeleteSystemRows, RowFaded DEF DeleteSystem, NumbersKept, Exists
  <2>2. QED
    BY <2>1, KeptNumbered DEF NumberedInv
<1>3. QED
  BY <1>1, <1>2 DEF RemovalStep, NumberedInv

\* Every drawing has a sheet, and its sheets are numbered 1, 2, ... without a gap or a
\* repeat, through any additions and deletions (create_sheet, delete_sheet).
THEOREM NumbersHaveNoGap == Spec => []SheetsContiguous
<1>1. TypeOK /\ NumberedInv /\ [Next]_vars => NumberedInv'
  <2>1. ASSUME NumberedInv, UNCHANGED vars
        PROVE  NumberedInv'
    <3>1. \A d \in Drawings : NumbersKept(d)
      BY <2>1 DEF vars, NumbersKept, Exists
    <3>2. QED
      BY <2>1, <3>1, KeptNumbered DEF NumberedInv
  <2>2. QED
    BY <2>1, NextCases, SheetStepNumbered, DrawingStepNumbered, OtherStepNumbered,
       RemovalStepNumbered
<1>2. NumberedInv => SheetsContiguous
  BY DEF NumberedInv, Numbered, SheetsContiguous
<1>3. QED
  BY InitNumbered, TypeCorrect, <1>1, <1>2, PTL DEF Spec

-----------------------------------------------------------------------------
(* The release workflow of DrawingRelease implements Baselines: whatever   *)
(* the requests do to sheets, revisions and flags, a reader of a drawing   *)
(* sees it open or locked, and its baselines filed as they were locked.    *)

\* What the refinement mapping makes of one drawing.
Phase(d) == IF ~Exists(d) THEN "none" ELSE IF Unreleased(d) THEN "open" ELSE "locked"

Shown(d) == IF Exists(d) THEN Content(d, CurrentRevision(d).text) ELSE NoSnapshot

OnFile(d) == [n \in 1..MaxRevisions |->
                 IF n \in 1..Current(d) THEN drawings[d].revs[n].snapshot ELSE NoSnapshot]

\* The rows a reader of drawing d gets are the same after the step.
Unseen(d) ==
    /\ drawings'[d] = drawings[d]
    /\ \A s \in Sheets : /\ sheets'[s].drawing = d <=> sheets[s].drawing = d
                         /\ sheets[s].drawing = d => /\ Copy(sheets'[s]) = Copy(sheets[s])
                                                     /\ sheets'[s].cites = sheets[s].cites

UnseenBut(d) ==
    /\ \A e \in Drawings \ {d} : Unseen(e)
    /\ listed' = listed

\* The bound on the revisions is kept, so that every revision has its baseline.
Bounded == \A d \in Drawings : Current(d) <= MaxRevisions

LEMMA UnseenKept ==
    ASSUME NEW d \in Drawings, Unseen(d)
    PROVE  /\ Phase(d)' = Phase(d)
           /\ Shown(d)' = Shown(d)
           /\ Current(d)' = Current(d)
           /\ OnFile(d)' = OnFile(d)
<1>1. /\ Exists(d)' <=> Exists(d)
      /\ Unreleased(d)' <=> Unreleased(d)
      /\ Current(d)' = Current(d)
      /\ CurrentRevision(d)' = CurrentRevision(d)
      /\ drawings'[d].title = drawings[d].title
      /\ drawings'[d].system = drawings[d].system
  BY DEF Unseen, Exists, Unreleased, Current, CurrentRevision
<1>2. /\ SheetsOf(d)' = SheetsOf(d)
      /\ \A s \in SheetsOf(d) :
            Copy(sheets[s])' = Copy(sheets[s]) /\ sheets'[s].cites = sheets[s].cites
  BY DEF Unseen, SheetsOf, Copy
<1>3. Content(d, CurrentRevision(d).text)' = Content(d, CurrentRevision(d).text)
  <2>1. Links(d)' = Links(d)
    BY <1>1, <1>2 DEF Links
  <2>2. QED
    BY <1>1, <1>2, <2>1 DEF Content
<1>4. OnFile(d)' = OnFile(d)
  BY <1>1 DEF OnFile, Unseen
<1>5. QED
  BY <1>1, <1>3, <1>4 DEF Phase, Shown

-----------------------------------------------------------------------------
(* The actions of Baselines in terms of the mapping.                       *)

LEMMA OthersUnseen ==
    ASSUME NEW d \in Drawings, UnseenBut(d)
    PROVE  Promise!Others(d)
<1>1. \A e \in Drawings \ {d} : /\ Phase(e)' = Phase(e) /\ Shown(e)' = Shown(e)
                                /\ Current(e)' = Current(e) /\ OnFile(e)' = OnFile(e)
                                /\ drawings'[e].project = drawings[e].project
  BY UnseenKept DEF UnseenBut, Unseen
<1>2. QED
  BY <1>1 DEF Promise!Others, Promise!OnlyAt, UnseenBut, Phase, Shown, OnFile

LEMMA OpenSeen ==
    ASSUME NEW d \in Drawings, UnseenBut(d), Phase(d) = "none", Phase(d)' = "open",
           drawings'[d].project \in listed \cap Projects,
           \A n \in 1..MaxRevisions : OnFile(d)'[n] = NoSnapshot
    PROVE  Promise!Open(d)
  BY OthersUnseen DEF Promise!Open, Promise!NothingFiled, Phase, OnFile

LEMMA ChangeSeen ==
    ASSUME NEW d \in Drawings, UnseenBut(d), Phase(d) = "open", Phase(d)' = "open",
           drawings'[d].project = drawings[d].project,
           Current(d)' \in {Current(d), Current(d) + 1}, OnFile(d)' = OnFile(d)
    PROVE  Promise!Change(d)
  BY OthersUnseen DEF Promise!Change, Phase, OnFile

LEMMA LockSeen ==
    ASSUME NEW d \in Drawings, UnseenBut(d), Phase(d) = "open", Phase(d)' = "locked",
           drawings'[d].project = drawings[d].project,
           Shown(d)' = Shown(d), Current(d)' = Current(d),
           OnFile(d)[Current(d)] = NoSnapshot,
           OnFile(d)' = [OnFile(d) EXCEPT ![Current(d)] = Shown(d)]
    PROVE  Promise!Lock(d)
  BY OthersUnseen DEF Promise!Lock, Phase, OnFile, Shown

LEMMA ReopenSeen ==
    ASSUME NEW d \in Drawings, UnseenBut(d), Phase(d) = "locked", Phase(d)' = "open",
           drawings'[d].project = drawings[d].project,
           Current(d)' = Current(d) + 1, OnFile(d)' = OnFile(d)
    PROVE  Promise!Reopen(d)
  BY OthersUnseen DEF Promise!Reopen, Phase, OnFile

LEMMA DiscardSeen ==
    ASSUME NEW d \in Drawings, UnseenBut(d), Phase(d) = "open", Phase(d)' = "none",
           \A n \in 1..MaxRevisions : OnFile(d)'[n] = NoSnapshot
    PROVE  Promise!Discard(d)
  BY OthersUnseen DEF Promise!Discard, Promise!NothingFiled, Phase, OnFile

LEMMA LapseSeen ==
    ASSUME TypeOK, NEW d \in Drawings, RowFades(d), SheetsFade(d)
    PROVE  Promise!Lapses(d)
<1>1. /\ Phase(d)' = Phase(d) /\ Current(d)' = Current(d) /\ OnFile(d)' = OnFile(d)
      /\ drawings'[d].project = drawings[d].project
      /\ Exists(d)' <=> Exists(d)
      /\ CurrentRevision(d)' = CurrentRevision(d)
  BY RowFaded DEF Phase, OnFile, Exists, Unreleased, Current, CurrentRevision
<1>2. Promise!Loses(Shown(d), Shown(d)')
  <2>1. CASE ~Exists(d)
    BY <1>1, <2>1 DEF Shown, Promise!Loses
  <2>2. CASE Exists(d)
    <3>1. \A t : Promise!Loses(Content(d, t), Content(d, t)')
      BY ContentFades
    <3>2. QED
      BY <1>1, <2>2, <3>1 DEF Shown
  <2>3. QED
    BY <2>1, <2>2
<1>3. QED
  BY <1>1, <1>2 DEF Promise!Lapses, Phase, OnFile, Shown

LEMMA AllUnseen ==
    ASSUME \A d \in Drawings : Unseen(d), listed' = listed
    PROVE  UNCHANGED Promise!vars
<1>1. \A d \in Drawings : /\ Phase(d)' = Phase(d) /\ Shown(d)' = Shown(d)
                          /\ Current(d)' = Current(d) /\ OnFile(d)' = OnFile(d)
                          /\ drawings'[d].project = drawings[d].project
  BY UnseenKept DEF Unseen
<1>2. QED
  BY <1>1 DEF Promise!vars, Phase, Shown, OnFile

-----------------------------------------------------------------------------
(* The steps.                                                              *)

LEMMA BoundedBut ==
    ASSUME Bounded, NEW d \in Drawings, Current(d)' <= MaxRevisions,
           \A e \in Drawings \ {d} : drawings'[e] = drawings[e]
    PROVE  Bounded'
<1>1. \A e \in Drawings \ {d} : Current(e)' = Current(e)
  BY DEF Current
<1>2. QED
  BY <1>1 DEF Bounded

LEMMA InitPromised == Init => Promise!Init /\ Bounded
  BY ConstantsAssumption
     DEF Init, Promise!Init, Promise!NothingFiled, Bounded, NoRow, Exists, Current

\* A drawing's phase follows its status.
LEMMA PhaseOf ==
    ASSUME TypeOK, NEW d \in Drawings
    PROVE  /\ Phase(d) = "none" <=> ~Exists(d)
           /\ Phase(d) = "open" <=> Editable(d)
           /\ Phase(d) = "locked" <=> drawings[d].status = "released"
  BY DEF Phase, Exists, Unreleased, Editable

\* Requests on the sheets of a drawing change what an open drawing shows.
LEMMA SheetStepPromised ==
    ASSUME TypeOK, SheetStep
    PROVE  \E d \in Drawings : Promise!Change(d)
<1>1. ASSUME NEW d \in Drawings, Editable(d), drawings' = drawings, UnseenBut(d)
      PROVE  Promise!Change(d)
  <2>1. /\ Phase(d) = "open" /\ Phase(d)' = "open"
        /\ Current(d)' = Current(d) /\ OnFile(d)' = OnFile(d)
    BY <1>1 DEF Phase, Editable, Exists, Unreleased, Current, OnFile
  <2>2. QED
    BY <1>1, <2>1, ChangeSeen
<1>2. ASSUME NEW d \in Drawings, NEW s \in Sheets, NEW t \in Texts, NEW c \in Documents,
             CreateSheet(d, s, t, c)
      PROVE  Promise!Change(d)
  <2>1. UnseenBut(d)
    BY <1>2, ConstantsAssumption
       DEF CreateSheet, UnseenBut, Unseen, NewSheet, FreeSheet, TypeOK
  <2>2. QED
    BY <1>1, <1>2, <2>1 DEF CreateSheet
<1>3. ASSUME NEW s \in Sheets, NEW t, NEW c, NEW drc, NEW ix,
             SaveSheet(s, t, c, ix, drc, TRUE)
      PROVE  \E d \in Drawings : Promise!Change(d)
  <2> DEFINE d == sheets[s].drawing
  <2>1. d \in Drawings
    BY <1>3 DEF SaveSheet, TypeOK, SheetRow
  <2>2. SavedRow(sheets[s], t, c, ix, drc, TRUE).drawing = d
    BY DEF SavedRow, TypeOK, SheetRow
  <2>3. UnseenBut(d)
    BY <1>3, <2>2 DEF SaveSheet, UnseenBut, Unseen, TypeOK
  <2>4. QED
    BY <1>1, <1>3, <2>1, <2>3 DEF SaveSheet
<1>4. ASSUME NEW s \in Sheets, DeleteSheet(s)
      PROVE  \E d \in Drawings : Promise!Change(d)
  <2> DEFINE d == sheets[s].drawing
  <2>1. d \in Drawings
    BY <1>4 DEF DeleteSheet, TypeOK, SheetRow
  <2>2. UnseenBut(d)
    BY <1>4, ConstantsAssumption
       DEF DeleteSheet, UnseenBut, Unseen, FreeSheet, SheetsOf, TypeOK, SheetRow
  <2>3. QED
    BY <1>1, <1>4, <2>1, <2>2 DEF DeleteSheet
<1>5. ASSUME NEW s \in Sheets, NEW k \in FindingKeys, Waive(s, k) \/ Unwaive(s, k)
      PROVE  \E d \in Drawings : Promise!Change(d)
  <2> DEFINE d == sheets[s].drawing
  <2>1. d \in Drawings /\ Editable(d) /\ drawings' = drawings
    BY <1>5 DEF Waive, Unwaive, TypeOK, SheetRow
  <2>2. UnseenBut(d)
    BY <1>5 DEF Waive, Unwaive, UnseenBut, Unseen, TypeOK, SheetRow
  <2>3. QED
    BY <1>1, <2>1, <2>2
<1>6. QED
  BY <1>2, <1>3, <1>4, <1>5 DEF SheetStep

\* The flags are not part of what is shown or filed; a deleted requirement takes links.
LEMMA FlagStepPromised ==
    ASSUME TypeOK, FlagStep
    PROVE  Promise!Lapse \/ Promise!Found
<1>1. ASSUME NEW j \in Projects, CreateProject(j)
      PROVE  Promise!Found
  <2>1. \A d \in Drawings : Unseen(d)
    BY <1>1 DEF CreateProject, Unseen
  <2>2. \A d \in Drawings : /\ Phase(d)' = Phase(d) /\ Shown(d)' = Shown(d)
                            /\ Current(d)' = Current(d) /\ OnFile(d)' = OnFile(d)
                            /\ drawings'[d].project = drawings[d].project
    BY <2>1, UnseenKept DEF Unseen
  <2>3. listed \cap Projects \subseteq listed' \cap Projects
    BY <1>1 DEF CreateProject
  <2>4. QED
    BY <2>2, <2>3 DEF Promise!Found, Phase, Shown, OnFile
<1>2. ASSUME \/ \E p \in Parts : CatalogRequest(p)
             \/ \E r \in Requirements : RequirementRequest(r)
      PROVE  Promise!Lapse
  <2>1. listed' \cap Projects = listed \cap Projects
    BY <1>2, ConstantsAssumption
       DEF CatalogRequest, UpdatePart, ObsoletePart, DeletePart, RequirementRequest,
           CreateRequirement, UpdateRequirement, DeleteRequirement
  <2>2. \A d \in Drawings : RowFades(d) /\ SheetsFade(d)
    BY FlagStepFlags, RowsKept, RowKeptFades DEF RowsFlagged, SheetsFade
  <2>3. QED
    BY <2>1, <2>2, LapseSeen DEF Promise!Lapse
<1>3. QED
  BY <1>1, <1>2 DEF FlagStep

\* A deleted system takes links, a deleted project all that was in it.
LEMMA RemovalStepPromised ==
    ASSUME TypeOK, Bounded, RemovalStep
    PROVE  /\ Promise!Lapse \/ \E j \in listed \cap Projects : Promise!Purge(j)
           /\ Bounded'
<1>1. ASSUME NEW j \in Projects, DeleteProject(j)
      PROVE  Promise!Purge(j) /\ j \in listed \cap Projects /\ Bounded'
  <2>1. j \in listed /\ listed' \cap Projects = (listed \cap Projects) \ {j}
    BY <1>1, ConstantsAssumption DEF DeleteProject, RequirementsOf
  <2>2. ASSUME NEW d \in Drawings, drawings[d].project = j
        PROVE  /\ Phase(d)' = "none" /\ Current(d)' = 0
               /\ \A n \in 1..MaxRevisions : OnFile(d)'[n] = NoSnapshot
    <3>1. drawings'[d] = NoRow
      BY <1>1, <2>2, DeleteProjectRows
    <3>2. Phase(d)' = "none" /\ Current(d)' = 0
      BY <3>1 DEF Phase, Exists, Current, NoRow
    <3>3. QED
      BY <3>2 DEF OnFile
  <2>3. ASSUME NEW d \in Drawings, drawings[d].project # j
        PROVE  Promise!Lapses(d) /\ Current(d)' = Current(d)
    <3>1. drawings'[d] = drawings[d]
      BY <1>1, <2>3, DeleteProjectRows
    <3>2. \A s \in SheetsUnder(j) : sheets[s].drawing # d /\ sheets'[s].drawing # d
      BY <1>1, <2>3, DeleteProjectRows, ConstantsAssumption DEF FreeSheet, SheetsUnder
    <3>3. SheetsFade(d)
      BY <1>1, <3>2, DeleteProjectRows DEF SheetsFade
    <3>4. QED
      BY <3>1, <3>3, RowKeptFades, LapseSeen DEF Current
  <2>4. Bounded'
    BY <2>2, <2>3, ConstantsAssumption DEF Bounded
  <2>5. Promise!Purge(j)
    BY <2>1, <2>2, <2>3 DEF Promise!Purge, Promise!NothingFiled, Phase, OnFile
  <2>6. QED
    BY <2>1, <2>4, <2>5
<1>2. ASSUME NEW y \in Systems, DeleteSystem(y)
      PROVE  Promise!Lapse /\ Bounded'
  <2>1. \A d \in Drawings : RowFades(d) /\ SheetsFade(d)
    BY <1>2, DeleteSystemRows DEF DeleteSystem, SheetsFade
  <2>2. listed' = listed /\ \A d \in Drawings : Current(d)' = Current(d)
    BY <1>2, <2>1, RowFaded DEF DeleteSystem, Current
  <2>3. QED
    BY <2>1, <2>2, LapseSeen DEF Promise!Lapse, Bounded
<1>3. QED
  BY <1>1, <1>2 DEF RemovalStep

\* Requests on the rows of a drawing change it while it stays open, or lock it.
LEMMA RevisionStepPromised ==
    ASSUME TypeOK, ReleaseInv, Bounded, RevisionStep
    PROVE  /\ \E d \in Drawings : Promise!Change(d) \/ Promise!Lock(d)
           /\ Bounded'
<1>1. ASSUME NEW d \in Drawings, sheets' = sheets, listed' = listed,
             \A e \in Drawings \ {d} : drawings'[e] = drawings[e]
      PROVE  UnseenBut(d)
  BY <1>1 DEF UnseenBut, Unseen
<1>2. ASSUME NEW d \in Drawings, NEW y \in Systems \cup {Null}, NEW t \in Texts,
             UpdateDrawing(d, y, t)
      PROVE  Promise!Change(d) /\ Bounded'
  <2>1. /\ drawings'[d].status = drawings[d].status /\ drawings'[d].revs = drawings[d].revs
        /\ drawings'[d].project = drawings[d].project
        /\ \A e \in Drawings \ {d} : drawings'[e] = drawings[e]
    <3>1. /\ drawings'[d] = [drawings[d] EXCEPT !.title = t, !.system = y]
          /\ \A e \in Drawings \ {d} : drawings'[e] = drawings[e]
      BY <1>2 DEF UpdateDrawing, TypeOK
    <3>2. QED
      BY <3>1 DEF TypeOK, DrawingRow
  <2>2. /\ Phase(d) = "open" /\ Phase(d)' = "open"
        /\ Current(d)' = Current(d) /\ OnFile(d)' = OnFile(d)
    <3>1. Editable(d)
      BY <1>2 DEF UpdateDrawing
    <3>2. Phase(d) = "open" /\ Phase(d)' = "open"
      BY <2>1, <3>1 DEF Phase, Editable, Exists, Unreleased
    <3>3. Current(d)' = Current(d) /\ OnFile(d)' = OnFile(d)
      BY <2>1 DEF Current, OnFile
    <3>4. QED
      BY <3>2, <3>3
  <2>3. Bounded'
    BY <2>1 DEF Bounded, Current
  <2>4. QED
    BY <1>1, <1>2, <2>1, <2>2, <2>3, ChangeSeen DEF UpdateDrawing
<1>3. ASSUME NEW d \in Drawings, NEW t \in Texts, CreateRevision(d, t)
      PROVE  Promise!Change(d) /\ Bounded'
  <2>1. /\ drawings'[d].status = drawings[d].status
        /\ drawings'[d].revs = Append(drawings[d].revs, NewRevision(t))
        /\ drawings'[d].project = drawings[d].project
        /\ \A e \in Drawings \ {d} : drawings'[e] = drawings[e]
    BY <1>3 DEF CreateRevision, TypeOK, DrawingRow
  <2>2. Phase(d) = "open" /\ Phase(d)' = "open"
    BY <1>3, <2>1 DEF CreateRevision, Phase, Editable, Exists, Unreleased
  <2>3. Current(d)' = Current(d) + 1 /\ OnFile(d)' = OnFile(d)
    BY <2>1, CurrentType DEF Current, OnFile, NewRevision
  <2>4. Bounded'
    BY <1>3, <2>1, <2>3, CurrentType, ConstantsAssumption DEF Bounded, Current, CreateRevision
  <2>5. QED
    BY <1>1, <1>3, <2>1, <2>2, <2>3, <2>4, ChangeSeen DEF CreateRevision
<1>4. ASSUME NEW d \in Drawings, NEW n \in 1..Current(d), NEW t \in Texts,
             UpdateRevision(d, n, t)
      PROVE  Promise!Change(d) /\ Bounded'
  <2>1. /\ drawings'[d].status = drawings[d].status
        /\ drawings'[d].revs = [drawings[d].revs EXCEPT ![n].text = t]
        /\ drawings'[d].project = drawings[d].project
        /\ \A e \in Drawings \ {d} : drawings'[e] = drawings[e]
    BY <1>4 DEF UpdateRevision, TypeOK, DrawingRow
  <2>2. Phase(d) = "open" /\ Phase(d)' = "open"
    BY <1>4, <2>1 DEF UpdateRevision, Phase, Editable, Exists, Unreleased
  <2>3. /\ Len(drawings'[d].revs) = Len(drawings[d].revs)
        /\ \A m \in 1..Current(d) : drawings'[d].revs[m].snapshot = drawings[d].revs[m].snapshot
    <3>1. [drawings[d].revs[n] EXCEPT !.text = t].snapshot = drawings[d].revs[n].snapshot
      BY CurrentType DEF Revision
    <3>2. QED
      BY <2>1, <3>1, CurrentType, ExceptSeq DEF Current, Revision
  <2>4. Current(d)' = Current(d) /\ OnFile(d)' = OnFile(d)
    BY <2>3 DEF Current, OnFile
  <2>5. Bounded'
    BY <2>1, <2>4 DEF Bounded, Current
  <2>6. QED
    BY <1>1, <1>4, <2>1, <2>2, <2>4, <2>5, ChangeSeen DEF UpdateRevision
<1>5. ASSUME NEW d \in Drawings, NEW status \in Status, SetStatus(d, status),
             Editable(d), status # "released", sheets' = sheets, listed' = listed
      PROVE  Promise!Change(d) /\ Bounded'
  <2> DEFINE row == [CurrentRevision(d) EXCEPT !.status = status]
  <2>1. Current(d) > 0
    BY <1>5 DEF ReleaseInv, RevisionsSound, Editable
  <2>2. row \in Revision /\ row.snapshot = CurrentRevision(d).snapshot
    BY <2>1, CurrentType DEF Revision
  <2>3. ReplacesCurrent(d, status, row)
    BY <1>5 DEF ReplacesCurrent, SetStatus, CurrentRevision
  <2> HIDE DEF row
  <2>4. /\ drawings'[d].status = status /\ Current(d)' = Current(d)
        /\ drawings'[d].project = drawings[d].project
        /\ drawings'[d].revs[Current(d)] = row
        /\ \A n \in 1..Current(d) \ {Current(d)} : drawings'[d].revs[n] = drawings[d].revs[n]
        /\ \A e \in Drawings \ {d} : drawings'[e] = drawings[e]
    BY <2>1, <2>2, <2>3, CurrentReplaced
  <2>5. Phase(d) = "open" /\ Phase(d)' = "open"
    BY <1>5, <2>4 DEF Phase, Editable, Exists, Unreleased, Status
  <2>6. OnFile(d)' = OnFile(d)
    BY <2>2, <2>4 DEF OnFile, CurrentRevision
  <2>7. Bounded'
    BY <2>4 DEF Bounded, Current
  <2>8. QED
    BY <1>1, <1>5, <2>4, <2>5, <2>6, <2>7, ChangeSeen
<1>6. ASSUME NEW d \in Drawings, Release(d)
      PROVE  Promise!Lock(d) /\ Bounded'
  <2>1. /\ Current(d) > 0 /\ CurrentRevision(d).snapshot = NoSnapshot
        /\ sheets' = sheets /\ listed' = listed
    BY <1>6, CurrentType DEF ReleaseInv, RevisionsSound, Release, Editable, CurrentRevision
  <2>2. CurrentRevision(d) \in Revision /\ CurrentRevision(d).text \in Texts
    BY <2>1, CurrentType DEF Revision
  <2>3. /\ Filed(d) \in Revision
        /\ Filed(d).text = CurrentRevision(d).text
        /\ Filed(d).snapshot = Shown(d)
    BY <1>6, <2>2, ContentType DEF Filed, Revision, Status, Shown, Release, Editable
  <2>4. ReplacesCurrent(d, "released", Filed(d))
    BY <1>6 DEF ReplacesCurrent, Release
  <2>5. /\ drawings'[d].status = "released" /\ drawings'[d].title = drawings[d].title
        /\ drawings'[d].project = drawings[d].project
        /\ drawings'[d].system = drawings[d].system
        /\ Current(d)' = Current(d)
        /\ CurrentRevision(d)' = Filed(d) /\ drawings'[d].revs[Current(d)] = Filed(d)
        /\ \A n \in 1..Current(d) \ {Current(d)} : drawings'[d].revs[n] = drawings[d].revs[n]
        /\ \A e \in Drawings \ {d} : drawings'[e] = drawings[e]
    BY <2>1, <2>3, <2>4, CurrentReplaced
  <2>6. Phase(d) = "open" /\ Phase(d)' = "locked"
    BY <1>6, <2>5 DEF Release, Phase, Editable, Exists, Unreleased
  <2>7. Shown(d)' = Shown(d)
    BY <1>6, <2>1, <2>3, <2>5 DEF Shown, Content, Links, SheetsOf, Exists, Release, Editable
  <2>8. Current(d) \in 1..MaxRevisions
    BY <2>1, CurrentType, ConstantsAssumption DEF Bounded
  <2>9. OnFile(d)[Current(d)] = NoSnapshot
    BY <2>1, <2>8 DEF OnFile, CurrentRevision
  <2>10. OnFile(d)' = [OnFile(d) EXCEPT ![Current(d)] = Shown(d)]
    <3>1. \A n \in 1..MaxRevisions :
             OnFile(d)'[n] = IF n = Current(d) THEN Shown(d) ELSE OnFile(d)[n]
      <4> TAKE n \in 1..MaxRevisions
      <4>1. CASE n = Current(d)
        <5>1. OnFile(d)'[n] = drawings'[d].revs[n].snapshot
          BY <2>1, <2>5, <4>1, CurrentType DEF OnFile
        <5>2. QED
          BY <2>3, <2>5, <4>1, <5>1
      <4>2. CASE n # Current(d)
        BY <2>5, <4>2 DEF OnFile
      <4>3. QED
        BY <4>1, <4>2
    <3>2. OnFile(d)' = [n \in 1..MaxRevisions |-> OnFile(d)'[n]]
      BY DEF OnFile
    <3>3. OnFile(d) = [n \in 1..MaxRevisions |-> OnFile(d)[n]]
      BY DEF OnFile
    <3> HIDE DEF OnFile, Shown
    <3>4. QED
      BY <2>8, <3>1, <3>2, <3>3
  <2>11. Bounded'
    BY <2>5 DEF Bounded, Current
  <2>12. QED
    BY <1>1, <2>1, <2>5, <2>6, <2>7, <2>9, <2>10, <2>11, LockSeen
<1>7. ASSUME NEW d \in Drawings, Submit(d) \/ Withdraw(d)
      PROVE  Promise!Change(d) /\ Bounded'
  BY <1>5, <1>7 DEF Submit, Withdraw, Editable, Exists, Status
<1>8. QED
  BY <1>2, <1>3, <1>4, <1>6, <1>7 DEF RevisionStep

\* Creating, deleting and revising a drawing open, discard and reopen it.
LEMMA DrawingStepPromised ==
    ASSUME TypeOK, ReleaseInv, Bounded, DrawingStep
    PROVE  /\ \E d \in Drawings : Promise!Open(d) \/ Promise!Discard(d) \/ Promise!Reopen(d)
           /\ Bounded'
<1>1. ASSUME NEW d \in Drawings, NEW s \in Sheets, NEW t \in Texts, NEW c \in Documents,
             NEW j \in Projects, NEW y \in SystemsOf(j), CreateDrawing(d, s, j, y, t, c)
      PROVE  Promise!Open(d) /\ Bounded'
  <2>1. /\ drawings'[d] = [status |-> "draft", project |-> j, system |-> y, title |-> t,
                           revs |-> <<NewRevision(t)>>]
        /\ \A e \in Drawings \ {d} : drawings'[e] = drawings[e]
    BY <1>1 DEF CreateDrawing, TypeOK
  <2>2. UnseenBut(d)
    BY <1>1, <2>1, ConstantsAssumption
       DEF CreateDrawing, UnseenBut, Unseen, NewSheet, FreeSheet, TypeOK
  <2>3. Phase(d) = "none" /\ Phase(d)' = "open"
    BY <1>1, <2>1 DEF CreateDrawing, Phase, Exists, Unreleased
  <2>4. Current(d)' = 1
    BY <2>1 DEF Current
  <2>5. \A n \in 1..MaxRevisions : OnFile(d)'[n] = NoSnapshot
    BY <2>1, <2>4 DEF OnFile, NewRevision
  <2>6. Bounded'
    BY <2>1, <2>4, BoundedBut, ConstantsAssumption
  <2>7. QED
    <3>1. drawings'[d].project \in listed \cap Projects
      BY <1>1, <2>1 DEF CreateDrawing
    <3>2. QED
      BY <2>2, <2>3, <2>5, <2>6, <3>1, OpenSeen
<1>2. ASSUME NEW d \in Drawings, DeleteDrawing(d)
      PROVE  Promise!Discard(d) /\ Bounded'
  <2>1. /\ drawings'[d] = NoRow
        /\ \A e \in Drawings \ {d} : drawings'[e] = drawings[e]
    BY <1>2 DEF DeleteDrawing, TypeOK
  <2>2. UnseenBut(d)
    BY <1>2, <2>1, ConstantsAssumption
       DEF DeleteDrawing, SheetsOf, UnseenBut, Unseen, FreeSheet, TypeOK
  <2>3. Phase(d) = "open" /\ Phase(d)' = "none"
    BY <1>2, <2>1 DEF DeleteDrawing, Phase, Exists, Unreleased, Editable, NoRow
  <2>4. Current(d)' = 0
    BY <2>1 DEF Current, NoRow
  <2>5. \A n \in 1..MaxRevisions : OnFile(d)'[n] = NoSnapshot
    BY <2>4 DEF OnFile
  <2>6. Bounded'
    BY <2>1, <2>4, BoundedBut, ConstantsAssumption
  <2>7. QED
    BY <2>2, <2>3, <2>5, <2>6, DiscardSeen
<1>3. ASSUME NEW d \in Drawings, NEW t \in Texts, Revise(d, t)
      PROVE  Promise!Reopen(d) /\ Bounded'
  <2>1. /\ drawings'[d].status = "draft"
        /\ drawings'[d].revs = Append(drawings[d].revs, NewRevision(t))
        /\ drawings'[d].project = drawings[d].project
        /\ \A e \in Drawings \ {d} : drawings'[e] = drawings[e]
    BY <1>3 DEF Revise, TypeOK, DrawingRow
  <2>2. UnseenBut(d)
    BY <1>3, <2>1 DEF Revise, SheetsOf, UnseenBut, Unseen, Copy, TypeOK, SheetRow
  <2>3. Phase(d) = "locked" /\ Phase(d)' = "open"
    BY <1>3, <2>1 DEF Revise, Phase, Exists, Unreleased
  <2>4. Current(d)' = Current(d) + 1 /\ OnFile(d)' = OnFile(d)
    BY <2>1, CurrentType DEF Current, OnFile, NewRevision
  <2>5. Bounded'
    <3>1. Current(d)' <= MaxRevisions
      BY <1>3, <2>4, CurrentType, ConstantsAssumption DEF Revise
    <3>2. QED
      BY <2>1, <3>1, BoundedBut
  <2>6. QED
    BY <2>1, <2>2, <2>3, <2>4, <2>5, ReopenSeen
<1>4. QED
  BY <1>1, <1>2, <1>3 DEF DrawingStep

\* A request at a time, the server keeps what Baselines promises of every drawing: a
\* release files exactly what the rows hold under a number that was free, nothing else
\* files or changes anything filed, only a new revision reopens a released drawing, and
\* while released it loses nothing but links to a system or requirement that is deleted.
\* Its baselines are as safe as its project: delete_project takes them along.
THEOREM BaselinesImplemented == Spec => ImplementsBaselines
<1>1. TypeOK /\ ReleaseInv /\ Bounded /\ [Next]_vars => [Promise!Next]_Promise!vars /\ Bounded'
  <2>1. CASE SheetStep
    BY <2>1, SheetStepPromised, RowsKept DEF Promise!Next, Bounded, Current
  <2>2. CASE FlagStep
    BY <2>2, FlagStepPromised, RowsKept DEF Promise!Next, Bounded, Current
  <2>3. ASSUME TypeOK, ReleaseInv, Bounded, RevisionStep
        PROVE  Promise!Next /\ Bounded'
    BY <2>3, RevisionStepPromised DEF Promise!Next
  <2>4. ASSUME TypeOK, ReleaseInv, Bounded, DrawingStep
        PROVE  Promise!Next /\ Bounded'
    BY <2>4, DrawingStepPromised DEF Promise!Next
  <2>5. ASSUME TypeOK, Bounded, RemovalStep
        PROVE  Promise!Next /\ Bounded'
    BY <2>5, RemovalStepPromised DEF Promise!Next
  <2>6. ASSUME UNCHANGED vars, Bounded
        PROVE  UNCHANGED Promise!vars /\ Bounded'
    <3>1. listed' = listed /\ \A d \in Drawings : Unseen(d)
      BY <2>6 DEF vars, Unseen, Copy
    <3>2. QED
      BY <2>6, <3>1, AllUnseen DEF vars, Bounded, Current
  <2>7. QED
    BY <2>1, <2>2, <2>3, <2>4, <2>5, <2>6, NextCases
<1>2. QED
  BY InitPromised, TypeCorrect, ReleaseInvHolds, <1>1, PTL
     DEF Spec, ImplementsBaselines, Promise!Spec

=============================================================================
