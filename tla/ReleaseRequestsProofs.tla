------------------------ MODULE ReleaseRequestsProofs -----------------------
(***************************************************************************)
(* Overlapping requests, for any number of workers, drawings and sheets:   *)
(* the tables keep their types, no filed snapshot is lost, and a request   *)
(* that runs alone on its drawing does what DrawingRelease says it does.   *)
(***************************************************************************)
EXTENDS ReleaseRequests, DrawingReleaseProofs

\* What the payload of an operation looks like, and which rows are loaded for it.
Fits(r) ==
    /\ r \in RequestType
    /\ r.op \notin Workflow => r.sheet \in Sheets
    /\ r.op = "create_sheet" => r.arg \in Payload("create_sheet")
    /\ r.op = "save" => r.arg \in Payload("save")
    /\ r.op \in {"waive", "unwaive"} => r.arg \in FindingKeys
    /\ r.op = "delete_sheet" => r.seen[r.sheet].drawing = r.drawing

\* A drawing has a revision as long as it exists.
Founded == \A d \in Drawings : Exists(d) => Current(d) > 0

\* No drawing is deleted under a request and none loses a revision; an id some request
\* has seen in use is not taken by another drawing's sheet.
Grounded(r) ==
    /\ Exists(r.drawing)
    /\ r.op \in Workflow => Len(r.row.revs) \in 1..Current(r.drawing)
    /\ \A s \in Sheets : r.seen[s].drawing # NoDrawing =>
           sheets[s].drawing \in {NoDrawing, r.seen[s].drawing}

\* The decision a request took on loading still stands; whether the id of a new sheet is
\* still free is left to its commit.
StillAccepts(op, d, s, arg) ==
    /\ op = "submit" => drawings[d].status = "draft"
    /\ op = "withdraw" => drawings[d].status = "in_review"
    /\ op = "release" => NoBlockers(d)
    /\ op = "revise" => drawings[d].status = "released"
    /\ op \notin {"submit", "withdraw", "revise"} => Editable(d)
    /\ op \in {"delete_sheet", "save", "waive", "unwaive"} => s \in SheetsOf(d)
    /\ op = "delete_sheet" => SheetsOf(d) # {s}
    /\ op = "unwaive" => arg \in sheets[s].waivers

\* What a request has read of its drawing is what the tables hold.
UpToDate(r) ==
    /\ r.row = KeptRow(r.op, r.drawing)
    /\ \A s \in Sheets : sheets[s].drawing = r.drawing \/ r.seen[s].drawing = r.drawing =>
           r.seen[s] = KeptSheet(r.op, s, r.sheet)
    /\ r.docs \in {Absent, [s \in SheetsOf(r.drawing) |-> sheets[s].doc]}
    /\ StillAccepts(r.op, r.drawing, r.sheet, r.arg)

Requests == \A w \in Workers : Busy(w) => Fits(req[w]) /\ Grounded(req[w])

Readable ==
    /\ TypeOK
    /\ Founded
    /\ req \in [Workers -> {Idle} \cup RequestType]
    /\ Requests

\* The payloads the steps of NextRequests load.
Asked(op, s, arg) ==
    \/ op \in Workflow /\ s = Absent /\ arg = Absent
    \/ op = "delete_sheet" /\ s \in Sheets /\ arg = Absent
    \/ op \in {"create_sheet", "save", "waive", "unwaive"} /\ s \in Sheets /\ arg \in Payload(op)

LEMMA RequestCases ==
    NextRequests => \/ \E w \in Workers, d \in Drawings : \E op, s, arg :
                          Asked(op, s, arg) /\ Load(w, op, d, s, arg)
                    \/ \E w \in Workers : LoadDocuments(w) \/ Commit(w) \/ Fail(w)
                    \/ Disturb
<1>1. ASSUME NEW w \in Workers, NEW d \in Drawings, NEW op \in Workflow,
             Load(w, op, d, Absent, Absent)
      PROVE  \E v \in Workers, e \in Drawings : \E p, s, arg : Asked(p, s, arg) /\ Load(v, p, e, s, arg)
  BY <1>1 DEF Asked
<1>2. ASSUME NEW w \in Workers, NEW d \in Drawings, NEW s \in Sheets,
             Load(w, "delete_sheet", d, s, Absent)
      PROVE  \E v \in Workers, e \in Drawings : \E p, r, arg : Asked(p, r, arg) /\ Load(v, p, e, r, arg)
  BY <1>2 DEF Asked
<1>3. ASSUME NEW w \in Workers, NEW d \in Drawings,
             NEW op \in {"create_sheet", "save", "waive", "unwaive"}, NEW s \in Sheets,
             NEW arg \in Payload(op), Load(w, op, d, s, arg)
      PROVE  \E v \in Workers, e \in Drawings : \E p, r, a : Asked(p, r, a) /\ Load(v, p, e, r, a)
  <2>1. Asked(op, s, arg)
    BY DEF Asked
  <2>2. QED
    BY <1>3, <2>1
<1>4. QED
  BY <1>1, <1>2, <1>3 DEF NextRequests

-----------------------------------------------------------------------------
(* Loading.                                                                *)

LEMMA RevisionsAsSeq ==
    ASSUME NEW n \in Nat, NEW rows \in [1..n -> Revision]
    PROVE  rows \in Seq(Revision) /\ Len(rows) = n
  OBVIOUS

\* The revisions a workflow request keeps are those of the drawing without snapshots.
LEMMA KeptRowType ==
    ASSUME TypeOK, NEW d \in Drawings, NEW op
    PROVE  /\ KeptRow(op, d) \in DrawingRow
           /\ op \in Workflow =>
                 /\ KeptRow(op, d).status = drawings[d].status
                 /\ KeptRow(op, d).system = drawings[d].system
                 /\ KeptRow(op, d).title = drawings[d].title
                 /\ Len(KeptRow(op, d).revs) = Current(d)
                 /\ \A n \in 1..Current(d) :
                       KeptRow(op, d).revs[n] =
                           [drawings[d].revs[n] EXCEPT !.snapshot = NoSnapshot]
<1> DEFINE kept == [n \in 1..Current(d) |->
                       [drawings[d].revs[n] EXCEPT !.snapshot = NoSnapshot]]
<1>1. \A n \in 1..Current(d) : kept[n] \in Revision
  BY CurrentType DEF Revision
<1>2. kept \in Seq(Revision) /\ Len(kept) = Current(d)
  <2>1. kept \in [1..Current(d) -> Revision]
    BY <1>1
  <2> HIDE DEF kept
  <2>2. QED
    BY <2>1, RevisionsAsSeq, CurrentType
<1>3. [drawings[d] EXCEPT !.revs = kept] \in DrawingRow
  <2> HIDE DEF kept
  <2>1. QED
    BY <1>2 DEF TypeOK, DrawingRow
<1>4. CASE op \in Workflow
  <2>1. KeptRow(op, d) = [drawings[d] EXCEPT !.revs = kept]
    BY <1>4 DEF KeptRow
  <2>2. \A n \in 1..Current(d) :
           kept[n] = [drawings[d].revs[n] EXCEPT !.snapshot = NoSnapshot]
    OBVIOUS
  <2> HIDE DEF kept
  <2>3. QED
    BY <1>2, <1>3, <2>1, <2>2 DEF TypeOK, DrawingRow
<1>5. CASE op \notin Workflow
  BY <1>5, NoRowType DEF KeptRow
<1>6. QED
  BY <1>4, <1>5

LEMMA KeptSheetType ==
    ASSUME TypeOK, NEW s \in Sheets, NEW op, NEW target
    PROVE  /\ KeptSheet(op, s, target) \in SheetRow
           /\ KeptSheet(op, s, target).drawing \in {NoDrawing, sheets[s].drawing}
  BY FreeSheetType DEF KeptSheet, TypeOK, SheetRow, FreeSheet

-----------------------------------------------------------------------------
(* What every step leaves true of the tables.                              *)

\* A step that deletes no drawing, no revision and no snapshot, and gives an id in use
\* to no other drawing.
Keeps ==
    /\ TypeOK'
    /\ \A d \in Drawings :
          /\ Exists(d)' <=> Exists(d)
          /\ Current(d) <= Current(d)'
          /\ \A n \in 1..Current(d) : drawings[d].revs[n].snapshot # NoSnapshot =>
                                          drawings'[d].revs[n].snapshot # NoSnapshot
    /\ \A s \in Sheets :
          \/ sheets'[s].drawing \in {NoDrawing, sheets[s].drawing}
          \/ sheets[s].drawing = NoDrawing /\ Untouched(s)

\* A request that goes on, at most no longer alone.
GoesOn(v) == \/ req'[v] \in {Idle, req[v]}
             \/ Busy(v) /\ req'[v] = [req[v] EXCEPT !.alone = FALSE]

LEMMA NoLongerAlone ==
    ASSUME NEW r, Fits(r)
    PROVE  LET q == [r EXCEPT !.alone = FALSE]
           IN  /\ Fits(q)
               /\ q.op = r.op /\ q.drawing = r.drawing /\ q.row = r.row /\ q.seen = r.seen
               /\ ~q.alone
<1> DEFINE q == [r EXCEPT !.alone = FALSE]
<1>1. q \in RequestType
  BY DEF Fits, RequestType
<1>2. /\ q.op = r.op /\ q.drawing = r.drawing /\ q.sheet = r.sheet /\ q.arg = r.arg
      /\ q.row = r.row /\ q.seen = r.seen /\ q.alone = FALSE
  BY DEF Fits, RequestType
<1> HIDE DEF q
<1>3. Fits(q)
  BY <1>1, <1>2 DEF Fits
<1>4. QED
  BY <1>2, <1>3 DEF q

LEMMA KeepsReadable ==
    ASSUME Readable, Keeps, req' = [v \in Workers |-> req'[v]],
           \A v \in Workers : GoesOn(v) \/ (Fits(req'[v]) /\ Grounded(req[v])')
    PROVE  Readable'
<1> \A d \in Drawings : Current(d) \in Nat /\ Current(d)' \in Nat
  BY DEF Readable, Keeps, TypeOK, DrawingRow, Current
<1>1. Founded'
  BY DEF Readable, Founded, Keeps
<1>2. ASSUME NEW v \in Workers, Busy(v)', GoesOn(v)
      PROVE  Fits(req'[v]) /\ Grounded(req[v])'
  <2>1. /\ Busy(v) /\ Fits(req[v]) /\ Grounded(req[v])
        /\ req'[v] = req[v] \/ req'[v] = [req[v] EXCEPT !.alone = FALSE]
    BY <1>2 DEF GoesOn, Busy, Readable, Requests
  <2>2. /\ Fits(req'[v])
        /\ req'[v].op = req[v].op /\ req'[v].drawing = req[v].drawing
        /\ req'[v].row = req[v].row /\ req'[v].seen = req[v].seen
    BY <2>1, NoLongerAlone
  <2>3. req[v].drawing \in Drawings /\ Len(req[v].row.revs) \in Nat
    BY <2>1 DEF Fits, RequestType, DrawingRow
  <2>4. Grounded(req[v])'
    <3>1. Exists(req[v].drawing)' /\ Current(req[v].drawing) <= Current(req[v].drawing)'
      BY <2>1, <2>2, <2>3 DEF Keeps, Grounded, Exists, Current
    <3>2. ASSUME NEW s \in Sheets, req[v].seen[s].drawing # NoDrawing
          PROVE  sheets'[s].drawing \in {NoDrawing, req[v].seen[s].drawing}
      BY <2>1, <3>2 DEF Keeps, Grounded, Untouched
    <3>3. Len(req'[v].row.revs) = Len(req[v].row.revs)
      BY <2>2
    <3>4. Current(req[v].drawing) \in Nat /\ Current(req[v].drawing)' \in Nat
      BY <2>2, <2>3
    <3>5. QED
      BY <2>1, <2>2, <2>3, <3>1, <3>2, <3>3, <3>4 DEF Grounded
  <2>5. QED
    BY <2>2, <2>4
<1>3. Requests'
  BY <1>2 DEF Requests, Busy
<1>4. req' \in [Workers -> {Idle} \cup RequestType]
  BY <1>3 DEF Requests, Busy, Fits
<1>5. QED
  BY <1>1, <1>3, <1>4 DEF Readable, Keeps


\* A step that leaves the tables alone keeps them.
LEMMA TablesAloneKeep ==
    ASSUME Readable, UNCHANGED <<drawings, sheets, listed>>
    PROVE  Keeps
<1>1. TypeOK'
  BY DEF Readable, TypeOK
<1>2. \A d \in Drawings : /\ Exists(d)' <=> Exists(d)
                          /\ Current(d)' = Current(d) /\ Current(d) \in Nat
  BY DEF Exists, Current, Readable, TypeOK, DrawingRow
<1>3. QED
  BY <1>1, <1>2 DEF Keeps

LEMMA LoadReadable ==
    ASSUME Readable, NEW w \in Workers, NEW d \in Drawings, NEW op, NEW s, NEW arg,
           Asked(op, s, arg), Load(w, op, d, s, arg)
    PROVE  Readable' /\ Keeps
<1> DEFINE r == [op |-> op, drawing |-> d, sheet |-> s, arg |-> arg,
                 row |-> KeptRow(op, d),
                 seen |-> [q \in Sheets |-> KeptSheet(op, q, s)], docs |-> Absent,
                 alone |-> \A v \in Workers : Busy(v) => req[v].drawing # d]
<1>1. req' = [Joined(w, d) EXCEPT ![w] = r] /\ UNCHANGED <<drawings, sheets, listed>>
  BY DEF Load
<1>2. req'[w] = r /\ \A v \in Workers \ {w} : GoesOn(v)
  BY <1>1 DEF Joined, GoesOn
<1>3. req' = [v \in Workers |-> req'[v]]
  BY <1>1 DEF Joined
<1>4. Keeps
  BY <1>1, TablesAloneKeep
<1>5. /\ KeptRow(op, d) \in DrawingRow
      /\ \A q \in Sheets : /\ KeptSheet(op, q, s) \in SheetRow
                           /\ KeptSheet(op, q, s).drawing \in {NoDrawing, sheets[q].drawing}
  BY KeptRowType, KeptSheetType DEF Readable
<1>6. Exists(d) /\ (op = "delete_sheet" => s \in SheetsOf(d))
  BY DEF Load, Accepts, Asked, Workflow, Editable, Exists
<1>7. Fits(r)
  <2>1. /\ op \in Workflow \cup {"create_sheet", "delete_sheet", "save", "waive", "unwaive"}
        /\ s \in {Absent} \cup Sheets
        /\ arg \in {Absent} \cup UNION {Payload(o) : o \in {"save", "create_sheet", "waive"}}
    BY DEF Asked, Payload
  <2>2. r.alone \in BOOLEAN
    BY DEF r
  <2>3. r \in RequestType
    BY <1>5, <2>1, <2>2 DEF RequestType
  <2>4. op = "delete_sheet" => KeptSheet(op, s, s).drawing = d
    BY <1>6 DEF KeptSheet, FreeSheet, SheetsOf
  <2>5. QED
    BY <2>3, <2>4 DEF Fits, Asked, Workflow, Payload
<1>8. Grounded(req[w])'
  <2>1. req'[w].op = op /\ req'[w].drawing = d /\ req'[w].row = KeptRow(op, d)
        /\ \A q \in Sheets : req'[w].seen[q] = KeptSheet(op, q, s)
    BY <1>2
  <2>2. Exists(d)' /\ Current(d)' = Current(d) /\ Current(d) \in Nat /\ Current(d) > 0
    BY <1>1, <1>6, CurrentType DEF Exists, Current, Readable, Founded
  <2>3. op \in Workflow => Len(KeptRow(op, d).revs) = Current(d)
    BY KeptRowType DEF Readable
  <2> HIDE DEF r
  <2>4. op \in Workflow => Len(req'[w].row.revs) \in 1..Current(req[w].drawing)'
    BY <2>1, <2>2, <2>3
  <2>5. QED
    BY <1>1, <1>5, <2>1, <2>2, <2>4 DEF Grounded
<1> HIDE DEF r
<1>9. QED
  BY <1>2, <1>3, <1>4, <1>7, <1>8, KeepsReadable

LEMMA DocumentsReadable ==
    ASSUME Readable, NEW w \in Workers, LoadDocuments(w)
    PROVE  Readable' /\ Keeps
<1> DEFINE docs == [s \in SheetsOf(req[w].drawing) |-> sheets[s].doc]
<1>1. /\ req' = [req EXCEPT ![w].docs = docs]
      /\ UNCHANGED <<drawings, sheets, listed>> /\ Busy(w)
  BY DEF LoadDocuments
<1>2. Fits(req[w]) /\ Grounded(req[w]) /\ req[w] \in RequestType
  BY <1>1 DEF Readable, Requests, Fits
<1>3. docs \in UNION {[S -> Documents] : S \in SUBSET Sheets}
  <2>1. docs \in [SheetsOf(req[w].drawing) -> Documents]
    BY DEF Readable, TypeOK, SheetRow, SheetsOf
  <2>2. SheetsOf(req[w].drawing) \in SUBSET Sheets
    BY DEF SheetsOf
  <2>3. QED
    BY <2>1, <2>2
<1> HIDE DEF docs
<1>4. /\ req'[w] = [req[w] EXCEPT !.docs = docs]
      /\ req' = [v \in Workers |-> req'[v]]
      /\ \A v \in Workers \ {w} : GoesOn(v)
  BY <1>1 DEF Readable, GoesOn
<1>5. /\ req'[w] \in RequestType
      /\ req'[w].op = req[w].op /\ req'[w].drawing = req[w].drawing
      /\ req'[w].sheet = req[w].sheet /\ req'[w].arg = req[w].arg
      /\ req'[w].row = req[w].row /\ req'[w].seen = req[w].seen
  BY <1>2, <1>3, <1>4 DEF RequestType
<1>6. Fits(req'[w])
  BY <1>2, <1>5 DEF Fits
<1>7. Grounded(req[w])'
  BY <1>1, <1>2, <1>5 DEF Grounded, Exists, Current
<1>8. Keeps
  BY <1>1, TablesAloneKeep
<1>9. QED
  BY <1>4, <1>6, <1>7, <1>8, KeepsReadable

LEMMA FailReadable ==
    ASSUME Readable, NEW w \in Workers, Fail(w)
    PROVE  Readable' /\ Keeps
<1>1. req' = [v \in Workers |-> req'[v]] /\ \A v \in Workers : GoesOn(v)
  BY DEF Fail, Done, Readable, GoesOn
<1>2. Keeps
  BY TablesAloneKeep DEF Fail
<1>3. QED
  BY <1>1, <1>2, KeepsReadable

LEMMA DisturbReadable ==
    ASSUME Readable, Disturb
    PROVE  Readable' /\ Keeps
<1>1. drawings' = drawings /\ FlagStep
  <2>1. ASSUME NEW p \in Parts, UpdatePart(p)
        PROVE  drawings' = drawings /\ FlagStep
    BY <2>1 DEF UpdatePart, FlagStep, CatalogRequest
  <2>2. ASSUME NEW r \in Requirements, UpdateRequirement(r, TRUE)
        PROVE  drawings' = drawings /\ FlagStep
    BY <2>2 DEF UpdateRequirement, FlagStep, RequirementRequest
  <2>3. QED
    BY <2>1, <2>2 DEF Disturb
<1>2. TypeOK'
  BY <1>1, FlagStepTypeOK DEF Readable
<1>3. \A s \in Sheets : sheets'[s].drawing = sheets[s].drawing
  BY <1>1, FlagStepFlags DEF RowsFlagged, Readable
<1>4. Keeps
  BY <1>1, <1>2, <1>3, CurrentType DEF Keeps, Exists, Current, Readable
<1>5. \A v \in Workers : GoesOn(v)
  BY DEF Disturb, GoesOn
<1>6. req' = [v \in Workers |-> req'[v]]
  BY DEF Disturb
<1>7. QED
  BY <1>4, <1>5, <1>6, KeepsReadable

-----------------------------------------------------------------------------
(* Committing.                                                             *)

\* The status of a drawing set, and one of its revisions replaced by row.
SetsRow(d, status, n, row) ==
    drawings' = [drawings EXCEPT ![d].status = status, ![d].revs[n] = row]

LEMMA RowSet ==
    ASSUME TypeOK, NEW d \in Drawings, NEW status, NEW n \in 1..Current(d), NEW row \in Revision,
           SetsRow(d, status, n, row)
    PROVE  /\ drawings'[d].status = status
           /\ drawings'[d].title = drawings[d].title
           /\ drawings'[d].revs \in Seq(Revision)
           /\ Current(d)' = Current(d)
           /\ drawings'[d].revs[n] = row
           /\ \A m \in 1..Current(d) \ {n} : drawings'[d].revs[m] = drawings[d].revs[m]
           /\ \A e \in Drawings \ {d} : drawings'[e] = drawings[e]
           /\ drawings' = [e \in Drawings |-> drawings'[e]]
           /\ status \in Status \cup {"none"} => drawings'[d] \in DrawingRow
<1> DEFINE q == drawings[d].revs
           r == [q EXCEPT ![n] = row]
<1>1. drawings[d].revs \in Seq(Revision) /\ n \in 1..Len(drawings[d].revs)
  BY DEF TypeOK, DrawingRow, Current
<1>2. /\ r \in Seq(Revision) /\ Len(r) = Len(q) /\ r[n] = row
      /\ \A m \in 1..Len(q) : m # n => r[m] = q[m]
  <2>1. q \in Seq(Revision) /\ n \in 1..Len(q)
    BY <1>1
  <2> HIDE DEF q
  <2>2. QED
    BY <2>1, ExceptSeq, LenProperties
<1>3. drawings' = [drawings EXCEPT ![d] = [drawings[d] EXCEPT !.status = status, !.revs = r]]
  BY DEF SetsRow, TypeOK, DrawingRow
<1>4. /\ drawings'[d].revs = r /\ drawings'[d].status = status
      /\ drawings'[d].title = drawings[d].title
      /\ \A e \in Drawings \ {d} : drawings'[e] = drawings[e]
      /\ drawings' = [e \in Drawings |-> drawings'[e]]
      /\ status \in Status \cup {"none"} => drawings'[d] \in DrawingRow
  <2> HIDE DEF r
  <2>1. QED
    BY <1>2, <1>3 DEF TypeOK, DrawingRow
<1> HIDE DEF r
<1>5. QED
  BY <1>2, <1>4 DEF Current

\* Such a step keeps what is filed when the row it writes does.
LEMMA RowSetKeeps ==
    ASSUME Readable, NEW d \in Drawings, Exists(d), NEW status \in Status, NEW n \in 1..Current(d),
           NEW row \in Revision, SetsRow(d, status, n, row),
           drawings[d].revs[n].snapshot # NoSnapshot => row.snapshot # NoSnapshot,
           UNCHANGED <<sheets, listed>>
    PROVE  Keeps
<1>1. TypeOK'
  <2>1. \A e \in Drawings : drawings'[e] \in DrawingRow
    BY RowSet DEF Readable, TypeOK
  <2>2. QED
    BY <2>1, RowSet DEF Readable, TypeOK
<1>2. \A e \in Drawings : Exists(e)' <=> Exists(e)
  BY RowSet DEF Readable, Exists, Status
<1>3. \A e \in Drawings : Current(e)' = Current(e) /\ Current(e) \in Nat
  BY RowSet, CurrentType DEF Readable, Current
<1>4. ASSUME NEW e \in Drawings, NEW m \in 1..Current(e), drawings[e].revs[m].snapshot # NoSnapshot
      PROVE  drawings'[e].revs[m].snapshot # NoSnapshot
  BY <1>4, RowSet DEF Readable
<1>5. QED
  BY <1>1, <1>2, <1>3, <1>4 DEF Keeps

\* What is read of a request at its commit.
LEMMA RequestRead ==
    ASSUME Readable, NEW w \in Workers, Busy(w)
    PROVE  /\ req[w] \in RequestType /\ Fits(req[w]) /\ Grounded(req[w])
           /\ req[w].drawing \in Drawings /\ Exists(req[w].drawing)
           /\ req[w].row \in DrawingRow
           /\ \A s \in Sheets : req[w].seen[s] \in SheetRow
  BY DEF Readable, Requests, Fits, Grounded, RequestType, Busy

LEMMA CommitStatusKeeps ==
    ASSUME Readable, NEW w \in Workers, Busy(w), req[w].op \in Workflow,
           NEW status \in Status, CommitStatus(req[w], status)
    PROVE  Keeps
<1> DEFINE r == req[w]
           d == r.drawing
           n == Len(r.row.revs)
           row == [drawings[d].revs[n] EXCEPT
                      !.status = Column(drawings[d].revs[n].status, r.row.revs[n].status, status)]
           st == Column(drawings[d].status, r.row.status, status)
<1>1. d \in Drawings /\ n \in 1..Current(d) /\ Exists(d)
  BY RequestRead DEF Grounded
<1>2. drawings[d].revs[n] \in Revision /\ drawings[d].status \in Status
  BY <1>1, CurrentType DEF Readable, TypeOK, DrawingRow, Exists
<1>3. row \in Revision /\ row.snapshot = drawings[d].revs[n].snapshot /\ st \in Status
  BY <1>2 DEF Revision, Column
<1>4. SetsRow(d, st, n, row)
  BY DEF CommitStatus, SetsRow
<1>5. UNCHANGED <<sheets, listed>>
  BY DEF CommitStatus
<1> HIDE DEF row, st, n, d
<1>6. QED
  BY <1>1, <1>3, <1>4, <1>5, RowSetKeeps


\* The snapshot of a release commit, of the rows it has read and those it reads now.
ReadSnapshot(r) ==
    [title |-> r.row.title, text |-> r.row.revs[Len(r.row.revs)].text,
     sheets |-> [s \in Sheets |-> IF s \in DOMAIN r.docs THEN SnapshotCopy(r, s) ELSE Absent],
     links |-> ({r.row.system} \ {Null}) \cup
               {link \in (DOMAIN r.docs) \X FindingKeys : link[2] \in sheets[link[1]].cites}]

LEMMA ReadSnapshotType ==
    ASSUME Readable, NEW w \in Workers, Busy(w), req[w].op \in Workflow, req[w].docs # Absent
    PROVE  ReadSnapshot(req[w]) \in Snapshot
<1> DEFINE r == req[w]
<1>1. /\ r.row \in DrawingRow /\ Len(r.row.revs) \in 1..Len(r.row.revs)
      /\ \A s \in Sheets : r.seen[s] \in SheetRow
  BY RequestRead DEF Grounded, DrawingRow
<1>2. r.row.title \in Texts /\ r.row.revs[Len(r.row.revs)].text \in Texts
  <2>1. r.row.revs \in Seq(Revision) /\ r.row.title \in Texts
    BY <1>1 DEF DrawingRow
  <2>2. r.row.revs[Len(r.row.revs)] \in Revision
    BY <1>1, <2>1
  <2>3. QED
    BY <2>1, <2>2 DEF Revision
<1>3. DOMAIN r.docs \subseteq Sheets /\ \A s \in DOMAIN r.docs : r.docs[s] \in Documents
  BY RequestRead DEF RequestType
<1>4. \A s \in Sheets : s \in DOMAIN r.docs => SnapshotCopy(r, s) \in SheetCopy
  BY <1>1, <1>3 DEF SnapshotCopy, SheetCopy, Readable, TypeOK, SheetRow
<1> HIDE DEF r
<1>5. [s \in Sheets |-> IF s \in DOMAIN r.docs THEN SnapshotCopy(r, s) ELSE Absent]
          \in [Sheets -> {Absent} \cup SheetCopy]
  BY <1>4
<1>6. ReadSnapshot(r).links \in SUBSET (Systems \cup (Sheets \X FindingKeys))
  BY <1>1, <1>3 DEF ReadSnapshot, DrawingRow
<1>7. ReadSnapshot(r) \in Snapshot
  BY <1>2, <1>5, <1>6 DEF ReadSnapshot, Snapshot
<1>8. QED
  BY <1>7 DEF r

\* What a release commit writes of its revision.
LEMMA ReleaseWrites ==
    ASSUME Readable, NEW w \in Workers, Busy(w), req[w].op \in Workflow, CommitRelease(req[w])
    PROVE  LET r == req[w]
               d == r.drawing
               n == Len(r.row.revs)
           IN  SetsRow(d, "released", n,
                       [drawings[d].revs[n] EXCEPT
                           !.status = Column(drawings[d].revs[n].status,
                                             r.row.revs[n].status, "released"),
                           !.snapshot = ReadSnapshot(r)])
<1> DEFINE r == req[w]
           d == r.drawing
           n == Len(r.row.revs)
           st == Column(drawings[d].revs[n].status, r.row.revs[n].status, "released")
           snapshot == ReadSnapshot(r)
<1>1. d \in Drawings /\ n \in 1..Current(d)
  BY RequestRead DEF Grounded
<1>2. drawings' = [drawings EXCEPT ![d].status = "released", ![d].revs[n].status = st,
                                   ![d].revs[n].snapshot = snapshot]
  BY DEF CommitRelease, ReadSnapshot
<1> HIDE DEF r, d, n, st, snapshot
<1>3. drawings[d].revs \in Seq(Revision) /\ n \in 1..Len(drawings[d].revs)
  BY <1>1, CurrentType DEF Readable, Current
<1>4. SetsRow(d, "released", n, [drawings[d].revs[n] EXCEPT !.status = st, !.snapshot = snapshot])
  <2> DEFINE q == drawings[d].revs
             row == [q[n] EXCEPT !.status = st, !.snapshot = snapshot]
             f1 == [drawings EXCEPT ![d].status = "released"]
             f2 == [f1 EXCEPT ![d].revs[n].status = st]
             f3 == [f2 EXCEPT ![d].revs[n].snapshot = snapshot]
  <2>1. drawings' = f3
    BY <1>2
  <2>2. q \in Seq(Revision) /\ n \in 1..Len(q) /\ q[n] \in Revision
    BY <1>3
  <2>3. f1 = [drawings EXCEPT ![d] = [drawings[d] EXCEPT !.status = "released"]]
    OBVIOUS
  <2>4. f1 \in [Drawings -> DrawingRow] /\ f1[d].revs = q
    BY <1>1, <2>3 DEF Readable, TypeOK, DrawingRow, Status
  <2>5. f2 = [f1 EXCEPT ![d] = [f1[d] EXCEPT !.revs = [q EXCEPT ![n] = [q[n] EXCEPT !.status = st]]]]
    BY <2>4
  <2> HIDE DEF f1, q
  <2>6. DOMAIN f2 = Drawings /\ f2[d] = [f1[d] EXCEPT !.revs = [q EXCEPT ![n] = [q[n] EXCEPT !.status = st]]]
    BY <1>1, <2>4, <2>5
  <2>7. f2[d].revs = [q EXCEPT ![n] = [q[n] EXCEPT !.status = st]]
    BY <1>1, <2>4, <2>6 DEF DrawingRow
  <2>8. f2[d].revs[n] = [q[n] EXCEPT !.status = st]
    BY <2>2, <2>7
  <2>9. f3 = [f2 EXCEPT ![d] = [f2[d] EXCEPT !.revs = [f2[d].revs EXCEPT ![n] =
                                                         [f2[d].revs[n] EXCEPT !.snapshot = snapshot]]]]
    OBVIOUS
  <2>10. [f2[d].revs EXCEPT ![n] = [f2[d].revs[n] EXCEPT !.snapshot = snapshot]]
            = [q EXCEPT ![n] = row]
    BY <2>2, <2>7, <2>8
  <2> HIDE DEF row
  <2>11. f3 = [f1 EXCEPT ![d] = [f1[d] EXCEPT !.revs = [q EXCEPT ![n] = row]]]
    <3> HIDE DEF f2, f3
    <3>1. f3 = [f2 EXCEPT ![d] = [f2[d] EXCEPT !.revs = [q EXCEPT ![n] = row]]]
      BY <2>9, <2>10
    <3>2. [f2[d] EXCEPT !.revs = [q EXCEPT ![n] = row]]
             = [f1[d] EXCEPT !.revs = [q EXCEPT ![n] = row]]
      BY <1>1, <2>4, <2>6 DEF DrawingRow
    <3>3. QED
      BY <1>1, <2>4, <2>5, <3>1, <3>2
  <2>12. SetsRow(d, "released", n, row)
    BY <1>1, <2>1, <2>4, <2>11 DEF SetsRow, f1, q
  <2>13. QED
    BY <2>12 DEF row, q
<1>5. QED
  BY <1>4 DEF r, d, n, st, snapshot

LEMMA CommitReleaseKeeps ==
    ASSUME Readable, NEW w \in Workers, Busy(w), req[w].op \in Workflow, CommitRelease(req[w])
    PROVE  Keeps
<1> DEFINE r == req[w]
           d == r.drawing
           n == Len(r.row.revs)
           row == [drawings[d].revs[n] EXCEPT
                      !.status = Column(drawings[d].revs[n].status, r.row.revs[n].status,
                                        "released"),
                      !.snapshot = ReadSnapshot(r)]
<1>1. d \in Drawings /\ n \in 1..Current(d) /\ Exists(d)
  BY RequestRead DEF Grounded
<1>2. ReadSnapshot(r) \in Snapshot
  BY ReadSnapshotType DEF CommitRelease
<1>3. row \in Revision /\ row.snapshot # NoSnapshot
  <2>1. drawings[d].revs[n] \in Revision
    BY <1>1, CurrentType DEF Readable
  <2>2. Column(drawings[d].revs[n].status, r.row.revs[n].status, "released") \in Status
    BY <2>1 DEF Column, Revision, Status
  <2>3. ReadSnapshot(r) # NoSnapshot
    BY <1>2, NoSnapshotAssumption
  <2>4. QED
    BY <1>2, <2>1, <2>2, <2>3 DEF Revision
<1>4. SetsRow(d, "released", n, row)
  BY ReleaseWrites
<1>5. UNCHANGED <<sheets, listed>>
  BY DEF CommitRelease
<1> HIDE DEF row, n, d
<1>6. QED
  BY <1>1, <1>3, <1>4, <1>5, RowSetKeeps DEF Status

LEMMA CommitRevisionKeeps ==
    ASSUME Readable, NEW w \in Workers, Busy(w), req[w].op \in Workflow, CommitRevision(req[w])
    PROVE  Keeps
<1> DEFINE d == req[w].drawing
           st == IF req[w].op = "revise" THEN "draft" ELSE drawings[d].status
           revs == Append(drawings[d].revs, NewRevision(AnyText))
<1>1. d \in Drawings /\ Exists(d) /\ Len(req[w].row.revs) = Current(d)
  BY RequestRead DEF CommitRevision, NextRevisionFree
<1>2. SubSeq(drawings[d].revs, 1, Len(req[w].row.revs)) = drawings[d].revs
  BY <1>1 DEF Readable, TypeOK, DrawingRow, Current
<1>3. drawings' = [drawings EXCEPT ![d].status = st, ![d].revs = revs]
  BY <1>2 DEF CommitRevision
<1>4. /\ revs \in Seq(Revision) /\ Len(revs) = Current(d) + 1
      /\ \A n \in 1..Current(d) : revs[n] = drawings[d].revs[n]
  BY <1>1, AnyTextType, NewRevisionType, CurrentType DEF Readable, Current
<1>5. st \in Status
  BY <1>1 DEF Status, Readable, TypeOK, DrawingRow, Exists
<1> HIDE DEF revs, st
<1>6. /\ drawings' \in [Drawings -> DrawingRow]
      /\ drawings'[d].status = st /\ drawings'[d].revs = revs
      /\ \A e \in Drawings \ {d} : drawings'[e] = drawings[e]
  <2> DEFINE row == [drawings[d] EXCEPT !.status = st, !.revs = revs]
  <2>1. drawings \in [Drawings -> DrawingRow] /\ drawings[d] \in DrawingRow
    BY <1>1 DEF Readable, TypeOK
  <2>2. row \in DrawingRow /\ row.status = st /\ row.revs = revs
    BY <1>4, <1>5, <2>1 DEF DrawingRow
  <2>3. drawings' = [drawings EXCEPT ![d] = row]
    BY <1>3, <2>1
  <2> HIDE DEF row
  <2>4. QED
    BY <1>1, <2>1, <2>2, <2>3
<1>7. /\ sheets' \in [Sheets -> SheetRow] /\ listed' = listed
      /\ \A s \in Sheets : sheets'[s].drawing = sheets[s].drawing
  <2>1. \A s \in Sheets : /\ [sheets[s] EXCEPT !.stale = TRUE] \in SheetRow
                          /\ [sheets[s] EXCEPT !.stale = TRUE].drawing = sheets[s].drawing
    BY DEF Readable, TypeOK, SheetRow
  <2>2. QED
    BY <2>1 DEF CommitRevision, Readable, TypeOK
<1>8. \A e \in Drawings : Exists(e)' <=> Exists(e)
  BY <1>1, <1>5, <1>6 DEF Exists, Status
<1>9. ASSUME NEW e \in Drawings
      PROVE  /\ Current(e) <= Current(e)'
             /\ \A n \in 1..Current(e) : drawings'[e].revs[n] = drawings[e].revs[n]
  <2>1. Current(e) \in Nat
    BY CurrentType DEF Readable
  <2>2. CASE e = d
    <3>1. Current(e)' = Current(e) + 1
      BY <1>4, <1>6, <2>2 DEF Current
    <3>2. QED
      BY <1>4, <1>6, <2>1, <2>2, <3>1
  <2>3. CASE e # d
    BY <1>6, <2>1, <2>3 DEF Current
  <2>4. QED
    BY <2>2, <2>3
<1>10. QED
  BY <1>6, <1>7, <1>8, <1>9 DEF Keeps, Readable, TypeOK


\* A commit that changes rows of sheets only, and gives an id away only when it is free.
LEMMA SheetsOnlyKeep ==
    ASSUME Readable, sheets' \in [Sheets -> SheetRow], UNCHANGED <<drawings, listed>>,
           \A s \in Sheets : \/ sheets'[s].drawing \in {NoDrawing, sheets[s].drawing}
                             \/ sheets[s].drawing = NoDrawing /\ Untouched(s)
    PROVE  Keeps
<1>1. TypeOK'
  BY DEF Readable, TypeOK
<1>2. \A d \in Drawings : /\ Exists(d)' <=> Exists(d)
                          /\ Current(d)' = Current(d) /\ Current(d) \in Nat
  BY DEF Exists, Current, Readable, TypeOK, DrawingRow
<1>3. QED
  BY <1>1, <1>2 DEF Keeps

\* The request the commits of sheets read, with the type of what it carries.
LEMMA SheetRequestRead ==
    ASSUME Readable, NEW w \in Workers, Busy(w), req[w].op \notin Workflow
    PROVE  req[w].sheet \in Sheets
  BY RequestRead DEF Fits

LEMMA CommitCreateSheetKeeps ==
    ASSUME Readable, NEW w \in Workers, Busy(w), req[w].op = "create_sheet",
           CommitCreateSheet(req[w])
    PROVE  Keeps
<1> DEFINE r == req[w]
<1>1. /\ r.drawing \in Drawings /\ r.sheet \in Sheets /\ r.arg \in Documents
      /\ \A s \in Sheets : r.seen[s] \in SheetRow
  BY RequestRead DEF Fits, Payload, Workflow
<1>2. PICK no \in {1} \cup {r.seen[s].no + 1 : s \in LoadedSheets(r)} :
          /\ sheets[r.sheet].drawing = NoDrawing /\ Untouched(r.sheet)
          /\ sheets' = [sheets EXCEPT ![r.sheet] = NewSheet(r.drawing, no, AnyText, r.arg)]
          /\ UNCHANGED <<drawings, listed>>
  BY DEF CommitCreateSheet
<1>3. no \in Nat
  BY <1>1 DEF LoadedSheets, SheetRow
<1>4. NewSheet(r.drawing, no, AnyText, r.arg) \in SheetRow
  BY <1>1, <1>3, AnyTextType, NewSheetType
<1> HIDE DEF r
<1>5. /\ sheets' \in [Sheets -> SheetRow]
      /\ \A s \in Sheets \ {r.sheet} : sheets'[s] = sheets[s]
  BY <1>1, <1>2, <1>4 DEF Readable, TypeOK
<1>6. QED
  BY <1>1, <1>2, <1>5, SheetsOnlyKeep

LEMMA CommitDeleteSheetKeeps ==
    ASSUME Readable, NEW w \in Workers, Busy(w), req[w].op = "delete_sheet",
           CommitDeleteSheet(req[w])
    PROVE  Keeps
<1> DEFINE r == req[w]
           rest == LoadedSheets(r) \ {r.sheet}
           rank(s) == 1 + Cardinality({q \in rest : r.seen[q].no < r.seen[s].no})
           moved == {s \in rest : rank(s) # r.seen[s].no}
<1>1. \A s \in Sheets : rank(s) \in Nat
  <2> TAKE s \in Sheets
  <2>1. IsFiniteSet({q \in rest : r.seen[q].no < r.seen[s].no})
    BY FS_Subset, ConstantsAssumption DEF LoadedSheets
  <2>2. QED
    BY <2>1, FS_CardinalityType
<1>2. /\ sheets' = [s \in Sheets |-> IF s = r.sheet THEN FreeSheet
                                     ELSE IF s \in moved THEN [sheets[s] EXCEPT !.no = rank(s)]
                                     ELSE sheets[s]]
      /\ UNCHANGED <<drawings, listed>>
  BY DEF CommitDeleteSheet
<1> HIDE DEF rank, moved, r
<1>3. \A s \in Sheets : /\ [sheets[s] EXCEPT !.no = rank(s)] \in SheetRow
                        /\ [sheets[s] EXCEPT !.no = rank(s)].drawing = sheets[s].drawing
  BY <1>1 DEF Readable, TypeOK, SheetRow
<1>4. /\ sheets' \in [Sheets -> SheetRow]
      /\ \A s \in Sheets : sheets'[s].drawing \in {NoDrawing, sheets[s].drawing}
  <2>1. FreeSheet.drawing = NoDrawing
    BY DEF FreeSheet
  <2>2. QED
    BY <1>2, <1>3, <2>1, FreeSheetType DEF Readable, TypeOK
<1>5. QED
  BY <1>2, <1>4, SheetsOnlyKeep

\* What a save carries.
LEMMA SaveRead ==
    ASSUME Readable, NEW w \in Workers, Busy(w), req[w].op = "save"
    PROVE  /\ req[w].sheet \in Sheets
           /\ req[w].arg.doc \in Documents
           /\ req[w].arg.drc \in {Absent} \cup SUBSET FindingKeys
           /\ req[w].alone \in BOOLEAN
  BY RequestRead DEF Fits, Payload, Workflow, RequestType

LEMMA SaveWritesType ==
    ASSUME Readable, NEW w \in Workers, Busy(w), req[w].op = "save",
           NEW left \in Left(req[w], req[w].sheet)
    PROVE  /\ SaveWrites(req[w], left) \in SheetRow
           /\ SaveWrites(req[w], left).drawing = sheets[req[w].sheet].drawing
<1> DEFINE r == req[w]
           s == r.sheet
           drc == r.arg.drc
           seen == r.seen[s]
           ix == IF drc = Absent THEN Absent ELSE PartsOf[r.arg.doc]
           new == SavedRow(seen, Absent, r.arg.doc, ix, drc, TRUE)
           findings == IF drc = Absent THEN sheets[s].findings ELSE left \cup new.findings
           cites == IF drc = Absent THEN sheets[s].cites
                    ELSE (sheets[s].cites \cap left) \cup new.cites
<1>1. /\ s \in Sheets /\ seen \in SheetRow /\ r.alone \in BOOLEAN
      /\ r.arg.doc \in Documents /\ drc \in {Absent} \cup SUBSET FindingKeys
  BY SaveRead, RequestRead
<1>2. ix \in (SUBSET Parts) \cup {Absent}
  BY <1>1, ConstantsAssumption
<1>3. new \in SheetRow
  <2> HIDE DEF ix, seen
  <2>1. QED
    BY <1>1, <1>2, SavedRowType DEF Readable
<1>4. sheets[s] \in SheetRow
  BY <1>1 DEF Readable, TypeOK
<1>5. left \in SUBSET FindingKeys
  BY <1>4 DEF Left, SheetRow
<1>6. SaveWrites(r, left) = [sheets[s] EXCEPT
          !.doc      = Column(sheets[s].doc, seen.doc, new.doc),
          !.index    = Rows(sheets[s].index, seen.index, new.index),
          !.findings = findings,
          !.cites    = cites,
          !.stale    = Column(sheets[s].stale, seen.stale, new.stale),
          !.derived  = new.derived /\ r.alone]
  BY DEF SaveWrites
<1>7. /\ Column(sheets[s].doc, seen.doc, new.doc) \in Documents
      /\ Rows(sheets[s].index, seen.index, new.index) \in SUBSET Parts
      /\ findings \in SUBSET FindingKeys /\ cites \in SUBSET FindingKeys
      /\ Column(sheets[s].stale, seen.stale, new.stale) \in BOOLEAN
      /\ (new.derived /\ r.alone) \in BOOLEAN
  <2> HIDE DEF new, seen
  <2>1. QED
    BY <1>1, <1>3, <1>4, <1>5 DEF Column, Rows, SheetRow
<1> HIDE DEF new, seen, s, findings, cites
<1>8. SaveWrites(r, left) \in SheetRow /\ SaveWrites(r, left).drawing = sheets[s].drawing
  BY <1>4, <1>6, <1>7 DEF SheetRow
<1>9. QED
  BY <1>8 DEF s

LEMMA CommitSaveKeeps ==
    ASSUME Readable, NEW w \in Workers, Busy(w), req[w].op = "save", CommitSave(req[w])
    PROVE  Keeps
<1>1. PICK left \in Left(req[w], req[w].sheet) :
          sheets' = [sheets EXCEPT ![req[w].sheet] = SaveWrites(req[w], left)]
  BY DEF CommitSave
<1>2. req[w].sheet \in Sheets
  BY SaveRead
<1>3. /\ sheets' \in [Sheets -> SheetRow]
      /\ \A s \in Sheets : sheets'[s].drawing = sheets[s].drawing
  BY <1>1, <1>2, SaveWritesType DEF Readable, TypeOK
<1>4. QED
  BY <1>3, SheetsOnlyKeep DEF CommitSave

LEMMA CommitWaiverKeeps ==
    ASSUME Readable, NEW w \in Workers, Busy(w), req[w].op \in {"waive", "unwaive"},
           CommitWaiver(req[w])
    PROVE  Keeps
<1>1. req[w].sheet \in Sheets /\ req[w].arg \in FindingKeys
  BY RequestRead DEF Fits, Workflow
<1>2. PICK keys \in SUBSET FindingKeys : sheets' = [sheets EXCEPT ![req[w].sheet].waivers = keys]
  <2>1. sheets[req[w].sheet].waivers \in SUBSET FindingKeys
    BY <1>1 DEF Readable, TypeOK, SheetRow
  <2>2. CASE req[w].op = "waive"
    BY <1>1, <2>1, <2>2 DEF CommitWaiver
  <2>3. CASE req[w].op # "waive"
    BY <2>1, <2>3 DEF CommitWaiver
  <2>4. QED
    BY <2>2, <2>3
<1>3. /\ sheets' \in [Sheets -> SheetRow]
      /\ \A s \in Sheets : sheets'[s].drawing = sheets[s].drawing
  BY <1>1, <1>2 DEF Readable, TypeOK, SheetRow
<1>4. QED
  BY <1>3, SheetsOnlyKeep DEF CommitWaiver

LEMMA CommitReadable ==
    ASSUME Readable, NEW w \in Workers, Commit(w)
    PROVE  Readable' /\ Keeps
<1>1. Busy(w) /\ Done(w)
  BY DEF Commit
<1>2. Keeps
  BY <1>1, CommitStatusKeeps, CommitReleaseKeeps, CommitRevisionKeeps, CommitCreateSheetKeeps,
     CommitDeleteSheetKeeps, CommitSaveKeeps, CommitWaiverKeeps DEF Commit, Workflow, Status
<1>3. req' = [v \in Workers |-> req'[v]] /\ \A v \in Workers : GoesOn(v)
  BY <1>1 DEF Done, Readable, GoesOn
<1>4. QED
  BY <1>2, <1>3, KeepsReadable

LEMMA InitReadable == InitRequests => Readable
<1>1. ASSUME InitRequests
      PROVE  Readable
  <2> DEFINE row(j) == [status |-> "draft", project |-> j, system |-> Null,
                        title |-> AnyText, revs |-> <<NewRevision(AnyText)>>]
  <2>1. PICK home \in [Drawings -> Projects] : drawings = [d \in Drawings |-> row(home[d])]
    BY <1>1 DEF InitRequests
  <2>2. ASSUME NEW d \in Drawings
        PROVE  NewSheet(d, 1, AnyText, EmptyDocument) \in SheetRow
    BY AnyTextType, NewSheetType, ConstantsAssumption
  <2>3. sheets \in [Sheets -> SheetRow]
    <3>1. PICK first \in [Drawings -> Sheets] : sheets = [s \in Sheets |->
                IF \E d \in Drawings : first[d] = s
                THEN NewSheet(CHOOSE d \in Drawings : first[d] = s, 1, AnyText, EmptyDocument)
                ELSE FreeSheet]
      BY <1>1 DEF InitRequests
    <3>2. ASSUME NEW s \in Sheets, \E d \in Drawings : first[d] = s
          PROVE  (CHOOSE d \in Drawings : first[d] = s) \in Drawings
      BY <3>2
    <3>3. QED
      BY <2>2, <3>1, <3>2, FreeSheetType
  <2>4. TypeOK
    <3>1. \A j \in Projects : row(j) \in DrawingRow
      BY AnyTextType, NewRevisionType DEF DrawingRow, Status
    <3>2. \A d \in Drawings : row(home[d]) \in DrawingRow
      BY <3>1
    <3> HIDE DEF row
    <3>3. QED
      BY <1>1, <2>1, <2>3, <3>2 DEF TypeOK, InitRequests
  <2>5. \A d \in Drawings : drawings[d].revs = <<NewRevision(AnyText)>>
    BY <2>1
  <2>6. Founded
    BY <2>5 DEF Founded, Current
  <2>7. QED
    BY <1>1, <2>4, <2>6 DEF Readable, InitRequests, Requests, Busy
<1>2. QED
  BY <1>1

LEMMA NextReadable ==
    ASSUME Readable, [NextRequests]_allVars
    PROVE  Readable' /\ Keeps
<1>1. CASE UNCHANGED allVars
  <2>1. req' = [v \in Workers |-> req'[v]] /\ \A v \in Workers : GoesOn(v)
    BY <1>1 DEF allVars, Readable, GoesOn
  <2>2. Keeps
    BY <1>1, TablesAloneKeep DEF allVars
  <2>3. QED
    BY <2>1, <2>2, KeepsReadable
<1>2. CASE NextRequests
  BY <1>2, RequestCases, LoadReadable, DocumentsReadable, CommitReadable, FailReadable,
     DisturbReadable
<1>3. QED
  BY <1>1, <1>2

LEMMA AlwaysReadable == SpecRequests => []Readable
<1>1. Readable /\ [NextRequests]_allVars => Readable'
  BY NextReadable
<1>2. QED
  BY InitReadable, <1>1, PTL DEF SpecRequests

\* Whatever requests overlap, the tables hold rows of their types, and so does what each
\* request has read of them, for any number of workers, drawings and sheets.
THEOREM RequestsTypeCorrect == SpecRequests => []RequestsTypeOK
<1>1. Readable => RequestsTypeOK
  BY DEF Readable, TypeOK, RequestsTypeOK
<1>2. QED
  BY AlwaysReadable, <1>1, PTL

\* However many requests release, revise and open revisions of one drawing at once, a
\* snapshot filed for a revision stays on file: the second of two revisions worked out
\* on the same rows meets the unique sequence and is rolled back (uq_drawing_revision_seq).
THEOREM BaselinesStay == SpecRequests => BaselineStays
<1> DEFINE Stays == \A d \in Drawings : \A n \in 1..Current(d) :
                       drawings[d].revs[n].snapshot # NoSnapshot =>
                           n \in 1..Current(d)' /\ drawings'[d].revs[n].snapshot # NoSnapshot
<1>1. Readable /\ [NextRequests]_allVars => [Stays]_allVars
  <2>1. ASSUME Readable, [NextRequests]_allVars
        PROVE  Stays
    <3>1. Keeps /\ \A d \in Drawings : Current(d) \in Nat /\ Current(d)' \in Nat
      BY <2>1, NextReadable DEF Readable, TypeOK, DrawingRow, Current
    <3>2. QED
      BY <3>1 DEF Keeps
  <2>2. QED
    BY <2>1
<1>2. QED
  BY AlwaysReadable, <1>1, PTL DEF SpecRequests, BaselineStays


-----------------------------------------------------------------------------
(* A request that is alone on its drawing.                                 *)

Undisturbed(w) ==
    /\ UpToDate(req[w])
    /\ \A v \in Workers \ {w} : Busy(v) => req[v].drawing # req[w].drawing

LoneInv == \A w \in Workers : Alone(w) => Undisturbed(w)

\* A step that leaves drawing d and its sheets alone.
Spares(d) ==
    /\ drawings'[d] = drawings[d]
    /\ \A s \in Sheets : sheets[s].drawing = d \/ sheets'[s].drawing = d =>
                             sheets'[s] = sheets[s]

\* What a request has read stays up to date under steps that spare its drawing.
LEMMA SparedStaysUpToDate ==
    ASSUME TypeOK, NEW r \in RequestType, UpToDate(r), Spares(r.drawing)
    PROVE  UpToDate(r)'
<1> DEFINE d == r.drawing
<1>1. d \in Drawings /\ d # NoDrawing
  BY ConstantsAssumption DEF RequestType
<1>2. SheetsOf(d)' = SheetsOf(d) /\ \A s \in SheetsOf(d) : sheets'[s] = sheets[s]
  BY DEF SheetsOf, Spares
<1>3. \A s \in Sheets : r.seen[s].drawing = d => s \in SheetsOf(d)
  <2> SUFFICES ASSUME NEW s \in Sheets, r.seen[s].drawing = d
               PROVE  sheets[s].drawing = d
    BY DEF SheetsOf
  <2>1. r.seen[s] = KeptSheet(r.op, s, r.sheet)
    BY DEF UpToDate
  <2>2. QED
    BY <1>1, <2>1, KeptSheetType
<1>4. KeptRow(r.op, d)' = KeptRow(r.op, d)
  BY DEF KeptRow, Current, Spares
<1>5. \A s \in SheetsOf(d) : KeptSheet(r.op, s, r.sheet)' = KeptSheet(r.op, s, r.sheet)
  BY <1>2 DEF KeptSheet
<1>6. \A s \in Sheets : sheets'[s].drawing = d \/ r.seen[s].drawing = d =>
          r.seen[s] = KeptSheet(r.op, s, r.sheet)'
  <2> SUFFICES ASSUME NEW s \in Sheets, sheets'[s].drawing = d \/ r.seen[s].drawing = d
               PROVE  r.seen[s] = KeptSheet(r.op, s, r.sheet)'
    OBVIOUS
  <2>1. s \in SheetsOf(d)
    BY <1>3 DEF Spares, SheetsOf
  <2>2. sheets[s].drawing = d
    BY <2>1 DEF SheetsOf
  <2>3. QED
    BY <1>5, <2>1, <2>2 DEF UpToDate
<1>7. [s \in SheetsOf(d) |-> sheets[s].doc]' = [s \in SheetsOf(d) |-> sheets[s].doc]
  BY <1>2
<1>8. StillAccepts(r.op, d, r.sheet, r.arg)'
  <2>1. drawings'[d] = drawings[d] /\ StillAccepts(r.op, d, r.sheet, r.arg)
    BY DEF Spares, UpToDate
  <2> HIDE DEF d
  <2>2. (NoBlockers(d)' <=> NoBlockers(d)) /\ (Editable(d)' <=> Editable(d))
    BY <1>2, <2>1 DEF NoBlockers, OpenErrors, Editable, Exists
  <2>3. r.op = "unwaive" => r.arg \in sheets'[r.sheet].waivers
    BY <1>2, <2>1 DEF StillAccepts
  <2>4. QED
    BY <1>2, <2>1, <2>2, <2>3 DEF StillAccepts
<1>9. QED
  BY <1>4, <1>6, <1>7, <1>8 DEF UpToDate


\* A commit writes to the rows of its own drawing.
LEMMA CommitSpares ==
    ASSUME Readable, NEW v \in Workers, Commit(v), NEW d \in Drawings, d # req[v].drawing
    PROVE  Spares(d)
<1>1. PICK r \in RequestType : r = req[v]
  BY RequestRead DEF Commit
<1>2. /\ r.drawing \in Drawings /\ d # r.drawing /\ d # NoDrawing /\ r.drawing # NoDrawing
      /\ drawings \in [Drawings -> DrawingRow] /\ sheets \in [Sheets -> SheetRow]
  BY <1>1, ConstantsAssumption DEF RequestType, Readable, TypeOK
<1>3. /\ r.op \notin Workflow => r.sheet \in Sheets
      /\ r.op = "delete_sheet" => sheets[r.sheet].drawing \in {NoDrawing, r.drawing}
  <2>1. Fits(r) /\ Grounded(r)
    BY <1>1, RequestRead DEF Commit
  <2>2. r.op = "delete_sheet" => r.sheet \in Sheets /\ r.seen[r.sheet].drawing = r.drawing
    BY <2>1 DEF Fits, Workflow
  <2>3. r.op \notin Workflow => r.sheet \in Sheets
    BY <2>1 DEF Fits
  <2>4. ASSUME r.op = "delete_sheet"
        PROVE  sheets[r.sheet].drawing \in {NoDrawing, r.drawing}
    BY <1>2, <2>1, <2>2, <2>4 DEF Grounded
  <2>5. QED
    BY <2>3, <2>4
<1>4. ASSUME NEW status, CommitStatus(r, status)
      PROVE  Spares(d)
  BY <1>2, <1>4 DEF CommitStatus, Spares
<1>5. ASSUME CommitRelease(r)
      PROVE  Spares(d)
  BY <1>2, <1>5 DEF CommitRelease, Spares
<1>6. ASSUME CommitRevision(r)
      PROVE  Spares(d)
  <2>1. drawings'[d] = drawings[d]
    BY <1>2, <1>6 DEF CommitRevision
  <2>2. \A s \in Sheets : IF s \in SheetsOf(r.drawing)
                          THEN sheets'[s].drawing = r.drawing
                          ELSE sheets'[s] = sheets[s]
    BY <1>2, <1>6 DEF CommitRevision, SheetsOf, SheetRow
  <2>3. QED
    BY <1>2, <2>1, <2>2 DEF Spares, SheetsOf
<1>7. ASSUME CommitCreateSheet(r), r.op = "create_sheet"
      PROVE  Spares(d)
  <2>1. PICK no : /\ sheets[r.sheet].drawing = NoDrawing
                  /\ sheets' = [sheets EXCEPT ![r.sheet] =
                                    NewSheet(r.drawing, no, AnyText, r.arg)]
                  /\ UNCHANGED <<drawings, listed>>
    BY <1>7 DEF CommitCreateSheet
  <2>2. NewSheet(r.drawing, no, AnyText, r.arg).drawing = r.drawing
    BY DEF NewSheet, FreeSheet
  <2>3. QED
    BY <1>2, <1>3, <1>7, <2>1, <2>2 DEF Spares, Workflow
<1>8. ASSUME CommitDeleteSheet(r), r.op = "delete_sheet"
      PROVE  Spares(d)
  <2>1. PICK no, moved :
           /\ moved \in SUBSET Sheets
           /\ \A s \in moved : sheets[s].drawing = r.drawing
           /\ sheets' = [s \in Sheets |-> IF s = r.sheet THEN FreeSheet
                                          ELSE IF s \in moved THEN [sheets[s] EXCEPT !.no = no[s]]
                                          ELSE sheets[s]]
           /\ UNCHANGED drawings
    <3> DEFINE rest == LoadedSheets(r) \ {r.sheet}
               no == [s \in Sheets |-> 1 + Cardinality({q \in rest : r.seen[q].no < r.seen[s].no})]
               moved == {s \in rest : no[s] # r.seen[s].no}
    <3>1. moved \in SUBSET Sheets
      BY DEF LoadedSheets
    <3>2. /\ \A s \in moved : sheets[s].drawing = r.drawing
          /\ sheets' = [s \in Sheets |-> IF s = r.sheet THEN FreeSheet
                                         ELSE IF s \in moved THEN [sheets[s] EXCEPT !.no = no[s]]
                                         ELSE sheets[s]]
          /\ UNCHANGED drawings
      BY <1>8 DEF CommitDeleteSheet, LoadedSheets
    <3> HIDE DEF no, moved
    <3>3. QED
      BY <3>1, <3>2
  <2>2. \A s \in Sheets : [sheets[s] EXCEPT !.no = no[s]].drawing = sheets[s].drawing
    BY <1>2 DEF SheetRow
  <2>3. \A s \in Sheets : sheets'[s].drawing = d \/ sheets[s].drawing = d =>
                              s # r.sheet /\ s \notin moved
    BY <1>2, <1>3, <1>8, <2>1, <2>2 DEF FreeSheet
  <2>4. QED
    BY <2>1, <2>3 DEF Spares
<1>9. ASSUME CommitSave(r), r.op = "save"
      PROVE  Spares(d)
  <2>1. PICK left \in Left(r, r.sheet) :
           sheets' = [sheets EXCEPT ![r.sheet] = SaveWrites(r, left)] /\ UNCHANGED drawings
    BY <1>9 DEF CommitSave
  <2>2. sheets[r.sheet].drawing = r.drawing /\ SaveWrites(r, left).drawing = r.drawing
    BY <1>1, <1>9, SaveWritesType DEF CommitSave, Commit
  <2>3. QED
    BY <1>2, <2>1, <2>2 DEF Spares
<1>10. ASSUME CommitWaiver(r), r.op \in {"waive", "unwaive"}
       PROVE  Spares(d)
  BY <1>2, <1>3, <1>10 DEF CommitWaiver, Spares, SheetRow, Workflow
<1>11. QED
  BY <1>1, <1>4, <1>5, <1>6, <1>7, <1>8, <1>9, <1>10 DEF Commit


\* A step of another request, or of none, leaves a request that stays alone undisturbed.
LEMMA StaysUndisturbed ==
    ASSUME Readable, NEW w \in Workers, Alone(w), Undisturbed(w), req'[w] = req[w],
           Spares(req[w].drawing),
           \A v \in Workers \ {w} : Busy(v)' => req'[v].drawing # req[w].drawing
    PROVE  Undisturbed(w)'
<1>1. PICK r \in RequestType : r = req[w]
  BY RequestRead DEF Alone
<1>2. UpToDate(r)'
  BY <1>1, SparedStaysUpToDate DEF Readable, Undisturbed
<1>3. UpToDate(req[w])'
  BY <1>1, <1>2
<1>4. QED
  BY <1>3 DEF Undisturbed

LEMMA TablesSpared ==
    ASSUME UNCHANGED <<drawings, sheets, listed>>, NEW d
    PROVE  Spares(d)
  BY DEF Spares

LEMMA LoadLone ==
    ASSUME Readable, LoneInv, NEW v \in Workers, NEW d \in Drawings, NEW op, NEW s, NEW arg,
           Asked(op, s, arg), Load(v, op, d, s, arg)
    PROVE  LoneInv'
<1> DEFINE r == [op |-> op, drawing |-> d, sheet |-> s, arg |-> arg,
                 row |-> KeptRow(op, d),
                 seen |-> [q \in Sheets |-> KeptSheet(op, q, s)], docs |-> Absent,
                 alone |-> \A u \in Workers : Busy(u) => req[u].drawing # d]
<1>1. /\ req' = [Joined(v, d) EXCEPT ![v] = r] /\ UNCHANGED <<drawings, sheets, listed>>
      /\ ~Busy(v) /\ Accepts(op, d, s, arg)
  BY DEF Load
<1>2. /\ req'[v] = r
      /\ \A u \in Workers \ {v} :
            req'[u] = IF Busy(u) /\ req[u].drawing = d THEN [req[u] EXCEPT !.alone = FALSE]
                      ELSE req[u]
  BY <1>1 DEF Joined
<1>3. ASSUME NEW u \in Workers \ {v}
      PROVE  /\ Busy(u)' => Busy(u) /\ req'[u].drawing = req[u].drawing
             /\ Alone(u)' => req'[u] = req[u] /\ req[u].drawing # d
  <2>1. CASE Busy(u) /\ req[u].drawing = d
    <3>1. req'[u] = [req[u] EXCEPT !.alone = FALSE] /\ Fits(req[u])
      BY <1>2, <2>1 DEF Readable, Requests
    <3>2. req'[u].drawing = req[u].drawing /\ ~req'[u].alone
      BY <3>1, NoLongerAlone
    <3>3. QED
      BY <2>1, <3>2 DEF Alone
  <2>2. CASE ~(Busy(u) /\ req[u].drawing = d)
    BY <1>2, <2>2 DEF Alone, Busy
  <2>3. QED
    BY <2>1, <2>2
<1> HIDE DEF r
<1>4. ASSUME NEW w \in Workers \ {v}, Alone(w)'
      PROVE  Undisturbed(w)'
  <2>1. /\ req'[w] = req[w] /\ req[w].drawing # d /\ Alone(w)
    BY <1>3, <1>4 DEF Alone, Busy
  <2>2. Undisturbed(w)
    BY <2>1 DEF LoneInv
  <2>3. ASSUME NEW u \in Workers \ {w}, Busy(u)'
        PROVE  req'[u].drawing # req[w].drawing
    <3>1. CASE u = v
      BY <1>2, <2>1, <3>1 DEF r
    <3>2. CASE u # v
      BY <1>3, <2>2, <2>3, <3>2 DEF Undisturbed
    <3>3. QED
      BY <3>1, <3>2
  <2>4. QED
    BY <1>1, <2>1, <2>2, <2>3, StaysUndisturbed, TablesSpared
<1>5. ASSUME Alone(v)'
      PROVE  Undisturbed(v)'
  <2>1. /\ r.op = op /\ r.drawing = d /\ r.sheet = s /\ r.arg = arg /\ r.row = KeptRow(op, d)
        /\ r.seen = [q \in Sheets |-> KeptSheet(op, q, s)] /\ r.docs = Absent
        /\ r.alone = \A u \in Workers : Busy(u) => req[u].drawing # d
    BY DEF r
  <2>2. /\ drawings' = drawings /\ sheets' = sheets
    BY <1>1
  <2>3. KeptRow(op, d)' = KeptRow(op, d) /\ \A q \in Sheets : KeptSheet(op, q, s)' = KeptSheet(op, q, s)
    BY <2>2 DEF KeptRow, KeptSheet, Current
  <2>4. StillAccepts(op, d, s, arg)
    BY <1>1 DEF Accepts, StillAccepts, Asked, Workflow, Editable
  <2>5. StillAccepts(op, d, s, arg)'
    BY <2>2, <2>4 DEF StillAccepts, NoBlockers, OpenErrors, SheetsOf, Editable, Exists
  <2>6. UpToDate(req[v])'
    BY <1>2, <2>1, <2>3, <2>5 DEF UpToDate
  <2>7. \A u \in Workers \ {v} : Busy(u)' => req'[u].drawing # req'[v].drawing
    BY <1>2, <1>3, <1>5, <2>1 DEF Alone
  <2>8. QED
    BY <2>6, <2>7 DEF Undisturbed
<1>6. QED
  BY <1>4, <1>5 DEF LoneInv


LEMMA DocumentsLone ==
    ASSUME Readable, LoneInv, NEW v \in Workers, LoadDocuments(v)
    PROVE  LoneInv'
<1> DEFINE docs == [s \in SheetsOf(req[v].drawing) |-> sheets[s].doc]
<1>1. /\ req' = [req EXCEPT ![v].docs = docs]
      /\ UNCHANGED <<drawings, sheets, listed>> /\ Busy(v)
  BY DEF LoadDocuments
<1>2. PICK r \in RequestType : r = req[v]
  BY <1>1, RequestRead
<1>3. /\ \A u \in Workers \ {v} : req'[u] = req[u]
      /\ req'[v] = [r EXCEPT !.docs = docs]
  BY <1>1, <1>2 DEF Readable
<1> HIDE DEF docs
<1>4. /\ req'[v].op = r.op /\ req'[v].drawing = r.drawing /\ req'[v].sheet = r.sheet
      /\ req'[v].arg = r.arg /\ req'[v].row = r.row /\ req'[v].seen = r.seen
      /\ req'[v].alone = r.alone /\ req'[v].docs = docs
  BY <1>2, <1>3 DEF RequestType
<1>5. \A u \in Workers : Busy(u)' => Busy(u) /\ req'[u].drawing = req[u].drawing
  BY <1>1, <1>2, <1>3, <1>4 DEF Busy
<1>6. ASSUME NEW w \in Workers \ {v}, Alone(w)'
      PROVE  Undisturbed(w)'
  <2>1. req'[w] = req[w] /\ Alone(w)
    BY <1>3, <1>6 DEF Alone, Busy
  <2>2. Undisturbed(w)
    BY <2>1 DEF LoneInv
  <2>3. QED
    BY <1>1, <1>5, <2>1, <2>2, StaysUndisturbed, TablesSpared DEF Undisturbed
<1>7. ASSUME Alone(v)'
      PROVE  Undisturbed(v)'
  <2>1. Undisturbed(v)
    BY <1>1, <1>2, <1>4, <1>7 DEF LoneInv, Alone
  <2>2. UpToDate(r)'
    <3>1. UpToDate(r)
      BY <1>2, <2>1 DEF Undisturbed
    <3>2. QED
      BY <1>1, <3>1, TablesSpared, SparedStaysUpToDate DEF Readable
  <2>3. docs = [s \in SheetsOf(r.drawing)' |-> sheets'[s].doc]
    BY <1>1, <1>2 DEF docs, SheetsOf
  <2>4. UpToDate(req[v])'
    BY <1>4, <2>2, <2>3 DEF UpToDate
  <2>5. \A u \in Workers \ {v} : Busy(u)' => req'[u].drawing # req'[v].drawing
    BY <1>2, <1>4, <1>5, <2>1 DEF Undisturbed
  <2>6. QED
    BY <2>4, <2>5 DEF Undisturbed
<1>8. QED
  BY <1>6, <1>7 DEF LoneInv

\* Commits and failures of other requests.
LEMMA EndsLone ==
    ASSUME Readable, LoneInv, NEW v \in Workers, Commit(v) \/ Fail(v)
    PROVE  LoneInv'
<1>1. Busy(v) /\ req' = [req EXCEPT ![v] = Idle]
  BY DEF Commit, Fail, Done
<1>2. /\ req'[v] = Idle
      /\ \A u \in Workers \ {v} : req'[u] = req[u]
  BY <1>1 DEF Readable
<1>3. ASSUME NEW w \in Workers, Alone(w)'
      PROVE  Undisturbed(w)'
  <2>1. w # v /\ req'[w] = req[w] /\ Alone(w)
    BY <1>2, <1>3 DEF Alone, Busy
  <2>2. Undisturbed(w)
    BY <2>1 DEF LoneInv
  <2>3. req[w].drawing \in Drawings /\ req[w].drawing # req[v].drawing
    BY <1>1, <2>1, <2>2, RequestRead DEF Undisturbed, Alone
  <2>4. Spares(req[w].drawing)
    <3>1. CASE Commit(v)
      BY <2>3, <3>1, CommitSpares
    <3>2. CASE Fail(v)
      BY <3>2, TablesSpared DEF Fail
    <3>3. QED
      BY <3>1, <3>2
  <2>5. \A u \in Workers \ {w} : Busy(u)' => req'[u].drawing # req[w].drawing
    BY <1>2, <2>2 DEF Undisturbed, Busy
  <2>6. QED
    BY <2>1, <2>2, <2>4, <2>5, StaysUndisturbed
<1>4. QED
  BY <1>3 DEF LoneInv

\* After a part or requirement request nobody is alone.
LEMMA DisturbLone ==
    ASSUME Readable, Disturb
    PROVE  LoneInv'
<1>1. ASSUME NEW w \in Workers
      PROVE  ~Alone(w)'
  <2>1. CASE Busy(w)
    <3>1. req'[w] = [req[w] EXCEPT !.alone = FALSE] /\ Fits(req[w])
      BY <2>1 DEF Disturb, Readable, Requests
    <3>2. QED
      BY <3>1, NoLongerAlone DEF Alone
  <2>2. CASE ~Busy(w)
    BY <2>2 DEF Disturb, Alone, Busy
  <2>3. QED
    BY <2>1, <2>2
<1>2. QED
  BY <1>1 DEF LoneInv

LEMMA NextLone ==
    ASSUME Readable, LoneInv, [NextRequests]_allVars
    PROVE  LoneInv'
<1>1. CASE UNCHANGED allVars
  <2>1. req' = req /\ UNCHANGED <<drawings, sheets, listed>>
    BY <1>1 DEF allVars
  <2>2. ASSUME NEW w \in Workers, Alone(w)'
        PROVE  Undisturbed(w)'
    <3>1. Alone(w) /\ Undisturbed(w)
      BY <2>1, <2>2 DEF LoneInv, Alone, Busy
    <3>2. QED
      BY <2>1, <3>1, StaysUndisturbed, TablesSpared DEF Undisturbed, Busy
  <2>3. QED
    BY <2>2 DEF LoneInv
<1>2. CASE NextRequests
  BY <1>2, RequestCases, LoadLone, DocumentsLone, EndsLone, DisturbLone
<1>3. QED
  BY <1>1, <1>2

LEMMA InitLone == InitRequests => LoneInv
  BY DEF InitRequests, LoneInv, Alone, Busy

LEMMA AlwaysLone == SpecRequests => [](Readable /\ LoneInv)
<1>1. Readable /\ LoneInv /\ [NextRequests]_allVars => Readable' /\ LoneInv'
  BY NextReadable, NextLone
<1>2. QED
  BY InitReadable, InitLone, <1>1, PTL DEF SpecRequests


-----------------------------------------------------------------------------
(* What it commits is what the handler does in one step.                   *)

\* The request of an undisturbed worker, with what its rows say.
LEMMA LoneRead ==
    ASSUME Readable, NEW w \in Workers, Busy(w), UpToDate(req[w])
    PROVE  LET r == req[w]
               d == r.drawing
               n == Len(r.row.revs)
           IN  /\ d \in Drawings /\ d # NoDrawing /\ TypeOK
               /\ StillAccepts(r.op, d, r.sheet, r.arg)
               /\ r.op \in Workflow =>
                     /\ n = Current(d) /\ n \in 1..Current(d)
                     /\ r.row.status = drawings[d].status
                     /\ r.row.system = drawings[d].system
                     /\ r.row.title = drawings[d].title
                     /\ r.row.revs[n] = [CurrentRevision(d) EXCEPT !.snapshot = NoSnapshot]
                     /\ CurrentRevision(d) \in Revision
               /\ \A s \in SheetsOf(d) : r.seen[s] = KeptSheet(r.op, s, r.sheet)
               /\ \A s \in Sheets : r.seen[s].drawing = d => s \in SheetsOf(d)
<1> DEFINE r == req[w]
           d == r.drawing
<1>1. d \in Drawings /\ d # NoDrawing /\ TypeOK /\ Grounded(r)
  BY RequestRead, ConstantsAssumption DEF Readable
<1>2. /\ r.row = KeptRow(r.op, d) /\ StillAccepts(r.op, d, r.sheet, r.arg)
      /\ \A s \in Sheets : sheets[s].drawing = d \/ r.seen[s].drawing = d =>
             r.seen[s] = KeptSheet(r.op, s, r.sheet)
  BY DEF UpToDate
<1> HIDE DEF r, d
<1>3. \A s \in Sheets : r.seen[s].drawing = d => s \in SheetsOf(d)
  BY <1>1, <1>2, KeptSheetType DEF SheetsOf
<1>4. ASSUME r.op \in Workflow
      PROVE  /\ Len(r.row.revs) = Current(d) /\ Current(d) \in 1..Current(d)
             /\ r.row.status = drawings[d].status
             /\ r.row.system = drawings[d].system
             /\ r.row.title = drawings[d].title
             /\ r.row.revs[Current(d)] = [CurrentRevision(d) EXCEPT !.snapshot = NoSnapshot]
             /\ CurrentRevision(d) \in Revision
  <2>1. Len(r.row.revs) = Current(d)
    BY <1>1, <1>2, <1>4, KeptRowType
  <2>2. Len(r.row.revs) \in 1..Current(d)
    BY <1>1, <1>4 DEF Grounded, d
  <2>3. QED
    BY <1>1, <1>2, <1>4, <2>1, <2>2, KeptRowType, CurrentType DEF CurrentRevision
<1>5. QED
  BY <1>1, <1>2, <1>3, <1>4 DEF r, d, SheetsOf

LEMMA LoneStatus ==
    ASSUME Readable, NEW w \in Workers, Busy(w), UpToDate(req[w]), req[w].op \in Workflow,
           NEW status, CommitStatus(req[w], status)
    PROVE  SetStatus(req[w].drawing, status) /\ UNCHANGED <<sheets, listed>>
<1> DEFINE r == req[w]
           d == r.drawing
           n == Len(r.row.revs)
<1>1. drawings' = [drawings EXCEPT
         ![d].status = Column(drawings[d].status, r.row.status, status),
         ![d].revs[n].status = Column(drawings[d].revs[n].status, r.row.revs[n].status, status)]
  BY DEF CommitStatus
<1>2. /\ n = Current(d) /\ r.row.status = drawings[d].status
      /\ r.row.revs[n].status = drawings[d].revs[n].status
  BY LoneRead DEF CurrentRevision, Revision
<1>3. /\ Column(drawings[d].status, r.row.status, status) = status
      /\ Column(drawings[d].revs[n].status, r.row.revs[n].status, status) = status
  BY <1>2 DEF Column
<1> HIDE DEF n, d, r
<1>4. drawings' = [drawings EXCEPT ![d].status = status, ![d].revs[n].status = status]
  BY <1>1, <1>3
<1>5. SetStatus(d, status)
  BY <1>2, <1>4 DEF SetStatus
<1>6. QED
  BY <1>5 DEF d, r, CommitStatus

\* The copies a release files are those of the rows as they are.
LEMMA LoneSnapshot ==
    ASSUME Readable, NEW w \in Workers, Busy(w), UpToDate(req[w]), req[w].op = "release",
           req[w].docs # Absent
    PROVE  LET d == req[w].drawing
           IN  ReadSnapshot(req[w]) = Content(d, CurrentRevision(d).text)
<1> DEFINE r == req[w]
           d == r.drawing
<1>1. r.op \in Workflow
  BY DEF Workflow
<1>2. /\ d \in Drawings /\ r.row.title = drawings[d].title
      /\ r.row.system = drawings[d].system
      /\ r.row.revs[Len(r.row.revs)].text = CurrentRevision(d).text
  BY <1>1, LoneRead DEF Revision
<1>3. DOMAIN r.docs = SheetsOf(d) /\ \A s \in SheetsOf(d) : r.docs[s] = sheets[s].doc
  BY DEF UpToDate
<1>4. ASSUME NEW s \in SheetsOf(d)
      PROVE  SnapshotCopy(r, s) = Copy(sheets[s])
  <2>1. /\ r.seen[s] = [FreeSheet EXCEPT !.drawing = sheets[s].drawing, !.no = sheets[s].no,
                                         !.title = sheets[s].title]
        /\ s \in Sheets /\ sheets[s].drawing = d
    BY LoneRead DEF KeptSheet, SheetsOf
  <2>2. r.seen[s].drawing = d /\ r.seen[s].no = sheets[s].no /\ r.seen[s].title = sheets[s].title
    BY <2>1 DEF FreeSheet
  <2>3. QED
    BY <1>3, <2>1, <2>2 DEF SnapshotCopy, LoadedSheets, Copy
<1> HIDE DEF d, r
<1>5. [s \in Sheets |-> IF s \in DOMAIN r.docs THEN SnapshotCopy(r, s) ELSE Absent]
         = [s \in Sheets |-> IF s \in SheetsOf(d) THEN Copy(sheets[s]) ELSE Absent]
  BY <1>3, <1>4
<1>6. ReadSnapshot(r) = Content(d, CurrentRevision(d).text)
  BY <1>2, <1>3, <1>5 DEF ReadSnapshot, Content, Links
<1>7. QED
  BY <1>6 DEF d, r

LEMMA LoneRelease ==
    ASSUME Readable, NEW w \in Workers, Busy(w), UpToDate(req[w]), req[w].op = "release",
           CommitRelease(req[w])
    PROVE  Release(req[w].drawing)
<1> DEFINE r == req[w]
           d == r.drawing
           n == Len(r.row.revs)
           st == Column(drawings[d].revs[n].status, r.row.revs[n].status, "released")
<1>1. r.op \in Workflow /\ r.docs # Absent /\ UNCHANGED <<sheets, listed>>
  BY DEF Workflow, CommitRelease
<1>2. /\ n = Current(d) /\ NoBlockers(d) /\ Editable(d)
      /\ r.row.revs[n].status = CurrentRevision(d).status
  BY <1>1, LoneRead DEF Revision, StillAccepts
<1>3. st = "released"
  BY <1>2 DEF Column, CurrentRevision
<1>4. SetsRow(d, "released", n,
              [drawings[d].revs[n] EXCEPT !.status = st, !.snapshot = ReadSnapshot(r)])
  BY <1>1, ReleaseWrites
<1>5. ReadSnapshot(r) = Content(d, CurrentRevision(d).text)
  BY <1>1, LoneSnapshot
<1> HIDE DEF d, r, n, st
<1>6. drawings' = [drawings EXCEPT ![d].status = "released", ![d].revs[Current(d)] = Filed(d)]
  BY <1>2, <1>3, <1>4, <1>5 DEF SetsRow, Filed, CurrentRevision
<1>7. QED
  BY <1>1, <1>2, <1>6 DEF Release, d, r


\* Two rows of a table with the same columns are the same row.
LEMMA SameSheetRow ==
    ASSUME NEW a \in SheetRow, NEW b \in SheetRow,
           a.drawing = b.drawing, a.no = b.no, a.title = b.title, a.doc = b.doc,
           a.index = b.index, a.findings = b.findings, a.cites = b.cites, a.waivers = b.waivers,
           a.stale = b.stale, a.derived = b.derived
    PROVE  a = b
  BY DEF SheetRow

LEMMA LoneRevision ==
    ASSUME Readable, NEW w \in Workers, Busy(w), UpToDate(req[w]),
           req[w].op \in {"revise", "create_revision"}, CommitRevision(req[w])
    PROVE  Revise(req[w].drawing, AnyText) \/ CreateRevision(req[w].drawing, AnyText)
<1> DEFINE r == req[w]
           d == r.drawing
           revs == Append(drawings[d].revs, NewRevision(AnyText))
<1>1. r.op \in Workflow
  BY DEF Workflow
<1>2. /\ d \in Drawings /\ drawings[d] \in DrawingRow /\ Len(r.row.revs) = Current(d)
      /\ drawings \in [Drawings -> DrawingRow] /\ sheets \in [Sheets -> SheetRow]
      /\ StillAccepts(r.op, d, r.sheet, r.arg)
  BY <1>1, LoneRead DEF TypeOK
<1>3. SubSeq(drawings[d].revs, 1, Len(r.row.revs)) = drawings[d].revs
  BY <1>2 DEF DrawingRow, Current
<1>4. /\ Current(d) < MaxRevisions
      /\ drawings' = [drawings EXCEPT
             ![d].status = IF r.op = "revise" THEN "draft" ELSE drawings[d].status,
             ![d].revs = revs]
      /\ sheets' = [s \in Sheets |-> IF r.op = "revise" /\ s \in SheetsOf(d)
                                     THEN [sheets[s] EXCEPT !.stale = TRUE]
                                     ELSE sheets[s]]
      /\ UNCHANGED listed
  BY <1>2, <1>3 DEF CommitRevision
<1> HIDE DEF d, r
<1>5. CASE r.op = "revise"
  BY <1>2, <1>4, <1>5 DEF Revise, StillAccepts, d, r
<1>6. CASE r.op = "create_revision"
  <2>1. sheets' = sheets
    BY <1>2, <1>4, <1>6
  <2>2. drawings' = [drawings EXCEPT ![d].revs = revs]
    <3> DEFINE a == [drawings[d] EXCEPT !.status = drawings[d].status, !.revs = revs]
               b == [drawings[d] EXCEPT !.revs = revs]
    <3>1. drawings' = [drawings EXCEPT ![d] = a]
      BY <1>2, <1>4, <1>6
    <3>2. a = b
      BY <1>2 DEF DrawingRow
    <3>3. QED
      BY <3>1, <3>2
  <2>3. Editable(d)
    BY <1>2, <1>6 DEF StillAccepts
  <2>4. CreateRevision(d, AnyText)
    BY <1>4, <2>1, <2>2, <2>3 DEF CreateRevision
  <2>5. QED
    BY <2>4 DEF d, r
<1>7. QED
  BY <1>5, <1>6 DEF r

\* The sheets a request loads by their numbers are those its drawing has.
LEMMA LoneNumbers ==
    ASSUME Readable, NEW w \in Workers, Busy(w), UpToDate(req[w]),
           req[w].op \in {"create_sheet", "delete_sheet"}
    PROVE  /\ LoadedSheets(req[w]) = SheetsOf(req[w].drawing)
           /\ \A s \in SheetsOf(req[w].drawing) : req[w].seen[s].no = sheets[s].no
<1> DEFINE r == req[w]
           d == r.drawing
<1>1. ASSUME NEW s \in SheetsOf(d)
      PROVE  r.seen[s].drawing = d /\ r.seen[s].no = sheets[s].no
  <2>1. r.seen[s] = [FreeSheet EXCEPT !.drawing = sheets[s].drawing, !.no = sheets[s].no,
                                      !.title = sheets[s].title]
    BY LoneRead DEF KeptSheet
  <2>2. QED
    BY <2>1 DEF FreeSheet, SheetsOf
<1>2. \A s \in Sheets : r.seen[s].drawing = d => s \in SheetsOf(d)
  BY LoneRead
<1>3. QED
  BY <1>1, <1>2 DEF LoadedSheets, SheetsOf

LEMMA LoneCreateSheet ==
    ASSUME Readable, NEW w \in Workers, Busy(w), UpToDate(req[w]), req[w].op = "create_sheet",
           CommitCreateSheet(req[w])
    PROVE  /\ CreateSheet(req[w].drawing, req[w].sheet, AnyText, req[w].arg)
           /\ req[w].sheet \in Sheets /\ req[w].arg \in Documents
<1> DEFINE r == req[w]
           d == r.drawing
<1>1. PICK no \in {1} \cup {r.seen[s].no + 1 : s \in LoadedSheets(r)} :
         /\ \A s \in LoadedSheets(r) : r.seen[s].no < no
         /\ sheets[r.sheet].drawing = NoDrawing
         /\ sheets' = [sheets EXCEPT ![r.sheet] = NewSheet(d, no, AnyText, r.arg)]
         /\ UNCHANGED <<drawings, listed>>
  BY DEF CommitCreateSheet
<1>2. /\ LoadedSheets(r) = SheetsOf(d)
      /\ \A s \in SheetsOf(d) : r.seen[s].no = sheets[s].no
  BY LoneNumbers
<1>3. Editable(d)
  BY LoneRead DEF StillAccepts
<1>4. r.sheet \in Sheets /\ r.arg \in Documents
  BY RequestRead DEF Fits, Workflow, Payload
<1> HIDE DEF r, d
<1>5. no \in NextNo(d)
  BY <1>1, <1>2 DEF NextNo
<1>6. CreateSheet(d, r.sheet, AnyText, r.arg)
  BY <1>1, <1>3, <1>5 DEF CreateSheet
<1>7. QED
  BY <1>4, <1>6 DEF d, r

LEMMA LoneDeleteSheet ==
    ASSUME Readable, NEW w \in Workers, Busy(w), UpToDate(req[w]), req[w].op = "delete_sheet",
           CommitDeleteSheet(req[w])
    PROVE  DeleteSheet(req[w].sheet)
<1> DEFINE r == req[w]
           d == r.drawing
           loaded == LoadedSheets(r) \ {r.sheet}
           seenRank(s) == 1 + Cardinality({q \in loaded : r.seen[q].no < r.seen[s].no})
           moved == {s \in loaded : seenRank(s) # r.seen[s].no}
           rest == SheetsOf(d) \ {r.sheet}
           rank(s) == 1 + Cardinality({q \in rest : sheets[q].no < sheets[s].no})
<1>1. /\ sheets' = [s \in Sheets |-> IF s = r.sheet THEN FreeSheet
                                     ELSE IF s \in moved THEN [sheets[s] EXCEPT !.no = seenRank(s)]
                                     ELSE sheets[s]]
      /\ UNCHANGED <<drawings, listed>>
  BY DEF CommitDeleteSheet
<1>2. /\ loaded = rest
      /\ \A s \in rest : r.seen[s].no = sheets[s].no
  BY LoneNumbers
<1>3. /\ Editable(d) /\ r.sheet \in SheetsOf(d) /\ SheetsOf(d) # {r.sheet} /\ d # NoDrawing
  BY LoneRead DEF StillAccepts
<1>4. ASSUME NEW s \in rest
      PROVE  seenRank(s) = rank(s)
  <2>1. {q \in loaded : r.seen[q].no < r.seen[s].no} = {q \in rest : sheets[q].no < sheets[s].no}
    BY <1>2
  <2>2. QED
    BY <2>1
<1>5. \A s \in Sheets : sheets[s] \in SheetRow
  BY DEF Readable, TypeOK
<1> HIDE DEF seenRank, rank, loaded, d, r
<1>6. ASSUME NEW s \in rest
      PROVE  sheets'[s] = [sheets[s] EXCEPT !.no = rank(s)]
  <2>1. s \in Sheets /\ s # r.sheet /\ s \in loaded
    BY <1>2 DEF SheetsOf
  <2>2. CASE rank(s) = sheets[s].no
    <3>1. sheets'[s] = sheets[s]
      BY <1>1, <1>2, <1>4, <2>1, <2>2
    <3>2. [sheets[s] EXCEPT !.no = sheets[s].no] = sheets[s]
      BY <1>5, <2>1 DEF SheetRow
    <3>3. QED
      BY <2>2, <3>1, <3>2
  <2>3. CASE rank(s) # sheets[s].no
    <3>1. s \in moved
      BY <1>2, <1>4, <2>1, <2>3
    <3>2. QED
      BY <1>1, <1>4, <2>1, <3>1
  <2>4. QED
    BY <2>2, <2>3
<1>7. \A s \in Sheets : s \in moved => s \in rest
  BY <1>2
<1> HIDE DEF moved
<1>8. sheets' = [s \in Sheets |-> IF s = r.sheet THEN FreeSheet
                                  ELSE IF s \in rest THEN [sheets[s] EXCEPT !.no = rank(s)]
                                  ELSE sheets[s]]
  BY <1>1, <1>6, <1>7
<1>9. sheets[r.sheet].drawing = d
  BY <1>3 DEF SheetsOf
<1>10. rest # {}
  BY <1>3
<1>11. DeleteSheet(r.sheet)
  BY <1>1, <1>3, <1>8, <1>9, <1>10 DEF DeleteSheet, rank
<1>12. QED
  BY <1>11 DEF r


\* What a lone save writes is what SaveSheet writes.
LEMMA LoneSave ==
    ASSUME Readable, NEW w \in Workers, Alone(w), UpToDate(req[w]), req[w].op = "save",
           CommitSave(req[w])
    PROVE  LET arg == req[w].arg
           IN  \E ix \in {Absent, IndexOf(req[w].sheet, arg.doc)} :
                   SaveSheet(req[w].sheet, Absent, arg.doc, ix, arg.drc, TRUE)
<1> DEFINE r == req[w]
           d == r.drawing
           s == r.sheet
           seen == r.seen[s]
           doc == r.arg.doc
           drc == r.arg.drc
           ix == IF drc = Absent THEN Absent ELSE PartsOf[doc]
           new == SavedRow(seen, Absent, doc, ix, drc, TRUE)
           row == sheets[s]
           saved == SavedRow(row, Absent, doc, ix, drc, TRUE)
<1>1. /\ Busy(w) /\ r.alone = TRUE /\ r \in RequestType
      /\ s \in Sheets /\ sheets \in [Sheets -> SheetRow] /\ row \in SheetRow /\ TypeOK
      /\ doc \in Documents /\ doc # Absent /\ drc \in (SUBSET FindingKeys) \cup {Absent}
  <2>1. Busy(w)
    BY DEF Alone
  <2>2. req[w] \in RequestType /\ s \in Sheets
    BY <2>1, RequestRead, SheetRequestRead DEF Workflow
  <2>3. r.alone = TRUE
    BY <2>2 DEF Alone, RequestType
  <2>4. QED
    BY <2>1, <2>2, <2>3, SaveRead, ConstantsAssumption DEF Readable, TypeOK
<1>2. Editable(d) /\ row.drawing = d /\ d # NoDrawing /\ s \in SheetsOf(d)
  BY <1>1, LoneRead DEF StillAccepts, SheetsOf
<1>3. seen = [row EXCEPT !.cites = {}, !.waivers = {}, !.derived = TRUE]
  BY <1>1, <1>2, LoneRead DEF KeptSheet
<1>4. ix \in (SUBSET Parts) \cup {Absent}
  BY <1>1, ConstantsAssumption
<1>5. PICK left \in Left(r, s) :
         /\ sheets' = [sheets EXCEPT ![s] =
              [row EXCEPT !.doc      = Column(row.doc, seen.doc, new.doc),
                          !.index    = Rows(row.index, seen.index, new.index),
                          !.findings = IF drc = Absent THEN row.findings
                                       ELSE left \cup new.findings,
                          !.cites    = IF drc = Absent THEN row.cites
                                       ELSE (row.cites \cap left) \cup new.cites,
                          !.stale    = Column(row.stale, seen.stale, new.stale),
                          !.derived  = new.derived /\ r.alone]]
         /\ UNCHANGED <<drawings, listed>>
  BY DEF CommitSave, SaveWrites
<1> HIDE DEF r, d, s, seen, doc, drc, ix, row
<1>6. /\ seen.doc = row.doc /\ seen.index = row.index /\ seen.findings = row.findings
      /\ seen.stale = row.stale /\ seen.title = row.title /\ seen \in SheetRow
  BY <1>1, <1>3 DEF SheetRow
<1>16. left = {}
  BY <1>1, <1>5, <1>6 DEF Left, seen, row
<1>7. /\ new \in SheetRow /\ saved \in SheetRow
  BY <1>1, <1>4, <1>6, SavedRowType
<1>8. /\ new.doc = saved.doc /\ new.index = saved.index /\ new.findings = saved.findings
      /\ new.stale = saved.stale /\ new.derived = saved.derived
      /\ drc = Absent => saved.findings = row.findings /\ saved.cites = row.cites
      /\ drc # Absent => saved.cites = new.cites
      /\ saved.drawing = row.drawing /\ saved.no = row.no /\ saved.title = row.title
      /\ saved.waivers = row.waivers
  <2>1. /\ \A q \in SheetRow :
             LET of == SavedRow(q, Absent, doc, ix, drc, TRUE)
                 complete == ix # Absent /\ drc # Absent
             IN  /\ of.doc = doc /\ of.index = IF ix = Absent THEN q.index ELSE ix \cap listed
                 /\ of.findings = IF drc = Absent THEN q.findings ELSE drc
                 /\ of.cites = IF drc = Absent THEN q.cites
                               ELSE {k \in drc : RequirementOf[k] \in listed}
                 /\ of.stale = ~complete
                 /\ of.derived = complete
                 /\ of.drawing = q.drawing /\ of.no = q.no /\ of.title = q.title
                 /\ of.waivers = q.waivers
    BY <1>1 DEF SavedRow, SheetRow
  <2>2. QED
    BY <1>1, <1>6, <2>1
<1> HIDE DEF new, saved
<1>9. /\ Column(row.doc, seen.doc, new.doc) = saved.doc
      /\ Rows(row.index, seen.index, new.index) = saved.index
      /\ (IF drc = Absent THEN row.findings ELSE left \cup new.findings) = saved.findings
      /\ (IF drc = Absent THEN row.cites ELSE (row.cites \cap left) \cup new.cites)
            = saved.cites
      /\ Column(row.stale, seen.stale, new.stale) = saved.stale
  BY <1>6, <1>7, <1>8, <1>16 DEF Column, Rows
<1>10. (new.derived /\ r.alone) = saved.derived
  BY <1>1, <1>7, <1>8 DEF SheetRow
<1>11. [row EXCEPT !.doc = saved.doc, !.index = saved.index, !.findings = saved.findings,
                   !.cites = saved.cites, !.stale = saved.stale,
                   !.derived = saved.derived] = saved
  <2> DEFINE w1 == [row EXCEPT !.doc = saved.doc, !.index = saved.index,
                               !.findings = saved.findings, !.cites = saved.cites,
                               !.stale = saved.stale, !.derived = saved.derived]
  <2>1. /\ w1 \in SheetRow
        /\ w1.drawing = row.drawing /\ w1.no = row.no /\ w1.title = row.title
        /\ w1.doc = saved.doc /\ w1.index = saved.index /\ w1.findings = saved.findings
        /\ w1.cites = saved.cites /\ w1.waivers = row.waivers /\ w1.stale = saved.stale /\ w1.derived = saved.derived
    BY <1>1, <1>7 DEF SheetRow
  <2> HIDE DEF w1
  <2>2. w1 = saved
    BY <1>7, <1>8, <2>1, SameSheetRow
  <2>3. QED
    BY <2>2 DEF w1
<1>12. sheets' = [sheets EXCEPT ![s] = saved]
  BY <1>5, <1>9, <1>10, <1>11
<1>13. SaveSheet(s, Absent, doc, ix, drc, TRUE)
  BY <1>2, <1>5, <1>12 DEF SaveSheet, saved, row
<1>14. ix \in {Absent, IndexOf(s, doc)}
  BY <1>1 DEF ix, IndexOf
<1>15. QED
  BY <1>13, <1>14 DEF r, s, doc, drc

LEMMA LoneWaiver ==
    ASSUME Readable, NEW w \in Workers, Busy(w), UpToDate(req[w]),
           req[w].op \in {"waive", "unwaive"}, CommitWaiver(req[w])
    PROVE  Waive(req[w].sheet, req[w].arg) \/ Unwaive(req[w].sheet, req[w].arg)
<1> DEFINE r == req[w]
           s == r.sheet
<1>1. s \in SheetsOf(r.drawing) /\ Editable(r.drawing) /\ r.drawing # NoDrawing
  BY LoneRead DEF StillAccepts
<1>2. sheets[s].drawing # NoDrawing /\ Editable(sheets[s].drawing)
  BY <1>1 DEF SheetsOf
<1>3. CASE r.op = "waive"
  BY <1>2, <1>3 DEF CommitWaiver, Waive
<1>4. CASE r.op = "unwaive"
  <2>1. r.arg \in sheets[s].waivers
    BY <1>4, LoneRead DEF StillAccepts
  <2>2. QED
    BY <1>2, <1>4, <2>1 DEF CommitWaiver, Unwaive
<1>5. QED
  BY <1>3, <1>4


LEMMA LoneCommit ==
    ASSUME Readable, NEW w \in Workers, Alone(w), UpToDate(req[w]), Commit(w)
    PROVE  Next
<1> DEFINE r == req[w]
           d == r.drawing
<1>1. /\ Busy(w) /\ d \in Drawings /\ AnyText \in Texts /\ Fits(r)
      /\ StillAccepts(r.op, d, r.sheet, r.arg)
  BY RequestRead, LoneRead, AnyTextType DEF Alone
<1>2. ASSUME DrawingRequest(d)
      PROVE  Next
  BY <1>1, <1>2 DEF Next
<1>3. ASSUME r.sheet \in Sheets, SheetRequest(r.sheet)
      PROVE  Next
  BY <1>3 DEF Next
<1>4. CASE r.op = "submit" /\ CommitStatus(r, "in_review")
  <2>1. Submit(d)
    BY <1>1, <1>4, LoneStatus DEF Submit, StillAccepts, Workflow
  <2>2. QED
    BY <1>2, <2>1 DEF DrawingRequest
<1>5. CASE r.op = "withdraw" /\ CommitStatus(r, "draft")
  <2>1. Withdraw(d)
    BY <1>1, <1>5, LoneStatus DEF Withdraw, StillAccepts, Workflow
  <2>2. QED
    BY <1>2, <2>1 DEF DrawingRequest
<1>6. CASE r.op = "release" /\ CommitRelease(r)
  BY <1>1, <1>2, <1>6, LoneRelease DEF DrawingRequest
<1>7. CASE r.op \in {"revise", "create_revision"} /\ CommitRevision(r)
  BY <1>1, <1>2, <1>7, LoneRevision DEF DrawingRequest
<1>8. CASE r.op = "create_sheet" /\ CommitCreateSheet(r)
  BY <1>1, <1>3, <1>8, LoneCreateSheet DEF SheetRequest
<1>9. r.op \notin Workflow => r.sheet \in Sheets
  BY <1>1 DEF Fits
<1>10. CASE r.op = "delete_sheet" /\ CommitDeleteSheet(r)
  BY <1>1, <1>3, <1>9, <1>10, LoneDeleteSheet DEF SheetRequest, Workflow
<1>11. CASE r.op = "save" /\ CommitSave(r)
  <2>1. /\ r.sheet \in Sheets /\ r.arg.doc \in Documents
        /\ r.arg.drc \in (SUBSET FindingKeys) \cup {Absent}
    BY <1>1, <1>11, SaveRead
  <2>2. \E ix \in {Absent, IndexOf(r.sheet, r.arg.doc)} :
            SaveSheet(r.sheet, Absent, r.arg.doc, ix, r.arg.drc, TRUE)
    BY <1>11, LoneSave
  <2>3. SheetRequest(r.sheet)
    BY <2>1, <2>2 DEF SheetRequest
  <2>4. QED
    BY <1>3, <2>1, <2>3
<1>12. CASE r.op \in {"waive", "unwaive"} /\ CommitWaiver(r)
  <2>1. r.sheet \in Sheets /\ r.arg \in FindingKeys
    BY <1>1, <1>9, <1>12 DEF Fits, Workflow
  <2>2. SheetRequest(r.sheet)
    BY <1>1, <1>12, <2>1, LoneWaiver DEF SheetRequest
  <2>3. QED
    BY <1>3, <2>1, <2>2
<1>13. QED
  BY <1>4, <1>5, <1>6, <1>7, <1>8, <1>10, <1>11, <1>12 DEF Commit

\* A request that ran alone on its drawing, with no flag set meanwhile, does at its commit
\* what DrawingRelease says its handler does in one step, or it fails and does nothing.
\* So whatever DrawingRelease proves of the handlers is lost to overlaps only: to another
\* request on the same drawing, or to a part or requirement request flagging its sheets.
THEOREM LoneRequests == SpecRequests => LoneRequestsAreSerial
<1> DEFINE Serial == \A w \in Workers : Alone(w) /\ ~Busy(w)' => [Next]_vars
<1>1. Readable /\ LoneInv /\ [NextRequests]_allVars => [Serial]_allVars
  <2>1. ASSUME Readable, LoneInv, [NextRequests]_allVars, NEW w \in Workers,
               Alone(w), ~Busy(w)'
        PROVE  [Next]_vars
    <3>1. CASE UNCHANGED <<drawings, sheets, listed>>
      BY <3>1 DEF vars
    <3>2. CASE UNCHANGED allVars
      BY <3>1, <3>2 DEF allVars
    <3>3. ASSUME NEW v \in Workers, Commit(v)
          PROVE  [Next]_vars
      <4>1. v = w
        BY <2>1, <3>3 DEF Commit, Done, Readable, Busy, Alone
      <4>2. QED
        BY <2>1, <3>3, <4>1, LoneCommit DEF LoneInv, Undisturbed
    <3>4. CASE Disturb
      BY <3>4 DEF Disturb, Next, CatalogRequest, RequirementRequest
    <3>5. QED
      BY <2>1, <3>1, <3>2, <3>3, <3>4, RequestCases DEF Load, LoadDocuments, Fail
  <2>2. QED
    BY <2>1
<1>2. QED
  BY AlwaysLone, <1>1, PTL DEF SpecRequests, LoneRequestsAreSerial

=============================================================================
