-------------------------- MODULE ReleaseRequests ---------------------------
(***************************************************************************)
(* The handlers of DrawingRelease as the server runs them: in a pool of    *)
(* threads, each request with a database session of its own.  A request    *)
(* first loads its rows and decides on them whether to refuse, and commits *)
(* its writes later; what other requests commit in between it does not     *)
(* see.  PostgreSQL runs READ COMMITTED (db.py sets no isolation level), no *)
(* row is locked on reading and no row carries a version.                  *)
(*                                                                         *)
(* A commit writes what SQLAlchemy's unit of work writes: the columns whose *)
(* value differs from the loaded one, in the row with that id.  Besides a  *)
(* missing row only the unique constraints on revision sequences, sheet    *)
(* numbers and waivers can stop it.                                        *)
(*                                                                         *)
(* Left to DrawingRelease alone: creating and deleting projects, systems,  *)
(* requirements and drawings, and the updates of metadata.  A part or a    *)
(* requirement that changes stays one step, since the flags are set by one *)
(* UPDATE next to the commit.                                              *)
(***************************************************************************)
EXTENDS DrawingRelease

CONSTANTS
    Workers,    \* threads of the server's pool
    Idle,       \* a worker that runs no request
    MaxSheetNo  \* bound: the highest number a sheet may take

VARIABLE
    req         \* req[w]: the request worker w runs with what it has read, or Idle

allVars == <<drawings, sheets, listed, req>>

Busy(w) == req[w] # Idle

\* Every drawing is as it was created, with a sheet of its own.
InitRequests ==
    /\ \E home \in [Drawings -> Projects] :
         drawings = [d \in Drawings |->
                        [status |-> "draft", project |-> home[d], system |-> Null,
                         title |-> AnyText, revs |-> <<NewRevision(AnyText)>>]]
    /\ \E first \in [Drawings -> Sheets] :
         /\ \A d, e \in Drawings : first[d] = first[e] => d = e
         /\ sheets = [s \in Sheets |->
                IF \E d \in Drawings : first[d] = s
                THEN NewSheet(CHOOSE d \in Drawings : first[d] = s, 1, AnyText, EmptyDocument)
                ELSE FreeSheet]
    /\ listed = Parts \cup Projects \cup Requirements
    /\ req = [w \in Workers |-> Idle]

-----------------------------------------------------------------------------
(* Loading.                                                                *)

Workflow == {"submit", "withdraw", "release", "revise", "create_revision"}

\* The checks each handler makes on what it loads; arg is the payload.
Accepts(op, d, s, arg) ==
    \/ op = "submit" /\ drawings[d].status = "draft"
    \/ op = "withdraw" /\ drawings[d].status = "in_review"
    \/ op = "release" /\ Editable(d) /\ NoBlockers(d)
    \/ op = "revise" /\ drawings[d].status = "released"
    \/ op = "create_revision" /\ Editable(d)
    \/ op = "create_sheet" /\ Editable(d) /\ sheets[s].drawing = NoDrawing
    \/ op = "delete_sheet" /\ Editable(d) /\ s \in SheetsOf(d) /\ SheetsOf(d) # {s}
    \/ op = "save" /\ Editable(d) /\ s \in SheetsOf(d)
    \/ op = "waive" /\ Editable(d) /\ s \in SheetsOf(d)
    \/ op = "unwaive" /\ Editable(d) /\ s \in SheetsOf(d) /\ arg \in sheets[s].waivers

\* Of the rows it loads a request keeps the columns it still reads at its commit.
KeptRow(op, d) ==
    IF op \in Workflow
    THEN [drawings[d] EXCEPT !.revs = [n \in 1..Current(d) |->
             [drawings[d].revs[n] EXCEPT !.snapshot = NoSnapshot]]]
    ELSE NoRow

KeptSheet(op, s, target) ==
    LET row == sheets[s]
    IN  IF s = target /\ op = "save" THEN [row EXCEPT !.cites = {}, !.waivers = {}, !.derived = TRUE]
        ELSE IF s = target /\ op \in {"waive", "unwaive"}
             THEN [FreeSheet EXCEPT !.drawing = row.drawing, !.waivers = row.waivers]
        ELSE IF op \in {"release", "create_sheet", "delete_sheet"}
             THEN [FreeSheet EXCEPT !.drawing = row.drawing, !.no = row.no, !.title = row.title]
        ELSE FreeSheet

\* What runs beside others on the same drawing is not alone, and neither are they.
Joined(w, d) == [v \in Workers |->
    IF v # w /\ Busy(v) /\ req[v].drawing = d THEN [req[v] EXCEPT !.alone = FALSE] ELSE req[v]]

\* alone is not in the code: no other request touched the drawing since this one loaded.
Load(w, op, d, s, arg) ==
    /\ ~Busy(w)
    /\ Accepts(op, d, s, arg)
    /\ req' = [Joined(w, d) EXCEPT
                 ![w] = [op |-> op, drawing |-> d, sheet |-> s, arg |-> arg,
                         row |-> KeptRow(op, d),
                         seen |-> [r \in Sheets |-> KeptSheet(op, r, s)], docs |-> Absent,
                         alone |-> \A v \in Workers : Busy(v) => req[v].drawing # d]]
    /\ UNCHANGED <<drawings, sheets, listed>>

\* release_snapshot selects the sheets of the drawing again: this loads the documents,
\* deferred until now, but refreshes no column that is loaded already.
LoadDocuments(w) ==
    LET d == req[w].drawing
    IN  /\ Busy(w) /\ req[w].op = "release" /\ req[w].docs = Absent
        /\ req' = [req EXCEPT ![w].docs = [s \in SheetsOf(d) |-> sheets[s].doc]]
        /\ UNCHANGED <<drawings, sheets, listed>>

-----------------------------------------------------------------------------
(* Committing.                                                             *)

\* The value of a column after the UPDATE of a row that held seen when it was loaded.
Column(now, seen, new) == IF new = seen THEN now ELSE new

\* Child rows after deletes and inserts worked out on the rows seen.
Rows(now, seen, new) == (now \ (seen \ new)) \cup (new \ seen)

Done(w) == req' = [req EXCEPT ![w] = Idle]

LoadedSheets(r) == {s \in Sheets : r.seen[s].drawing = r.drawing}

\* Fault: only the drawing changes its status.
CommitDrawingStatus(r, status) ==
    /\ drawings' = [drawings EXCEPT ![r.drawing].status = Column(@, r.row.status, status)]
    /\ UNCHANGED <<sheets, listed>>

CommitStatus(r, status) ==
    LET d == r.drawing
        n == Len(r.row.revs)
    IN  /\ drawings' = [drawings EXCEPT
             ![d].status = Column(@, r.row.status, status),
             ![d].revs[n].status = Column(@, r.row.revs[n].status, status)]
        /\ UNCHANGED <<sheets, listed>>

\* The copy of sheet s the snapshot gets: number and title as first loaded, the document
\* as loaded for the snapshot, the index, DRC and waiver rows as selected after it.
SnapshotCopy(r, s) ==
    LET first == IF s \in LoadedSheets(r) THEN r.seen[s] ELSE sheets[s]
    IN  [no |-> first.no, title |-> first.title, doc |-> r.docs[s], index |-> sheets[s].index,
         findings |-> sheets[s].findings, waivers |-> sheets[s].waivers]

CommitRelease(r) ==
    LET d   == r.drawing
        n   == Len(r.row.revs)
        rev == r.row.revs[n]
        snapshot == [title |-> r.row.title, text |-> rev.text,
                     sheets |-> [s \in Sheets |-> IF s \in DOMAIN r.docs THEN SnapshotCopy(r, s)
                                                  ELSE Absent],
                     links |-> ({r.row.system} \ {Null}) \cup
                               {link \in (DOMAIN r.docs) \X FindingKeys :
                                    link[2] \in sheets[link[1]].cites}]
    IN  /\ r.docs # Absent
        /\ drawings' = [drawings EXCEPT
             ![d].status = "released",
             ![d].revs[n].status = Column(@, rev.status, "released"),
             ![d].revs[n].snapshot = snapshot]
        /\ UNCHANGED <<sheets, listed>>

\* Fault: no unique constraint stops a second revision of the same sequence, and it
\* takes the place of the first.
NextRevisionAlways(r) == TRUE

\* uq_drawing_revision_seq: the sequence worked out on loading must still be free.
NextRevisionFree(r) == Current(r.drawing) = Len(r.row.revs)

CommitRevision(r) ==
    LET d == r.drawing
    IN  /\ Len(r.row.revs) < MaxRevisions
        /\ NextRevisionFree(r)
        /\ drawings' = [drawings EXCEPT
             ![d].status = IF r.op = "revise" THEN "draft" ELSE @,
             ![d].revs = Append(SubSeq(@, 1, Len(r.row.revs)), NewRevision(AnyText))]
        /\ sheets' = [s \in Sheets |-> IF r.op = "revise" /\ s \in SheetsOf(d)
                                       THEN [sheets[s] EXCEPT !.stale = TRUE]
                                       ELSE sheets[s]]
        /\ UNCHANGED listed

\* uq_drawing_sheet_no, over the sheets as the request leaves them.
DistinctNumbers(d, rows) ==
    \A s, r \in Sheets : rows[s].drawing = d /\ rows[r].drawing = d /\ rows[s].no = rows[r].no
                            => s = r

\* An id never comes back: one that some request has loaded is not taken for a new sheet.
Untouched(s) == \A v \in Workers : Busy(v) => req[v].seen[s].drawing = NoDrawing

CommitCreateSheet(r) ==
    \E no \in {1} \cup {r.seen[s].no + 1 : s \in LoadedSheets(r)} :
        /\ no <= MaxSheetNo
        /\ \A s \in LoadedSheets(r) : r.seen[s].no < no
        /\ sheets[r.sheet].drawing = NoDrawing
        /\ Untouched(r.sheet)
        /\ sheets' = [sheets EXCEPT ![r.sheet] = NewSheet(r.drawing, no, AnyText, r.arg)]
        /\ DistinctNumbers(r.drawing, sheets')
        /\ UNCHANGED <<drawings, listed>>

\* Deleting a row that is gone is no error, updating one is.
CommitDeleteSheet(r) ==
    LET rest  == LoadedSheets(r) \ {r.sheet}
        rank(s) == 1 + Cardinality({q \in rest : r.seen[q].no < r.seen[s].no})
        moved == {s \in rest : rank(s) # r.seen[s].no}
    IN  /\ \A s \in moved : sheets[s].drawing = r.drawing
        /\ sheets' = [s \in Sheets |-> IF s = r.sheet THEN FreeSheet
                                       ELSE IF s \in moved THEN [sheets[s] EXCEPT !.no = rank(s)]
                                       ELSE sheets[s]]
        /\ DistinctNumbers(r.drawing, sheets')
        /\ UNCHANGED <<drawings, listed>>

\* The findings on row s that the DELETE of request r leaves: rows it has not seen.  A
\* finding it has seen may also be in a row that another save stored anew.
Left(r, s) ==
    LET unseen == sheets[s].findings \ r.seen[s].findings
    IN  IF r.alone THEN {unseen} ELSE {F \in SUBSET sheets[s].findings : unseen \subseteq F}

\* The row a save writes over the one its sheet has by then.  arg is the document with the
\* error findings of a DRC run over it, or with Absent when the payload carries no derived
\* data.  Index rows are updated in place, findings are deleted and inserted.  What
\* overlapping requests leave of the index and the DRC counts as not derived.
SaveWrites(r, left) ==
    LET row  == sheets[r.sheet]
        drc  == r.arg.drc
        seen == r.seen[r.sheet]
        new  == SavedRow(seen, Absent, r.arg.doc,
                         IF drc = Absent THEN Absent ELSE PartsOf[r.arg.doc], drc, TRUE)
    IN  [row EXCEPT !.doc      = Column(row.doc, seen.doc, new.doc),
                    !.index    = Rows(row.index, seen.index, new.index),
                    !.findings = IF drc = Absent THEN row.findings ELSE left \cup new.findings,
                    !.cites    = IF drc = Absent THEN row.cites
                                 ELSE (row.cites \cap left) \cup new.cites,
                    !.stale    = Column(row.stale, seen.stale, new.stale),
                    !.derived  = new.derived /\ r.alone]

CommitSave(r) ==
    LET s == r.sheet
    IN  /\ sheets[s].drawing = r.drawing
        /\ \E left \in Left(r, s) : sheets' = [sheets EXCEPT ![s] = SaveWrites(r, left)]
        /\ UNCHANGED <<drawings, listed>>

\* uq_drc_waiver: only the first of two requests inserts the waiver of a key.
CommitWaiver(r) ==
    LET s == r.sheet
    IN  /\ sheets[s].drawing = r.drawing
        /\ r.op = "waive" => r.arg \in r.seen[s].waivers <=> r.arg \in sheets[s].waivers
        /\ sheets' = [sheets EXCEPT ![s].waivers = IF r.op = "waive" THEN @ \cup {r.arg}
                                                   ELSE @ \ {r.arg}]
        /\ UNCHANGED <<drawings, listed>>

Commit(w) ==
    /\ Busy(w)
    /\ LET r == req[w]
       IN  \/ r.op = "submit" /\ CommitStatus(r, "in_review")
           \/ r.op = "withdraw" /\ CommitStatus(r, "draft")
           \/ r.op = "release" /\ CommitRelease(r)
           \/ r.op \in {"revise", "create_revision"} /\ CommitRevision(r)
           \/ r.op = "create_sheet" /\ CommitCreateSheet(r)
           \/ r.op = "delete_sheet" /\ CommitDeleteSheet(r)
           \/ r.op = "save" /\ CommitSave(r)
           \/ r.op \in {"waive", "unwaive"} /\ CommitWaiver(r)
    /\ Done(w)

\* A constraint violated, a row gone, the connection or the process lost: the
\* transaction is rolled back.
Fail(w) ==
    /\ Busy(w)
    /\ Done(w)
    /\ UNCHANGED <<drawings, sheets, listed>>

\* A part or requirement request flags sheets while requests are under way.
Disturb ==
    /\ \/ \E p \in Parts : UpdatePart(p)
       \/ \E r \in Requirements : UpdateRequirement(r, TRUE)
    /\ req' = [v \in Workers |-> IF Busy(v) THEN [req[v] EXCEPT !.alone = FALSE] ELSE Idle]

-----------------------------------------------------------------------------

Payload(op) ==
    IF op = "save" THEN [doc : Documents, drc : {Absent} \cup SUBSET FindingKeys]
    ELSE IF op = "create_sheet" THEN Documents
    ELSE FindingKeys

NextRequests ==
    \/ \E w \in Workers, d \in Drawings :
         \/ \E op \in Workflow : Load(w, op, d, Absent, Absent)
         \/ \E s \in Sheets : Load(w, "delete_sheet", d, s, Absent)
         \/ \E op \in {"create_sheet", "save", "waive", "unwaive"}, s \in Sheets :
              \E arg \in Payload(op) : Load(w, op, d, s, arg)
    \/ \E w \in Workers : LoadDocuments(w) \/ Commit(w) \/ Fail(w)
    \/ Disturb

SpecRequests == InitRequests /\ [][NextRequests]_allVars

-----------------------------------------------------------------------------
(* Properties.                                                             *)

RequestType ==
    [op : Workflow \cup {"create_sheet", "delete_sheet", "save", "waive", "unwaive"},
     drawing : Drawings, sheet : {Absent} \cup Sheets, arg : {Absent} \cup UNION {Payload(op) :
        op \in {"save", "create_sheet", "waive"}},
     row : DrawingRow, seen : [Sheets -> SheetRow],
     docs : {Absent} \cup UNION {[S -> Documents] : S \in SUBSET Sheets}, alone : BOOLEAN]

\* The tables and what the requests have read of them hold rows of their types.
RequestsTypeOK ==
    /\ drawings \in [Drawings -> DrawingRow]
    /\ sheets \in [Sheets -> SheetRow]
    /\ req \in [Workers -> {Idle} \cup RequestType]

Alone(w) == Busy(w) /\ req[w].alone

\* A request during which no other touched its drawing, and no flag was set, does what
\* DrawingRelease says or fails: whatever goes wrong needs an overlap.
LoneRequestsAreSerial ==
    [][\A w \in Workers : Alone(w) /\ ~Busy(w)' => [Next]_vars]_allVars

\* However requests overlap, the snapshot filed for a revision is not lost: the unique
\* sequence refuses the second of two revisions opened at once.
BaselineStays ==
    [][\A d \in Drawings : \A n \in 1..Current(d) :
          drawings[d].revs[n].snapshot # NoSnapshot =>
              n \in 1..Current(d)' /\ drawings'[d].revs[n].snapshot # NoSnapshot]_allVars

\* release.py says that a release is refused while a sheet has open errors: a sheet as
\* filed has none that is not waived.
FiledSheetsAreClean ==
    \A d \in Drawings : \A n \in 1..Current(d) :
        LET filed == drawings[d].revs[n].snapshot
        IN  filed # NoSnapshot =>
                \A s \in Sheets : filed.sheets[s] # Absent =>
                    filed.sheets[s].findings \subseteq filed.sheets[s].waivers

\* implementation.md says that the sheets of a released drawing are locked until a new
\* revision is started: none of them goes, or gets another document.
ReleasedSheetsLocked ==
    [][\A s \in Sheets :
          LET d == sheets[s].drawing
          IN  d # NoDrawing /\ drawings[d].status = "released" /\ drawings'[d].status = "released"
                => sheets'[s].drawing = d /\ sheets'[s].doc = sheets[s].doc]_allVars

=============================================================================
