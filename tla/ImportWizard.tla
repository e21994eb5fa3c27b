----------------------------- MODULE ImportWizard -----------------------------
(***************************************************************************)
(* The import dialog (ImportWizard.tsx): a source and a mode, a dry run     *)
(* whose report is shown, and the import, which the server plans anew and   *)
(* applies all or nothing (bulk_import.py).  The inputs stay enabled while  *)
(* a call is under way; the buttons do not.                                 *)
(*                                                                         *)
(* A row is a key and the value of its one cell.  Column mapping, messages, *)
(* the preview's filter and the templates are left out.                     *)
(***************************************************************************)
EXTENDS Integers, Sequences, FiniteSets, SequencesExt

CONSTANTS
    ImportKeys,          \* part numbers, requirement keys
    ImportSources,       \* what a file or a paste may hold
    RowsOf,              \* RowsOf[source]: its rows [key, cell], << >> when it has none
    CellReadings,        \* CellReadings[comma][cell]: the value read; BadCell, or KeptCell when blank
    BadCell, KeptCell,
    NoSource, NoReport, NoRow,
    MaxInputs, MaxImports, MaxOthers  \* bounds: changes of the inputs, calls, changes by others

Modes == {"create_only", "upsert"}

ImportBody == [source : {NoSource} \cup ImportSources, comma : BOOLEAN]
ImportReport == [body : ImportBody, mode : Modes, rows : Seq({"create", "update", "unchanged", "error"})]
ImportCall ==
    [kind : {"check", "import"}, body : ImportBody, mode : Modes, shown : {NoReport} \cup ImportReport,
     stage : {"asked", "answered", "refresh"}, answer : {NoReport} \cup ImportReport]

ASSUME ImportAssumption ==
    /\ RowsOf \in [ImportSources -> Seq([key : ImportKeys, cell : UNION {DOMAIN CellReadings[on] : on \in BOOLEAN}])]
    /\ NoReport \notin ImportReport
    /\ NoReport \notin ImportCall

VARIABLES
    importTable,  \* importTable[key]: the server's value, or NoRow
    inputs,       \* [kind, file, paste, comma, mode]
    report,       \* the report shown: [body, mode, rows], or NoReport
    done,         \* the report of the import that went through, or NoReport
    busy,         \* the call under way: [kind, body, mode, shown, stage, answer], or NoReport
    wizardOpen,
    changes, calls, others,
    late          \* not in the code: the inputs changed under the check that is reported

wizardVars == <<importTable, inputs, report, done, busy, wizardOpen, changes, calls, others, late>>

\* Rows pasted below a grid start as the paste, and are checked at once.
WizardInit ==
    /\ importTable \in [ImportKeys -> {NoRow, 1}]
    /\ \E rows \in {NoSource} \cup ImportSources :
         inputs = [kind  |-> IF rows = NoSource THEN "file" ELSE "paste", file |-> NoSource, paste |-> rows,
                   comma |-> FALSE, mode |-> "create_only"]
    /\ report = NoReport /\ done = NoReport
    /\ busy = IF inputs.kind = "file" \/ RowsOf[inputs.paste] = << >> THEN NoReport
              ELSE [kind |-> "check", body |-> [source |-> inputs.paste, comma |-> FALSE], mode |-> inputs.mode,
                    shown |-> NoReport, stage |-> "asked", answer |-> NoReport]
    /\ wizardOpen = TRUE
    /\ changes = 0 /\ calls = 0 /\ others = 0
    /\ late = FALSE

-----------------------------------------------------------------------------
(* The server's plan.                                                      *)

Parsed(body) ==
    LET rows == RowsOf[body.source]
    IN  [i \in DOMAIN rows |-> [key |-> rows[i].key, value |-> CellReadings[body.comma][rows[i].cell]]]

\* A bad cell, a key met before or one that only an upsert may touch is an error.
Action(rows, i, mode) ==
    LET row == rows[i]
        old == importTable[row.key]
    IN  IF row.value = BadCell \/ \E j \in 1..(i - 1) : rows[j].key = row.key THEN "error"
        ELSE IF old = NoRow THEN "create"
        ELSE IF mode = "create_only" THEN "error"
        ELSE IF row.value \in {KeptCell, old} THEN "unchanged"
        ELSE "update"

PlanImport(body, mode) ==
    LET rows == Parsed(body)
    IN  [body |-> body, mode |-> mode, rows |-> [i \in DOMAIN rows |-> Action(rows, i, mode)]]

HasErrors(plan) == "error" \in ToSet(plan.rows)

\* A blank cell keeps the default of a new row.
CommitPlan(plan) ==
    LET rows == Parsed(plan.body)
        value(key) == {rows[i].value : i \in {j \in DOMAIN rows : rows[j].key = key}} \ {KeptCell}
    IN  [key \in ImportKeys |->
            IF value(key) # {} THEN CHOOSE v \in value(key) : TRUE
            ELSE IF \E i \in DOMAIN rows : rows[i].key = key /\ importTable[key] = NoRow THEN 0
            ELSE importTable[key]]

RunImport ==
    /\ busy # NoReport /\ busy.stage = "asked"
    /\ LET plan == PlanImport(busy.body, busy.mode)
           commits == busy.kind = "import" /\ ~HasErrors(plan)
       IN  /\ importTable' = IF commits THEN CommitPlan(plan) ELSE importTable
           /\ busy' = [busy EXCEPT !.stage = "answered", !.answer = plan]
    /\ UNCHANGED <<inputs, report, done, wizardOpen, changes, calls, others, late>>

\* Another user creates or edits a row.
OtherEdit(key, value) ==
    /\ others < MaxOthers
    /\ importTable[key] # value
    /\ importTable' = [importTable EXCEPT ![key] = value]
    /\ others' = others + 1
    /\ UNCHANGED <<inputs, report, done, busy, wizardOpen, changes, calls, late>>

-----------------------------------------------------------------------------
(* The dialog.                                                             *)

\* The file, or the pasted rows when there is a header and a row.
Source ==
    IF inputs.kind = "file" THEN [source |-> inputs.file, comma |-> FALSE]
    ELSE [source |-> IF inputs.paste = NoSource \/ RowsOf[inputs.paste] = << >> THEN NoSource ELSE inputs.paste,
          comma  |-> inputs.comma]

\* Fault: the last dry run stays.
KeepReport == UNCHANGED <<report, done>>

Invalidate == report' = NoReport /\ done' = NoReport

Change(next) ==
    /\ wizardOpen /\ changes < MaxInputs
    /\ next # inputs
    /\ changes' = changes + 1
    /\ inputs' = next
    /\ Invalidate
    /\ late' = (late \/ (busy # NoReport /\ busy.kind = "check"))
    /\ UNCHANGED <<importTable, busy, wizardOpen, calls, others>>

ChooseKind(kind) == Change([inputs EXCEPT !.kind = kind])
ChooseFile(file) == inputs.kind = "file" /\ Change([inputs EXCEPT !.file = file])
Paste(rows) == inputs.kind = "paste" /\ Change([inputs EXCEPT !.paste = rows])
DecimalComma(on) == inputs.kind = "paste" /\ Change([inputs EXCEPT !.comma = on])
ChooseMode(mode) == Change([inputs EXCEPT !.mode = mode])

Call(kind) ==
    /\ calls < MaxImports
    /\ calls' = calls + 1
    /\ busy' = [kind |-> kind, body |-> Source, mode |-> inputs.mode, shown |-> report, stage |-> "asked",
                answer |-> NoReport]

\* Without a source there is only a message.
Check ==
    /\ wizardOpen /\ busy = NoReport
    /\ Source.source # NoSource
    /\ Call("check")
    /\ done' = NoReport
    /\ late' = FALSE
    /\ UNCHANGED <<importTable, inputs, report, wizardOpen, changes, others>>

\* The button is off while the report has errors or nothing to apply.
Commit ==
    /\ wizardOpen /\ busy = NoReport
    /\ report # NoReport /\ done = NoReport
    /\ ~HasErrors(report) /\ ToSet(report.rows) \cap {"create", "update"} # {}
    /\ Source.source # NoSource
    /\ Call("import")
    /\ UNCHANGED <<importTable, inputs, report, done, wizardOpen, changes, others, late>>

\* A refused import shows why; after one that went through the page reads its rows again.
Answered ==
    /\ busy # NoReport /\ busy.stage = "answered"
    /\ IF busy.kind = "import" /\ ~HasErrors(busy.answer)
       THEN /\ done' = busy.answer
            /\ report' = NoReport
            /\ busy' = [busy EXCEPT !.stage = "refresh"]
       ELSE /\ report' = busy.answer
            /\ busy' = NoReport
            /\ UNCHANGED done
    /\ UNCHANGED <<importTable, inputs, wizardOpen, changes, calls, others, late>>

\* onImported, whether its reading succeeds or not.
Refreshed ==
    /\ busy # NoReport /\ busy.stage = "refresh"
    /\ busy' = NoReport
    /\ UNCHANGED <<importTable, inputs, report, done, wizardOpen, changes, calls, others, late>>

\* A check that fails leaves no report; an import that fails, or whose answer is lost,
\* leaves the one it had.
CallFails ==
    /\ busy # NoReport /\ busy.stage # "refresh"
    /\ report' = IF busy.kind = "check" THEN NoReport ELSE report
    /\ busy' = NoReport
    /\ UNCHANGED <<importTable, inputs, done, wizardOpen, changes, calls, others, late>>

\* Escape, the backdrop and the buttons.
Close ==
    /\ wizardOpen /\ busy = NoReport
    /\ wizardOpen' = FALSE
    /\ UNCHANGED <<importTable, inputs, report, done, busy, changes, calls, others, late>>

WizardNext ==
    \/ RunImport
    \/ \E key \in ImportKeys, value \in {1, 2} : OtherEdit(key, value)
    \/ \E kind \in {"file", "paste"} : ChooseKind(kind)
    \/ \E source \in {NoSource} \cup ImportSources : ChooseFile(source) \/ Paste(source)
    \/ \E on \in BOOLEAN : DecimalComma(on)
    \/ \E mode \in Modes : ChooseMode(mode)
    \/ Check \/ Commit \/ Answered \/ Refreshed \/ CallFails \/ Close

WizardSpec == WizardInit /\ [][WizardNext]_wizardVars

-----------------------------------------------------------------------------
(* Properties.                                                             *)

\* An import writes the rows its report showed, reads their cells as the report did, and
\* under "create only" replaces no row, whatever others changed since the dry run and
\* however often the button is pressed after a lost answer; unless the inputs changed
\* under the check, whose report then stands for a source it never saw.
ImportsWhatWasShown ==
    [][busy # NoReport /\ busy.kind = "import" /\ others' = others /\ importTable' # importTable /\ ~late =>
          LET rows == Parsed(busy.shown.body)
          IN  /\ \A i \in DOMAIN rows :
                    rows[i].value # KeptCell => importTable'[rows[i].key] = rows[i].value
              /\ \A key \in ImportKeys :
                    importTable'[key] # importTable[key] =>
                        /\ \E i \in DOMAIN rows : rows[i].key = key
                        /\ importTable[key] # NoRow => busy.shown.mode = "upsert"]_wizardVars

\* A change to the source or mode invalidates the last dry run: what is sent to be
\* imported is what the report beside the button is about (ImportWizard.tsx:107-112).  It
\* does not hold: a dry run that was under way at the change brings its report afterwards.
ImportIsOfItsReport ==
    busy # NoReport /\ busy.kind = "import" => busy.body = busy.shown.body /\ busy.mode = busy.shown.mode

=============================================================================
