------------------------- MODULE MCReleaseRequests --------------------------
(* Small instances of ReleaseRequests: every document but the empty one    *)
(* assigns the parts its name says, and all findings are about one         *)
(* requirement or none is.  A behaviour keeps to one of two instances: two *)
(* revisions and waivers over one sheet, or two sheets over one revision   *)
(* without DRC findings.                                                   *)
EXTENDS ReleaseRequests, TLC

CONSTANTS blank, withP

VARIABLE focus  \* "revisions" or "sheets"

MCPartsOf == [c \in Documents |-> IF c = withP THEN Parts ELSE {}]

MCProjectOf == [x \in Systems \cup Requirements |-> CHOOSE j \in Projects : TRUE]

MCRequirementOf == [k \in FindingKeys |-> IF Requirements = {} THEN Null
                                          ELSE CHOOSE r \in Requirements : TRUE]

MCSymmetry == Permutations(Workers) \cup Permutations(Sheets)

NoFindings(r) ==
    /\ r.op \notin {"waive", "unwaive"}
    /\ r.op = "save" => r.arg.drc \in {Absent, {}}

InFocus ==
    IF focus = "revisions"
    THEN \A w \in Workers : Busy(w) => req[w].op # "create_sheet"
    ELSE /\ \A d \in Drawings : Current(d) <= 1
         /\ \A w \in Workers : Busy(w) => NoFindings(req[w])

MCInit == InitRequests /\ focus \in {"revisions", "sheets"}

MCNext == NextRequests /\ UNCHANGED focus /\ InFocus'

MCSpec == MCInit /\ [][MCNext]_<<allVars, focus>>

=============================================================================
