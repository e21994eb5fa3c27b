-------------------------- MODULE MCDrawingRelease --------------------------
(* Small instances of DrawingRelease: every document but the empty one     *)
(* assigns the parts its name says, all systems and requirements are of    *)
(* one project and all findings about one requirement.  A behaviour keeps  *)
(* to one of three instances: all texts, findings and waivers over at most *)
(* one sheet; more sheets with one text and without findings, three of     *)
(* them while the drawing has one revision and two when it has more; or    *)
(* systems and requirements, with one text over at most one sheet.         *)
EXTENDS DrawingRelease, TLC

CONSTANTS blank, withP

VARIABLE focus  \* "workflow", "sheets" or "links"

MCPartsOf == [c \in Documents |-> IF c = withP THEN Parts ELSE {}]

MCProjectOf == [x \in Systems \cup Requirements |-> CHOOSE j \in Projects : TRUE]

MCRequirementOf == [k \in FindingKeys |-> IF Requirements = {} THEN Null
                                          ELSE CHOOSE r \in Requirements : TRUE]

MCSymmetry == Permutations(Sheets)

SheetsInUse == {s \in Sheets : sheets[s].drawing # NoDrawing}

OneText ==
    /\ \A s \in SheetsInUse : sheets[s].title = AnyText
    /\ \A d \in Drawings :
          /\ drawings[d].title = AnyText
          /\ \A n \in 1..Current(d) : drawings[d].revs[n].text = AnyText

NoReferences ==
    /\ Requirements \cap listed = {}
    /\ \A d \in Drawings : drawings[d].system = Null

InFocus ==
    \/ focus = "workflow" /\ Cardinality(SheetsInUse) <= 1 /\ NoReferences
    \/ focus = "links" /\ Cardinality(SheetsInUse) <= 1 /\ OneText
    \/ /\ focus = "sheets"
       /\ NoReferences /\ OneText
       /\ \A s \in SheetsInUse : sheets[s].findings \cup sheets[s].waivers = {}
       /\ \A d \in Drawings : Current(d) > 1 => Cardinality(SheetsInUse) <= 2

MCInit == Init /\ focus \in {"workflow", "sheets", "links"}

MCNext == Next /\ UNCHANGED focus /\ InFocus'

MCSpec == MCInit /\ [][MCNext]_<<vars, focus>>

=============================================================================
