------------------------------ MODULE MCEngine ------------------------------
(***************************************************************************)
(* A small instance of each of the engine's groups of modules.  A      *)
(* behaviour is about one of them; the others stay empty.                   *)
(***************************************************************************)
EXTENDS FieldEdits, SpatialIndex, DesignRules, EditorTools

-----------------------------------------------------------------------------
(* Tags and field edits.                                                   *)

MCTag(sep, small, digits) == [letters |-> "HV", small |-> small, sep |-> sep, digits |-> digits]

MCItem(id, kind, tag, rank) ==
    [id |-> id, kind |-> kind, tag |-> tag, rank |-> rank,
     values |-> [f \in {"name", "partId", "dnp", "spare", "notes", "lineClass", "service", "spec", "insulation"} |-> ""]]

MCSheetItems ==
    <<<<MCItem(1, "symbol", MCTag("-", FALSE, <<0, 1, 1>>), 2), MCItem(2, "equipment", MCTag(" ", TRUE, <<0, 1, 2>>), 1),
        MCItem(3, "line", NoTag, 3)>>,
      <<MCItem(4, "symbol", MCTag("-", FALSE, <<0, 1, 0>>), 1)>>>>

MCRaw == [kind |-> NoValue, separator |-> NoValue, letters |-> NoValue, systems |-> NoValue,
          classes |-> NoValue, length |-> NoValue, strict |-> NoValue]

MCRawSchemes == {MCRaw, [MCRaw EXCEPT !.kind = "structured", !.systems = <<0>>, !.classes = <<1>>]}

MCSpecOf == [c \in LineClasses |-> "316L"]
MCInsulationOf == [c \in LineClasses |-> ""]

MCTags == {MCTag("-", FALSE, <<0, 1, n>>) : n \in 0..2}
MCTagEdit(id, tag) == [id |-> id, field |-> "tag", value |-> tag]
MCTagEdits == {<<MCTagEdit(1, p[1]), MCTagEdit(2, p[2])>> : p \in MCTags \X MCTags}
    \cup {<<MCTagEdit(2, tag)>> : tag \in {NoTag, MCTag(" ", FALSE, <<0, 1, 1>>)}}

\* Another sheet's tag.
MCTypedTags == {MCTag("-", FALSE, <<0, 1, 0>>)}

MCEdit(id, field, value) == [id |-> id, field |-> field, value |-> value]

MCBatches == MCTagEdits \cup
    {<<MCEdit(3, "lineClass", "H2"), MCEdit(3, "spec", "304")>>, <<MCEdit(3, "spec", "304"), MCEdit(3, "lineClass", "H2")>>,
     <<MCEdit(3, "lineClass", "He"), MCEdit(3, "tag", NoTag)>>, <<MCEdit(2, "name", ""), MCEdit(2, "partId", "old")>>,
     <<MCEdit(1, "dnp", "no"), MCEdit(1, "spare", "0")>>}
-----------------------------------------------------------------------------
(* Lines and what they are attached to.                                    *)

MCPort(name, x, side) == [port |-> name, at |-> Pt(x, 0), side |-> side, kind |-> "process"]

MCPortDefs == [id \in PartIds |-> IF id \in EquipmentIds THEN {[port |-> "n1", at |-> Pt(20, 10), side |-> "right", kind |-> "nozzle"]}
                                  ELSE {MCPort("a", -10, "left"), MCPort("b", 10, "right")}]

MCSizeOf == [id \in PartIds |-> [width |-> 20, height |-> 20]]

MCParts == [id \in PartIds |-> [at |-> IF id = 1 THEN Pt(20, 30) ELSE Pt(40, 20), rotation |-> 0, mirror |-> FALSE]]

\* From the symbol to the vessel's side, a tee onto it, a line it crosses, and one whose end is a unit off it.
MCWires == << [id |-> 11, points |-> <<Pt(30, 30), Pt(60, 30)>>],
              [id |-> 12, points |-> <<Pt(50, 50), Pt(50, 30)>>],
              [id |-> 13, points |-> <<Pt(40, 10), Pt(40, 40), Pt(10, 40)>>],
              [id |-> 14, points |-> <<Pt(20, 10), Pt(20, 39)>>] >>

MCProbes == {Pt(20, 30), Pt(34, 30), Pt(43, 24), Pt(50, 17), Pt(50, 50), Pt(56, 42), Pt(45, 8), Pt(10, 20)}

MCDeltas == {Pt(10, 0), Pt(0, 10)}

\* What is selected to align or distribute, in the order it was selected.
MCSelections == {<<1, 2>>, <<2, 1, 12>>, <<11, 1, 2>>}

MCClicks == {Pt(31, 29), Pt(48, 8)}
-----------------------------------------------------------------------------
(* A sheet to check.                                                       *)

MCTagOf(n) == MCTag("-", FALSE, <<n>>)

MCScheme == NormalizeScheme(MCRaw)

MCSize(number, unit) == [number |-> number, unit |-> unit, over |-> 4]

MCBody(id, kind, category, key, tag, part, ports) ==
    [id |-> id, kind |-> kind, category |-> category, key |-> key, tag |-> tag, part |-> part,
     ports |-> {[name |-> p, kind |-> IF kind = "equipment" THEN "nozzle" ELSE "process", size |-> MCSize(1, "over")] : p \in ports},
     blanks |-> {}, ref |-> IF category = "connector" THEN "A" ELSE NoValue]

OnPort(id, port) == [id |-> id, port |-> port, tee |-> FALSE]
OnLine(id, tee) == [id |-> id, port |-> NoValue, tee |-> tee]

MCLine(id, type, number, size, class, first, second) ==
    [id |-> id, kind |-> "line", type |-> type, number |-> number, size |-> size, class |-> class, service |-> IF number = NoValue THEN NoValue ELSE "GHe",
     pressure |-> [number |-> 2, unit |-> "MPa"], marks |-> {}, stub |-> FALSE, ends |-> <<first, second>>]

MCRuleSheets == { <<
    MCBody(1, "symbol", "valve", "hand_valve", MCTagOf(1), "p1", {"in", "out"}),
    MCLine(12, "process", "3102", MCSize(1, "over"), "HE-1", <<OnPort(2, "n2")>>, <<OnPort(4, "in")>>),
    MCBody(2, "equipment", "equipment", "none", MCTagOf(1), "p2", {"n1", "n2", "n3"}),
    MCLine(11, "process", NoValue, MCSize(6, "mm"), NoValue, <<OnPort(1, "out")>>, <<OnPort(2, "n1")>>),
    MCBody(3, "symbol", "valve", "relief_valve", NoTag, NoValue, {"in", "vent"}),
    MCBody(4, "symbol", "connector", "offpage", NoTag, NoValue, {"in"}),
    MCLine(13, t, "3103", NoValue, "HE-2", <<OnLine(14, FALSE)>>, <<OnPort(3, "in")>>),
    MCLine(14, t, "3103", NoValue, "HE-1", <<OnPort(2, "n3")>>, <<OnLine(13, FALSE)>>) >> : t \in {"process", "signal"}}

MCConnectors == <<[id |-> 21, ref |-> "A", sheet |-> 2]>>

MCCatalog == [p1 |-> [status |-> "active", qualified |-> TRUE, preferred |-> FALSE, rating |-> [number |-> 10, unit |-> "bar"], words |-> {"316l"}],
              p2 |-> [status |-> "obsolete", qualified |-> FALSE, preferred |-> FALSE, rating |-> NoValue, words |-> {"brass"}]]

MCRequirement(id, kind, values, services) == [id |-> id, kind |-> kind, values |-> values, categories |-> {}, services |-> services]

MCRequirements == {MCRequirement("R1", "relief_required", {}, {}), MCRequirement("R2", "line_class_in", {"HE-1"}, {"GHe"}),
                   MCRequirement("R3", "material_in", {"316l"}, {}), MCRequirement("R4", "pressure_rating_min", {[number |-> 100, unit |-> "psi"]}, {})}

MCLineUpdates == {[number |-> "3104", size |-> MCSize(2, "in"), class |-> "HE-1"], [number |-> NoValue, size |-> NoValue, class |-> NoValue]}

MCTouches == {<< >>, <<OnPort(2, "n3")>>, <<OnPort(3, "in")>>, <<OnLine(11, TRUE)>>, <<OnPort(4, "in"), OnLine(12, FALSE)>>}
-----------------------------------------------------------------------------
VARIABLE focus

\* Two of them are about the editor session: every tool and button on one change of the
\* document and no panel, or a panel on several changes by the select tool and notes.
Foci == {"tags", "wires", "rules", "gestures", "views"}
OnCanvas == focus \in {"gestures", "views"}

NoTags == tagScheme = MCScheme /\ tagSheets = [s \in SheetNames |-> << >>]
NoWires == placed = MCParts /\ wires = << >> /\ edits = 0
NoRules == ruleSheet = << >> /\ ruleWaivers = {} /\ ruleEdits = 0
NoSession == editor = FirstEditor(FALSE) /\ canvas = [down |-> {}, pan |-> FALSE]

MCInit ==
    /\ focus \in Foci
    /\ IF focus = "tags" THEN TagInit ELSE NoTags
    /\ IF focus = "wires" THEN WiringInit ELSE NoWires
    /\ IF focus = "rules" THEN RuleInit ELSE NoRules
    /\ IF OnCanvas THEN EditorInit ELSE NoSession

InGestures == editor'.no <= 1 /\ ~editor'.panel.on
InViews ==
    /\ editor'.tool \in {"select", "note"} /\ editor'.clipboard = 0 /\ Cardinality(editor'.selection) <= 1
    /\ canvas'.down \subseteq {"left"} /\ ~canvas'.pan

MCNext ==
    /\ UNCHANGED focus
    /\ \/ focus = "tags" /\ TagNext /\ UNCHANGED <<wiringVars, ruleVars, editorVars>>
       \/ focus = "wires" /\ WiringNext /\ UNCHANGED <<tagVars, ruleVars, editorVars>>
       \/ focus = "rules" /\ RuleNext /\ UNCHANGED <<tagVars, wiringVars, editorVars>>
       \/ OnCanvas /\ EditorNext /\ (IF focus = "views" THEN InViews ELSE InGestures) /\ UNCHANGED <<tagVars, wiringVars, ruleVars>>

MCSpec == MCInit /\ [][MCNext]_<<focus, tagVars, wiringVars, ruleVars, editorVars>>

=============================================================================
