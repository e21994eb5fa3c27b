------------------------------- MODULE MCPages -------------------------------
EXTENDS GridView, PartsGrid, Workspace, PageLoads, ImportWizard, SymbolEditor, ListsDrawer, ReleasePanel, TLC

MCColumn(key, type, hideable, hidden) == [key |-> key, type |-> type, hideable |-> hideable, hidden |-> hidden]

MCColumns == {MCColumn("status", "enum", TRUE, FALSE), MCColumn("number", "text", FALSE, FALSE),
              MCColumn("mass", "number", TRUE, TRUE)}

MCRow(id, status, number, mass) ==
    [id |-> id, cells |-> [status |-> status, number |-> number, mass |-> mass]]

MCRowLists ==
    {<<MCRow(1, 1, 3, NoValue), MCRow(2, 2, 1, 7), MCRow(3, NoValue, 2, 5), MCRow(4, 1, 4, 5)>>,
     <<MCRow(2, 1, 1, 7), MCRow(3, 2, 2, 9)>>, << >>}

MCLabels == <<2, 1>>
MCNeedles == [one |-> {1, 3}, two |-> {2, 4}]

MCFilters ==
    {[key |-> "status", filter |-> f] : f \in {SetFilterOf("status", {1}, {1, 2, NoValue}),
                                               SetFilterOf("status", {1, 2, NoValue}, {1, 2, NoValue})}}
        \cup {[key |-> "mass", filter |-> f] :
                f \in {[kind |-> "range", low |-> 5, high |-> 6], [kind |-> "=", operand |-> NoValue],
                       [kind |-> "!=", operand |-> 7], [kind |-> ">", operand |-> 5],
                       [kind |-> "<=", operand |-> 5]}}
        \cup {[key |-> "number", filter |-> [kind |-> "contains", operand |-> "one"]]}

MCKey(key, ctrl, shift) == [key |-> key, ctrl |-> ctrl, shift |-> shift]

MCKeys ==
    {MCKey("ArrowDown", FALSE, TRUE), MCKey("ArrowUp", FALSE, FALSE), MCKey("ArrowRight", TRUE, FALSE),
     MCKey("ArrowLeft", FALSE, FALSE), MCKey("Home", FALSE, FALSE), MCKey("End", TRUE, TRUE),
     MCKey("PageUp", FALSE, FALSE), MCKey("PageDown", FALSE, FALSE), MCKey("Tab", FALSE, FALSE),
     MCKey("Tab", FALSE, TRUE), MCKey("Escape", FALSE, FALSE), MCKey("a", TRUE, FALSE),
     MCKey("Space", FALSE, FALSE), MCKey("Space", FALSE, TRUE)}

MCReadings == [one |-> 1]
MCFlagReadings == [one |-> TRUE]
MCRanges == {PartIds \X {"cv", "preferred"}}

MCOwnerOf == <<1, 2, 1>>
MCMaxPicks == [name \in PageNames |-> IF name \in {"requirements", "bom", "settings"} THEN 1 ELSE 2]

MCRowsOf ==
    [bolts |-> <<[key |-> "k1", cell |-> "2,0"], [key |-> "k2", cell |-> "blank"]>>,
     valves |-> <<[key |-> "k1", cell |-> "1"]>>,
     twice |-> <<[key |-> "k1", cell |-> "1"], [key |-> "k1", cell |-> "2,0"]>>,
     header |-> << >>]

MCCellReadings ==
    [on \in BOOLEAN |->
        [cell \in {"1", "2,0", "blank"} |->
            IF cell = "1" THEN 1 ELSE IF cell = "blank" THEN KeptCell ELSE IF on THEN 2 ELSE BadCell]]

MCFirstListed == <<1, 2>>

MCSheetsOf == <<{1, 2}, {3}>>

VARIABLE page  \* the component a behaviour is about: the others stay as they begin

MCInit ==
    /\ GridViewInit /\ PartsInit /\ WorkspaceInit /\ LoadsInit /\ WizardInit /\ SymbolInit /\ ListsInit /\ PanelInit
    /\ page \in {"grid", "parts", "workspace", "loads", "wizard", "symbols", "lists", "release"}
    /\ page # "parts" => catalog = [p \in PartIds |-> FirstRow]
    /\ page # "grid" <=> gridRows = << >>
    /\ page # "workspace" => route = "systems" /\ stored = NoneChosen
    /\ page # "loads" => mounted = "snapshot"
    /\ page # "wizard" => inputs.kind = "file" /\ importTable = [key \in ImportKeys |-> NoRow]
    /\ filed.docs[1].ref # NoRef /\ (page # "lists" => filed.docs[2].ref = NoRef)
    /\ page # "release" => panel.sheet = 1

\* In one behaviour either waivers are given, or sheets added.
InLists ==
    ~ /\ filed'.waived # {} \/ \E c \in asked' : c.kind = "waive"
      /\ filed'.order # MCFirstListed \/ \E c \in asked' : c.kind = "add"

\* In one dialog either shapes are drawn, without a name and before any save, or ports placed and the symbol saved.
InSymbols ==
    dialog'.open => \/ dialog'.ports = << >> /\ ~dialog'.named /\ counts'.saves = 0
                    \/ dialog'.drawn = << >> /\ dialog'.tool = "port" /\ dialog'.dragged = "nothing" /\ dialog'.stroke = NoStroke

MCNext ==
    /\ UNCHANGED page
    /\ \/ page = "grid" /\ GridViewNext /\ UNCHANGED <<partsVars, workspaceVars, loadsVars, wizardVars, symbolVars, drawerVars, panelVars>>
       \/ page = "parts" /\ PartsNext /\ UNCHANGED <<gridViewVars, workspaceVars, loadsVars, wizardVars, symbolVars, drawerVars, panelVars>>
       \/ page = "workspace" /\ WorkspaceNext /\ UNCHANGED <<gridViewVars, partsVars, loadsVars, wizardVars, symbolVars, drawerVars, panelVars>>
       \/ page = "loads" /\ LoadsNext /\ UNCHANGED <<gridViewVars, partsVars, workspaceVars, wizardVars, symbolVars, drawerVars, panelVars>>
       \/ page = "wizard" /\ WizardNext /\ UNCHANGED <<gridViewVars, partsVars, workspaceVars, loadsVars, symbolVars, drawerVars, panelVars>>
       \/ page = "symbols" /\ SymbolNext /\ InSymbols /\ UNCHANGED <<gridViewVars, partsVars, workspaceVars, loadsVars, wizardVars, drawerVars, panelVars>>
       \/ page = "lists" /\ ListsNext /\ InLists /\ UNCHANGED <<gridViewVars, partsVars, workspaceVars, loadsVars, wizardVars, symbolVars, panelVars>>
       \/ page = "release" /\ PanelNext /\ UNCHANGED <<gridViewVars, partsVars, workspaceVars, loadsVars, wizardVars, symbolVars, drawerVars>>

MCSpec == MCInit /\ [][MCNext]_<<gridViewVars, partsVars, workspaceVars, loadsVars, wizardVars, symbolVars, drawerVars, panelVars, page>>

\* The behaviours about one component.
MCPartsSpec == page = "parts" /\ MCSpec
MCWizardSpec == page = "wizard" /\ MCSpec
MCListsSpec == page = "lists" /\ MCSpec
MCPanelSpec == page = "release" /\ MCSpec

=============================================================================
