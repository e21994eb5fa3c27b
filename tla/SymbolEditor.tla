---------------------------- MODULE SymbolEditor ---------------------------
(***************************************************************************)
(* The editor of custom symbols (SymbolEditorModal.tsx): drawn shapes, ports *)
(* and imported markup, and the saves DraftingPage.tsx opens it for.  A shape *)
(* is its identity and stroke, markup the set of pieces it draws.             *)
(***************************************************************************)
EXTENDS Integers, Sequences, FiniteSets

CONSTANTS
    SymbolIds,    \* of custom symbols: those not stored yet are the server's next ids
    FirstSymbols, \* those stored to begin with, each with markup and no ports
    Spots,        \* where a port may be
    Strokes,      \* of a shape: colour and width, NoStroke is the default
    NoStroke,
    MaxShapes,    \* bound: shapes ever drawn
    MaxPorts,     \* bound: ports of a draft
    MaxSaves      \* bound: saves and deletions

ASSUME SymbolAssumption == FirstSymbols \subseteq SymbolIds /\ NoStroke \in Strokes

VARIABLES
    dialog,   \* the open dialog's draft and tools
    symbols,  \* symbols[id]: what the server stores, NoSymbol if nothing
    sent,     \* requests under way: saves and deletions
    counts    \* [shapes, saves]: identities given out and the bound used up

symbolVars == <<dialog, symbols, sent, counts>>

\* The imported piece of a drawing; drawn shapes are pieces by their identity, from 1.
Import == 0

NoSymbol == [svg |-> {}, ports |-> << >>]
ToolModes == {"port", "line", "rect", "circle"}
NoLine == 0

\* What is in front of the user: nothing, or a draft of a new (0) or stored symbol.
Closed == [open |-> FALSE]

Opened(id) ==
    [open |-> TRUE, of |-> id, named |-> id # 0,
     svg |-> IF id = 0 THEN {} ELSE symbols[id].svg, ports |-> IF id = 0 THEN << >> ELSE symbols[id].ports,
     drawn |-> << >>, tool |-> "port", line |-> NoLine, dragged |-> "nothing",
     selected |-> 0, picked |-> 0,  \* the chip selected by its place; the shape the user meant by its identity
     stroke |-> NoStroke, error |-> FALSE, busy |-> FALSE]

SymbolInit ==
    /\ dialog = Closed
    /\ symbols = [id \in SymbolIds |-> IF id \in FirstSymbols THEN [svg |-> {Import}, ports |-> << >>] ELSE NoSymbol]
    /\ sent = {}
    /\ counts = [shapes |-> 0, saves |-> 0]

Edited(draft) == dialog.open /\ dialog' = draft /\ UNCHANGED <<symbols, sent, counts>>

\* buildSafeCombinedSvg
Combined(d) == d.svg \cup {d.drawn[n].id : n \in DOMAIN d.drawn}
-----------------------------------------------------------------------------
(* Opening and closing.                                                    *)

OpenEditor(id) ==
    /\ ~dialog.open
    /\ id # 0 => symbols[id] # NoSymbol
    /\ dialog' = Opened(id)
    /\ UNCHANGED <<symbols, sent, counts>>

\* The cross, Cancel, and a press on the backdrop, at any time.
CloseEditor == dialog.open /\ dialog' = Closed /\ UNCHANGED <<symbols, sent, counts>>

-----------------------------------------------------------------------------
(* Markup.                                                                 *)

TypeName == Edited([dialog EXCEPT !.named = TRUE]) /\ ~dialog.named

\* Leaving the field, or a file once it is read: what parses replaces the imported part.
ApplyMarkup(text) ==
    Edited(IF text = "bad" THEN [dialog EXCEPT !.error = TRUE] ELSE [dialog EXCEPT !.svg = {Import}, !.error = FALSE])

-----------------------------------------------------------------------------
(* Drawing.                                                                *)

SelectTool(tool) == Edited([dialog EXCEPT !.tool = tool, !.line = NoLine])

\* A shape takes the stroke of the toolbar.
AppendShape(draft) ==
    /\ dialog.open /\ counts.shapes < MaxShapes
    /\ counts' = [counts EXCEPT !.shapes = @ + 1]
    /\ dialog' = [draft EXCEPT !.drawn = Append(@, [id |-> counts.shapes + 1, stroke |-> dialog.stroke])]
    /\ UNCHANGED <<symbols, sent>>

AddLinePoint == dialog.open /\ dialog.tool = "line" /\ dialog.line < 2 /\ Edited([dialog EXCEPT !.line = @ + 1])

\* Enter or a double click: a line of two distinct points or more is drawn.
FinishLine ==
    /\ dialog.open /\ dialog.line # NoLine
    /\ LET ended == [dialog EXCEPT !.line = NoLine] IN Edited(ended) \/ (dialog.line = 2 /\ AppendShape(ended))

CancelLine == dialog.open /\ dialog.line # NoLine /\ Edited([dialog EXCEPT !.line = NoLine, !.selected = 0, !.picked = 0])

\* A press with the rectangle or circle tool is followed on the window until the button is let go,
\* whatever tool is chosen meanwhile; too small a shape is not drawn.
StartShape == dialog.open /\ dialog.tool \in {"rect", "circle"} /\ dialog.dragged = "nothing" /\ Edited([dialog EXCEPT !.dragged = "shape"])

StopShape ==
    /\ dialog.open /\ dialog.dragged = "shape"
    /\ LET ended == [dialog EXCEPT !.dragged = "nothing"] IN Edited(ended) \/ AppendShape(ended)

-----------------------------------------------------------------------------
(* Shapes drawn.                                                           *)

SelectShape(n) ==
    Edited(IF dialog.selected = n THEN [dialog EXCEPT !.selected = 0, !.picked = 0]
           ELSE [dialog EXCEPT !.selected = n, !.picked = dialog.drawn[n].id])

DeselectShape == dialog.open /\ dialog.selected # 0 /\ Edited([dialog EXCEPT !.selected = 0, !.picked = 0])

Without(seq, n) == SubSeq(seq, 1, n - 1) \o SubSeq(seq, n + 1, Len(seq))

\* The shape the user meant is gone with its chip.
PickedIn(drawn) == IF \E n \in DOMAIN drawn : drawn[n].id = dialog.picked THEN dialog.picked ELSE 0

UndoShape ==
    /\ dialog.open /\ dialog.drawn # << >>
    /\ LET last == Len(dialog.drawn)
           drawn == SubSeq(dialog.drawn, 1, last - 1)
       IN Edited([dialog EXCEPT !.drawn = drawn, !.selected = IF @ >= last THEN 0 ELSE @, !.picked = PickedIn(drawn)])

\* Fault: the selection stays at its place when a shape before it goes.
RemoveShapeInPlace(n) ==
    LET drawn == Without(dialog.drawn, n)
    IN Edited([dialog EXCEPT !.drawn = drawn, !.selected = IF @ = n THEN 0 ELSE @, !.picked = PickedIn(drawn)])

RemoveShape(n) ==
    LET drawn == Without(dialog.drawn, n)
    IN Edited([dialog EXCEPT !.drawn = drawn, !.selected = IF @ = n THEN 0 ELSE IF @ > n THEN @ - 1 ELSE @,
                             !.picked = PickedIn(drawn)])

\* The stroke controls restyle the selected shape, or else set what later ones take.
PickStroke(stroke) ==
    Edited(IF dialog.selected # 0 THEN [dialog EXCEPT !.drawn[dialog.selected].stroke = stroke]
           ELSE [dialog EXCEPT !.stroke = stroke])

-----------------------------------------------------------------------------
(* Ports, numbered by the first free number above their count.             *)

PortNumbers(ports) == {ports[n].number : n \in DOMAIN ports}

NextPort(ports) ==
    CHOOSE k \in (Len(ports) + 1)..(2 * Len(ports) + 1) :
        /\ k \notin PortNumbers(ports)
        /\ \A j \in (Len(ports) + 1)..(k - 1) : j \in PortNumbers(ports)

AddPort(spot) ==
    /\ dialog.open /\ dialog.tool = "port" /\ Combined(dialog) # {} /\ Len(dialog.ports) < MaxPorts
    /\ Edited([dialog EXCEPT !.ports = Append(@, [number |-> NextPort(dialog.ports), at |-> spot])])

DragPort(n, spot) == Edited([dialog EXCEPT !.ports[n].at = spot])

RemovePort(n) == Edited([dialog EXCEPT !.ports = Without(@, n)])

-----------------------------------------------------------------------------
(* Saving and deleting.                                                    *)

MaySave == dialog.open /\ ~dialog.busy /\ dialog.named /\ Combined(dialog) # {}

Save ==
    /\ MaySave /\ counts.saves < MaxSaves
    /\ counts' = [counts EXCEPT !.saves = @ + 1]
    /\ sent' = sent \cup {[kind |-> "save", id |-> dialog.of, body |-> [svg |-> Combined(dialog), ports |-> dialog.ports]]}
    /\ dialog' = [dialog EXCEPT !.busy = TRUE, !.error = FALSE]
    /\ UNCHANGED symbols

\* The server creates or replaces; onSaved closes the dialog in front, whichever that is by now.
SaveAccepted(call) ==
    /\ call.kind = "save"
    /\ \E id \in SymbolIds :
        /\ IF call.id = 0 THEN symbols[id] = NoSymbol ELSE id = call.id /\ symbols[id] # NoSymbol
        /\ symbols' = [symbols EXCEPT ![id] = call.body]
    /\ sent' = sent \ {call}
    /\ dialog' = Closed
    /\ UNCHANGED counts

\* A failure is told to the dialog that sent it, if it is still there.
SaveRefused(call) ==
    /\ call.kind = "save"
    /\ sent' = sent \ {call}
    /\ dialog' = IF dialog.open /\ dialog.busy /\ dialog.of = call.id THEN [dialog EXCEPT !.busy = FALSE, !.error = TRUE] ELSE dialog
    /\ UNCHANGED <<symbols, counts>>

\* Confirmed in the library panel, behind no dialog.
DeleteSymbol(id) ==
    /\ ~dialog.open /\ symbols[id] # NoSymbol /\ counts.saves < MaxSaves
    /\ counts' = [counts EXCEPT !.saves = @ + 1]
    /\ sent' = sent \cup {[kind |-> "delete", id |-> id, body |-> NoSymbol]}
    /\ UNCHANGED <<dialog, symbols>>

DeleteAnswered(call) ==
    /\ call.kind = "delete"
    /\ symbols' \in {symbols, [symbols EXCEPT ![call.id] = NoSymbol]}
    /\ sent' = sent \ {call}
    /\ UNCHANGED <<dialog, counts>>

DialogStep ==
    \/ CloseEditor \/ TypeName \/ AddLinePoint \/ FinishLine \/ CancelLine \/ StartShape \/ StopShape
    \/ DeselectShape \/ UndoShape \/ Save
    \/ \E text \in {"good", "bad"} : ApplyMarkup(text)
    \/ \E tool \in ToolModes : SelectTool(tool)
    \/ \E n \in DOMAIN dialog.drawn : SelectShape(n) \/ RemoveShape(n)
    \/ \E stroke \in Strokes : PickStroke(stroke)
    \/ \E spot \in Spots : AddPort(spot) \/ \E n \in DOMAIN dialog.ports : DragPort(n, spot)
    \/ \E n \in DOMAIN dialog.ports : RemovePort(n)

SymbolNext ==
    \/ \E id \in SymbolIds \cup {0} : OpenEditor(id)
    \/ dialog.open /\ DialogStep
    \/ \E id \in SymbolIds : DeleteSymbol(id)
    \/ \E call \in sent : SaveAccepted(call) \/ SaveRefused(call) \/ DeleteAnswered(call)

SymbolSpec == SymbolInit /\ [][SymbolNext]_symbolVars
-----------------------------------------------------------------------------
\* The shape the stroke controls restyle is the one the user picked, through every removal and
\* undo, and no two ports share an id, in the draft or stored: lines attach to ports by id.
PicksAndPortsHold ==
    LET distinct(ports) == Cardinality(PortNumbers(ports)) = Len(ports) IN
    /\ dialog.open =>
        /\ distinct(dialog.ports)
        /\ IF dialog.selected = 0 THEN dialog.picked = 0
           ELSE dialog.selected \in DOMAIN dialog.drawn /\ dialog.drawn[dialog.selected].id = dialog.picked
    /\ \A id \in SymbolIds : distinct(symbols[id].ports)

=============================================================================
