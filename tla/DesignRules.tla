----------------------------- MODULE DesignRules -----------------------------
(***************************************************************************)
(* What is derived from a sheet when it is saved: the design rule check     *)
(* (drc.ts, parts.ts, sizes.ts), the index rows (index.ts, connectors.ts)   *)
(* and the engineering lists made of them (lists.ts).                       *)
(*                                                                         *)
(* A sheet is the sequence of its items in document order.  A symbol or      *)
(* equipment has ports, a line has for each end the sequence of what the     *)
(* end touches (Connectivity derives it from the drawing).  Messages,        *)
(* coordinates and lengths are left out; a finding says what it is about.   *)
(***************************************************************************)
EXTENDS TagRules

CONSTANTS
    RuleSheets,       \* the sheets to begin with
    RuleScheme,       \* the normalized tag scheme
    ReservedTags,     \* tags of the drawing's other sheets
    OtherConnectors,  \* connectors of the other sheets in order: [id, ref, sheet]
    Catalog,          \* Catalog[part] = [status, qualified, preferred, rating, words]
    Requirements,     \* the project's constraints: [id, kind, values, categories, services]
    LineUpdates,      \* what a user may change of a line
    Touches,          \* what the end of a line may come to touch
    MaxRuleEdits      \* bound: edits of the sheet

VARIABLES
    ruleSheet,    \* the items in document order
    ruleWaivers,  \* keys of the findings waived
    ruleEdits

ruleVars == <<ruleSheet, ruleWaivers, ruleEdits>>

RuleInit ==
    /\ ruleSheet \in RuleSheets
    /\ ruleWaivers = {}
    /\ ruleEdits = 0

-----------------------------------------------------------------------------
(* Items and what their lines touch.                                       *)

ItemsIn(sheet) == ToSet(sheet)
LinesIn(sheet) == {item \in ItemsIn(sheet) : item.kind = "line"}
BodiesIn(sheet) == ItemsIn(sheet) \ LinesIn(sheet)
SymbolsIn(sheet) == {item \in ItemsIn(sheet) : item.kind = "symbol"}

PlaceIn(sheet, id) == CHOOSE i \in DOMAIN sheet : sheet[i].id = id
ById(sheet, id) == sheet[PlaceIn(sheet, id)]
FirstOf(sheet, items) == CHOOSE item \in items : \A other \in items : PlaceIn(sheet, item.id) <= PlaceIn(sheet, other.id)

\* What an end touches among the items still on the sheet; ports come before lines.
Touching(sheet, line, end) ==
    SelectSeq(line.ends[end], LAMBDA a : \E item \in ItemsIn(sheet) : item.id = a.id)

TouchedPorts(sheet, line, end) == {a \in ToSet(Touching(sheet, line, end)) : a.port # NoValue}
TouchedLines(sheet, line, end) == {a \in ToSet(Touching(sheet, line, end)) : a.port = NoValue}

\* linesByItem: the lines on an item's ports, in document order.
LinesOn(sheet, id) ==
    SelectSeq(sheet, LAMBDA item : item.kind = "line" /\ \E e \in 1..2 : \E a \in TouchedPorts(sheet, item, e) : a.id = id)

\* The lines joined to one another directly, or through a port both touch.
JoinedLines(sheet, line) ==
    {other \in LinesIn(sheet) :
        \/ \E e \in 1..2 : \E a \in TouchedLines(sheet, line, e) : a.id = other.id
        \/ \E e \in 1..2 : \E a \in TouchedLines(sheet, other, e) : a.id = line.id
        \/ \E e, f \in 1..2 : TouchedPorts(sheet, line, e) \cap TouchedPorts(sheet, other, f) # {}}

Merged(parts, pair) ==
    LET touched == {part \in parts : part \cap pair # {}} IN (parts \ touched) \cup {UNION touched}

\* The classes of the least equivalence that relates the two members of every pair.
Components(nodes, pairs) == FoldSet(LAMBDA pair, parts : Merged(parts, pair), {{node} : node \in nodes}, pairs)

\* The nets, each as the set of the ids of its lines.
NetsIn(sheet) ==
    Components({line.id : line \in LinesIn(sheet)},
               UNION {{{line.id, other.id} : other \in JoinedLines(sheet, line)} : line \in LinesIn(sheet)})

-----------------------------------------------------------------------------
(* Sizes and parts.                                                        *)

\* parseSizeInches as a fraction: a number of inches, of inches over, of millimetres, or DN.
Inches(size) ==
    CASE size.unit = "in"   -> <<size.number, 1>>
      [] size.unit = "over" -> <<size.number, size.over>>
      [] OTHER              -> <<10 * size.number, 254>>

\* More than 2 % apart.
SizesDiffer(a, b) ==
    a # NoValue /\ b # NoValue /\
    LET left == Inches(a)[1] * Inches(b)[2]
        right == Inches(b)[1] * Inches(a)[2]
    IN  50 * (IF left > right THEN left - right ELSE right - left) > (IF left > right THEN left ELSE right)

\* The unit factors of pressureToBar, in 10^-7 bar.
UnitFactor(unit) ==
    CASE unit = "psi" -> 689476 [] unit = "mbar" -> 10000 [] unit = "MPa" -> 100000000
      [] unit = "kPa" -> 100000 [] unit = "Pa" -> 100 [] unit = "atm" -> 10132500 [] OTHER -> 10000000

PressureToBar(pressure) == pressure.number * UnitFactor(pressure.unit)

Unqualified(part) == ~part.preferred /\ ~part.qualified

\* The rating is below the highest design pressure of the lines (partWarnings, "Rated").
RatedBelow(part, lines) ==
    /\ part.rating # NoValue
    /\ \E line \in ToSet(lines) : line.pressure # NoValue /\ PressureToBar(line.pressure) > PressureToBar(part.rating)

PartTone(part) ==
    CASE part.status \in {"obsolete", "restricted"} -> "bad"
      [] ~Unqualified(part) /\ part.status \notin {"obsolete", "restricted", "draft"} -> "good"
      [] OTHER -> "warn"

-----------------------------------------------------------------------------
(* Volumes: process nets joined through what does not isolate.              *)

ProcessTypes == {"process", "vacuum", "capillary"}

\* A net is a process net if its first line is a process line.
ProcessNets(sheet) ==
    {net \in NetsIn(sheet) : FirstOf(sheet, {line \in LinesIn(sheet) : line.id \in net}).type \in ProcessTypes}

NetsOfItem(sheet, nets, id) == {net \in nets : \E line \in ToSet(LinesOn(sheet, id)) : line.id \in net}

Relieving(item) == item.key \in {"relief_valve", "safety_valve", "rupture_disc"}
OpenEnded(item) == item.key \in {"vent_atmosphere", "drain"}
Isolating(item) == ~Relieving(item) /\ ~OpenEnded(item) /\ item.category \in {"valve", "regulator"}

PassesThrough(item) == ~(item.kind = "symbol" /\ (Relieving(item) \/ OpenEnded(item) \/ Isolating(item)))

\* Fault: of an item's nets only the first two are joined.
UnionsOfTwo(nets) == IF Len(nets) < 2 THEN {} ELSE {<<nets[1], nets[2]>>}

UnionsOf(nets) == {<<nets[1], nets[i]>> : i \in 2..Len(nets)}

\* find: up to a net that is its own parent.
RootIn(parent, net) ==
    LET up[n \in 0..Cardinality(DOMAIN parent)] == IF n = 0 THEN net ELSE parent[up[n - 1]] IN up[Cardinality(DOMAIN parent)]

VolumeRoots(sheet, nets) ==
    LET unions == UNION {UnionsOf(SetToSeq(NetsOfItem(sheet, nets, item.id))) : item \in {i \in BodiesIn(sheet) : PassesThrough(i)}}
        parents == FoldSet(LAMBDA u, parent : [parent EXCEPT ![RootIn(parent, u[1])] = RootIn(parent, u[2])],
                           [net \in nets |-> net], unions)
    IN  [net \in nets |-> RootIn(parents, net)]

IsolableVolumes(sheet) ==
    LET nets == ProcessNets(sheet)
        root == VolumeRoots(sheet, nets)
        groups == {{net \in nets : root[net] = r} : r \in {root[n] : n \in nets}}
        itemsOf(group) == {item \in BodiesIn(sheet) : NetsOfItem(sheet, group, item.id) # {}}
        symbols(group) == itemsOf(group) \cap SymbolsIn(sheet)
    IN  {[lines |-> {line \in LinesIn(sheet) : line.id \in UNION group}, items |-> itemsOf(group),
          isolable |-> (\E item \in symbols(group) : Isolating(item)) /\ (\A item \in symbols(group) : ~OpenEnded(item)),
          relieved |-> \E item \in symbols(group) : Relieving(item)] : group \in groups}

-----------------------------------------------------------------------------
(* The rules.  A finding's key is its rule and its subject.                *)

Finding(rule, severity, item, subject, about) ==
    [key |-> <<rule, subject>>, severity |-> severity, item |-> item.id, about |-> about]

ConnectionFindings(sheet) ==
    LET used == UNION {TouchedPorts(sheet, line, e) : line \in LinesIn(sheet), e \in 1..2}
        open == {<<item, port>> \in BodiesIn(sheet) \X UNION {i.ports : i \in BodiesIn(sheet)} :
                    /\ port \in item.ports /\ port.kind \in {"process", "nozzle"}
                    /\ \A a \in used : ~(a.id = item.id /\ a.port = port.name)
                    /\ item.kind = "symbol" => item.category # "connector" /\ ~(Relieving(item) /\ port.name = "vent")}
    IN  {Finding("dangling_line", "error", d[1], <<d[1].id, d[2]>>, "end") :
            d \in {l \in LinesIn(sheet) \X (1..2) : Touching(sheet, l[1], l[2]) = << >>}}
        \cup {Finding("open_port", "warning", o[1], <<o[1].id, o[2].name>>, "port") : o \in open}

TagFindings(sheet) ==
    {IF issue[2] = "duplicate" THEN Finding("duplicate_tag", "error", ById(sheet, issue[1]), issue[1], "tag")
     ELSE Finding("invalid_tag", "warning", ById(sheet, issue[1]), issue[1], "tag") :
        issue \in TagIssues(sheet, RuleScheme, ReservedTags)}
    \cup {Finding("missing_tag", "warning", item, item.id, "tag") :
        item \in {s \in SymbolsIn(sheet) : s.tag = NoTag /\ s.category \in {"valve", "regulator", "instrument"}}}

\* A short stub without data needs no number.
LineFindings(sheet) ==
    LET lines == {line \in LinesIn(sheet) : line.type \in ProcessTypes}
        numbered == {line \in lines : line.number # NoValue}
        hasData(line) == line.size # NoValue \/ line.class # NoValue \/ line.service # NoValue
    IN  {Finding("line_unnumbered", "warning", l, l.id, "number") : l \in {m \in lines \ numbered : hasData(m) \/ ~m.stub}}
        \cup {Finding("line_missing_size", "warning", l, l.id, "size") : l \in {m \in numbered : m.size = NoValue}}
        \cup {Finding("line_missing_spec", "warning", l, l.id, "spec") : l \in {m \in numbered : m.class = NoValue}}

JoinPairs(sheet) ==
    {{line.id, a.id} : <<line, a>> \in {p \in LinesIn(sheet) \X UNION {TouchedLines(sheet, l, e) : l \in LinesIn(sheet), e \in 1..2} :
        \E e \in 1..2 : p[2] \in TouchedLines(sheet, p[1], e)}}

\* Fault: the pairs seen are not remembered, so each line of a pair reports the join.
ReportersBoth(sheet, pair) ==
    {line \in LinesIn(sheet) : line.id \in pair /\ \E e \in 1..2 : \E a \in TouchedLines(sheet, line, e) : a.id \in pair}

\* joinsSeen: of two lines that touch one another the first reports the join.
Reporters(sheet, pair) ==
    LET touching == {line \in LinesIn(sheet) : line.id \in pair /\ \E e \in 1..2 : \E a \in TouchedLines(sheet, line, e) : a.id \in pair}
    IN  {FirstOf(sheet, touching)}

JoinFindings(sheet) ==
    LET portSize(a) == (CHOOSE port \in ById(sheet, a.id).ports : port.name = a.port).size
        mismatched == {<<line, e, a>> \in LinesIn(sheet) \X (1..2) \X UNION {TouchedPorts(sheet, l, e) : l \in LinesIn(sheet), e \in 1..2} :
                          a \in TouchedPorts(sheet, line, e) /\ SizesDiffer(line.size, portSize(a))}
        joins == {<<pair, line>> \in JoinPairs(sheet) \X LinesIn(sheet) : line \in Reporters(sheet, pair)}
        other(j) == ById(sheet, CHOOSE id \in j[1] : id # j[2].id)
        marked(j, mark) == mark \in j[2].marks \cup other(j).marks
    IN  {Finding("port_size_mismatch", "error", x[1], <<x[1].id, x[2]>>, x[3]) : x \in mismatched}
        \cup {Finding("size_change_missing", "warning", j[2], j[1], j[2].id) : j \in
                {k \in joins : SizesDiffer(k[2].size, other(k).size) /\ ~marked(k, "size_change")}}
        \cup {Finding("spec_break_missing", "warning", j[2], j[1], j[2].id) : j \in
                {k \in joins : NoValue \notin {k[2].class, other(k).class} /\ k[2].class # other(k).class /\ ~marked(k, "spec_break")}}

PartFindings(sheet) ==
    LET with == {item \in BodiesIn(sheet) : item.part # NoValue}
        known == {item \in with : item.part \in DOMAIN Catalog}
        part(item) == Catalog[item.part]
        barred == {item \in known : part(item).status \in {"obsolete", "restricted"}}
    IN  {Finding("part_missing", "warning", i, i.id, "part") : i \in with \ known}
        \cup {Finding("part_status", "error", i, i.id, "part") : i \in barred}
        \cup {Finding("part_status", "warning", i, i.id, "part") : i \in
                {j \in known \ barred : part(j).status = "draft" \/ Unqualified(part(j))}}
        \cup {Finding("part_rating", "warning", i, i.id, "part") : i \in {j \in known : RatedBelow(part(j), LinesOn(sheet, j.id))}}

\* The finding is keyed by the smallest line id of the volume and points at its first line.
ReliefFindings(sheet) ==
    {Finding("relief_coverage", "warning", FirstOf(sheet, v.lines), Min({line.id : line \in v.lines}), {line.id : line \in v.lines}) :
        v \in {w \in IsolableVolumes(sheet) : w.isolable /\ ~w.relieved}}

FieldFindings(sheet) ==
    UNION {{Finding("required_fields", "info", item, <<item.id, field>>, "field") : field \in item.blanks} : item \in SymbolsIn(sheet)}

-----------------------------------------------------------------------------
(* Requirements.                                                           *)

Services(sheet, id) == {line.service : line \in ToSet(LinesOn(sheet, id))} \ {NoValue}

WithinScope(sheet, item, requirement) ==
    /\ item.category \in (IF requirement.categories # {} THEN requirement.categories
                          ELSE {"valve", "regulator", "inline", "instrument", "equipment"})
    /\ requirement.services # {} => Services(sheet, item.id) \cap requirement.services # {}

\* Whether a part meets a constraint on parts.
PartMeets(part, requirement) ==
    CASE requirement.kind = "material_in"     -> requirement.values \cap part.words # {}
      [] requirement.kind = "material_not_in" -> requirement.values \cap part.words = {}
      [] requirement.kind = "part_qualified"  -> ~Unqualified(part) /\ part.status \notin {"obsolete", "restricted"}
      [] requirement.kind = "pressure_rating_min" ->
             /\ part.rating # NoValue
             /\ \E minimum \in requirement.values : PressureToBar(part.rating) >= PressureToBar(minimum)

\* A check is the requirement, the item and whether it passes.
ChecksOf(sheet, r) ==
    LET numbered == {line \in LinesIn(sheet) : /\ line.type \in ProcessTypes /\ line.number # NoValue
                                               /\ r.services # {} => line.service \in r.services}
        bodies == {item \in BodiesIn(sheet) : WithinScope(sheet, item, r) /\ item.part \in DOMAIN Catalog}
    IN  CASE r.kind = "line_class_in"   -> {<<r.id, line.id, line.class \in r.values>> : line \in numbered}
          [] r.kind = "relief_required" -> {<<r.id, FirstOf(sheet, v.lines).id, v.relieved>> :
                                               v \in {w \in IsolableVolumes(sheet) : w.isolable}}
          [] OTHER                      -> {<<r.id, item.id, PartMeets(Catalog[item.part], r)>> : item \in bodies}

RequirementChecks(sheet) == UNION {ChecksOf(sheet, r) : r \in Requirements}

RequirementFindings(sheet) ==
    {Finding("requirement", "error", ById(sheet, c[2]), <<c[1], c[2]>>, c[1]) : c \in {d \in RequirementChecks(sheet) : ~d[3]}}

Findings(sheet) ==
    ConnectionFindings(sheet) \cup TagFindings(sheet) \cup LineFindings(sheet) \cup JoinFindings(sheet)
    \cup PartFindings(sheet) \cup ReliefFindings(sheet) \cup FieldFindings(sheet) \cup RequirementFindings(sheet)

Report(found, checks, waivers) ==
    LET open == {f \in found : f.key \notin waivers}
    IN  [findings |-> open, waived |-> found \ open, checks |-> checks,
         counts |-> [s \in {"error", "warning", "info"} |-> Cardinality({f \in open : f.severity = s})]]

RunDrc(sheet, waivers) == Report(Findings(sheet), RequirementChecks(sheet), waivers)

-----------------------------------------------------------------------------
(* The index and the lists.                                                *)

\* Fault: only the first line of an item is looked at.
PickFirst(lines, field) == IF lines = << >> THEN NoValue ELSE lines[1][field]

\* pick: the field in the first line of an item that has it.
Pick(lines, field) ==
    LET with == SelectSeq(lines, LAMBDA line : line[field] # NoValue)
    IN  IF with = << >> THEN NoValue ELSE with[1][field]

PortSize(item) == LET sized == {port \in item.ports : port.size # NoValue} IN IF sized = {} THEN NoValue ELSE (CHOOSE p \in sized : TRUE).size

\* The connector paired with this one: the first other with its reference, this sheet's before others'.
ConnectorTarget(sheet, item) ==
    LET here == SelectSeq(sheet, LAMBDA i : i.kind = "symbol" /\ i.ref # NoValue)
        all == [i \in DOMAIN here |-> [id |-> here[i].id, ref |-> here[i].ref, sheet |-> 1]] \o OtherConnectors
        pairs == SelectSeq(all, LAMBDA c : c.ref = item.ref /\ c.id # item.id)
    IN  IF item.kind # "symbol" \/ item.ref = NoValue \/ pairs = << >> THEN NoValue ELSE pairs[1].sheet

ItemRow(sheet, item) ==
    LET lines == LinesOn(sheet, item.id)
        size == Pick(lines, "size")
    IN  [item |-> item.id, kind |-> item.kind, category |-> item.category, tag |-> item.tag, part |-> item.part,
         size |-> IF size = NoValue /\ item.kind = "symbol" THEN PortSize(item) ELSE size,
         service |-> Pick(lines, "service"),
         number |-> Pick(lines, "number"),
         target |-> ConnectorTarget(sheet, item)]

\* describeEnd: the item on the first port touched, else the first line touched.
DescribeEnd(sheet, line, end) ==
    LET touching == Touching(sheet, line, end)
        ports == SelectSeq(touching, LAMBDA a : a.port # NoValue)
    IN  IF ports # << >> THEN ports[1].id ELSE IF touching # << >> THEN touching[1].id ELSE NoValue

LineRow(sheet, line) ==
    [line |-> line.id, number |-> line.number, service |-> line.service, size |-> line.size, class |-> line.class,
     from |-> DescribeEnd(sheet, line, 1), to |-> DescribeEnd(sheet, line, 2),
     connections |-> Cardinality({e \in 1..2 : TouchedPorts(sheet, line, e) # {}}),
     tees |-> Cardinality({e \in 1..2 : /\ TouchedPorts(sheet, line, e) = {}
                                         /\ \E a \in TouchedLines(sheet, line, e) : a.tee})]

SheetIndex(sheet) ==
    [items |-> {ItemRow(sheet, item) : item \in BodiesIn(sheet)}, lines |-> {LineRow(sheet, line) : line \in LinesIn(sheet)}]

ItemInList(list, row) ==
    CASE list = "instrument" -> row.category = "instrument"
      [] list = "valve"      -> row.category \in {"valve", "regulator"}
      [] list = "equipment"  -> row.kind = "equipment" \/ row.category = "equipment"
      [] list = "tie_in"     -> row.category = "connector"
      [] OTHER               -> FALSE

ListRows(list, index) == IF list = "line" THEN index.lines ELSE {row \in index.items : ItemInList(list, row)}

-----------------------------------------------------------------------------
(* The sheet and its waivers change.                                       *)

Replaced(sheet, item) == [i \in DOMAIN sheet |-> IF sheet[i].id = item.id THEN item ELSE sheet[i]]

RuleEdit(sheet) ==
    /\ ruleEdits < MaxRuleEdits
    /\ ruleSheet' = sheet
    /\ ruleEdits' = ruleEdits + 1
    /\ UNCHANGED ruleWaivers

\* The end of a line is dragged to something else, or away from everything.
TouchWith(line, e, touches) == RuleEdit(Replaced(ruleSheet, [line EXCEPT !.ends = [@ EXCEPT ![e] = touches]]))

UpdateLine(line, update) == RuleEdit(Replaced(ruleSheet, [line EXCEPT !.class = update.class, !.size = update.size, !.number = update.number]))

AssignTo(item, part) == RuleEdit(Replaced(ruleSheet, [item EXCEPT !.part = part]))

DeleteItem(id) == RuleEdit(SelectSeq(ruleSheet, LAMBDA item : item.id # id))

\* The waiver is stored beside the sheet under the finding's key.
WaiveFinding(finding) ==
    /\ ruleWaivers = {}  \* bound: one waiver
    /\ ruleWaivers' = ruleWaivers \cup {finding.key}
    /\ UNCHANGED <<ruleSheet, ruleEdits>>

RemoveWaiver(key) ==
    /\ ruleWaivers' = ruleWaivers \ {key}
    /\ UNCHANGED <<ruleSheet, ruleEdits>>

RuleNext ==
    \/ \E line \in LinesIn(ruleSheet), e \in 1..2, touches \in Touches : (\A i \in DOMAIN touches : touches[i].id # line.id) /\ TouchWith(line, e, touches)
    \/ \E line \in LinesIn(ruleSheet), update \in LineUpdates : UpdateLine(line, update)
    \/ \E item \in BodiesIn(ruleSheet), part \in {NoValue, "gone"} \cup DOMAIN Catalog : AssignTo(item, part)
    \/ \E item \in ItemsIn(ruleSheet) : DeleteItem(item.id)
    \/ \E finding \in RunDrc(ruleSheet, ruleWaivers).findings : WaiveFinding(finding)
    \/ \E key \in ruleWaivers : RemoveWaiver(key)

RuleSpec == RuleInit /\ [][RuleNext]_ruleVars

-----------------------------------------------------------------------------
(* Properties.                                                             *)

\* Gas that cannot leave: lines connected through items that neither isolate nor relieve
\* nor vent, with an isolating item and no relief or open end on them, are exactly the
\* lines of the check's relief findings (joining an item's nets loses none of them).
ReliefIsReachability ==
    LET nets == ProcessNets(ruleSheet)
        passing == {NetsOfItem(ruleSheet, nets, item.id) : item \in {i \in BodiesIn(ruleSheet) : PassesThrough(i)}}
        on(part) == {item \in SymbolsIn(ruleSheet) : NetsOfItem(ruleSheet, part, item.id) # {}}
        trapped(part) == /\ \E item \in on(part) : Isolating(item)
                         /\ \A item \in on(part) : ~Relieving(item) /\ ~OpenEnded(item)
    IN  {UNION part : part \in {q \in Components(nets, passing \ {{}}) : trapped(q)}}
        = {finding.about : finding \in ReliefFindings(ruleSheet)}

\* A waiver never covers a finding nobody looked at: where every end touches one port at
\* most, it covers one finding, whatever is joined, changed or deleted after it was given.
WaiverCoversOne ==
    (\A line \in LinesIn(ruleSheet), e \in 1..2 : Cardinality(TouchedPorts(ruleSheet, line, e)) <= 1) =>
        Cardinality(RunDrc(ruleSheet, ruleWaivers).waived) <= Cardinality(ruleWaivers)

\* Where the line list names an item as an end of a numbered line, the item's own row has
\* a line number, and where that line has a service, a service.
IndexRowsAgree ==
    LET index == SheetIndex(ruleSheet)
        row(id) == CHOOSE r \in index.items : r.item = id
    IN  \A line \in index.lines : \A id \in {line.from, line.to} \cap {r.item : r \in index.items} :
            /\ line.number # NoValue => row(id).number # NoValue
            /\ line.service # NoValue => row(id).service # NoValue

=============================================================================
