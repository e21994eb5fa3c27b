------------------------------ MODULE PagesProofs ------------------------------
(***************************************************************************)
(* Proofs about the pages: the symbol editor, whose picks and ports survive *)
(* any order of edits and late answers; the import wizard, whose import     *)
(* writes the report its button stood under; the grid of parts, whose cells *)
(* show what is being saved and, once quiet, what the catalog holds; what   *)
(* the pages load, which shows their pick and, once quiet, is current; and  *)
(* the data grid, whose view is in order and whose checks are of the view.  *)
(***************************************************************************)
EXTENDS SymbolEditor, ImportWizard, PartsGrid, PageLoads, GridView, FiniteSetTheorems, SequenceTheorems,
        NaturalsInduction, TLAPS

-----------------------------------------------------------------------------
(* Facts about sequences and numbers.                                      *)

LEMMA LeastNatural ==
    ASSUME NEW T \in SUBSET Nat, T # {}
    PROVE  \E x \in T : \A y \in T : x <= y
<1>1. IsWellFoundedOn(OpToRel(<, Nat), Nat)
  BY NatLessThanWellFounded
<1>2. PICK x \in T : \A y \in T : ~(<<y, x>> \in OpToRel(<, Nat))
  BY <1>1, WFMin
<1>3. \A y \in T : y < x => <<y, x>> \in OpToRel(<, Nat)
  BY DEF OpToRel
<1>4. \A y \in T : ~(y < x)
  BY <1>2, <1>3, Zenon
<1>5. x \in Nat /\ \A y \in T : y \in Nat
  OBVIOUS
<1>6. \A y \in T : x <= y
  BY <1>4, <1>5
<1>7. QED
  BY <1>6

LEMMA WithoutFacts ==
    ASSUME NEW S, NEW s \in Seq(S), NEW n \in DOMAIN s
    PROVE  /\ Without(s, n) \in Seq(S)
           /\ Len(Without(s, n)) = Len(s) - 1
           /\ \A i \in 1..(Len(s) - 1) : Without(s, n)[i] = IF i < n THEN s[i] ELSE s[i + 1]
<1> DEFINE a == SubSeq(s, 1, n - 1)
           b == SubSeq(s, n + 1, Len(s))
<1>1. n \in 1..Len(s) /\ Len(s) \in Nat /\ \A i \in 1..Len(s) : s[i] \in S
  OBVIOUS
<1>2. /\ a \in Seq(S) /\ Len(a) = n - 1
      /\ \A i \in 1..(n - 1) : a[i] = s[i]
  <2>1. 1 \in Int /\ n - 1 \in Int /\ \A i \in 1..(n - 1) : s[i] \in S
    BY <1>1
  <2>2. /\ a \in Seq(S) /\ Len(a) = (IF 1 <= n - 1 THEN n - 1 - 1 + 1 ELSE 0)
        /\ \A i \in 1..(n - 1 - 1 + 1) : a[i] = s[1 + i - 1]
    BY <2>1, SubSeqProperties
  <2> HIDE DEF a
  <2>3. QED
    BY <1>1, <2>2
<1>3. /\ b \in Seq(S) /\ Len(b) = Len(s) - n
      /\ \A i \in 1..(Len(s) - n) : b[i] = s[n + i]
  <2>1. n + 1 \in Int /\ Len(s) \in Int /\ \A i \in (n + 1)..Len(s) : s[i] \in S
    BY <1>1
  <2>2. /\ b \in Seq(S) /\ Len(b) = (IF n + 1 <= Len(s) THEN Len(s) - (n + 1) + 1 ELSE 0)
        /\ \A i \in 1..(Len(s) - (n + 1) + 1) : b[i] = s[n + 1 + i - 1]
    BY <2>1, SubSeqProperties
  <2> HIDE DEF b
  <2>3. Len(b) = Len(s) - n
    BY <1>1, <2>2
  <2>4. \A i \in 1..(Len(s) - n) : b[i] = s[n + i]
    <3>1. Len(s) - (n + 1) + 1 = Len(s) - n
      BY <1>1
    <3>2. \A i \in 1..(Len(s) - n) : n + 1 + i - 1 = n + i
      BY <1>1
    <3>3. QED
      BY <2>2, <3>1, <3>2
  <2>5. QED
    BY <2>2, <2>3, <2>4
<1>4. Without(s, n) = a \o b
  BY DEF Without
<1> HIDE DEF a, b
<1>5. /\ a \o b \in Seq(S) /\ Len(a \o b) = Len(a) + Len(b)
      /\ \A i \in 1..(Len(a) + Len(b)) : (a \o b)[i] = IF i <= Len(a) THEN a[i] ELSE b[i - Len(a)]
  BY <1>2, <1>3, ConcatProperties
<1>6. Len(a) + Len(b) = Len(s) - 1
  BY <1>1, <1>2, <1>3
<1>7. ASSUME NEW i \in 1..(Len(s) - 1)
      PROVE  (a \o b)[i] = IF i < n THEN s[i] ELSE s[i + 1]
  <2>1. CASE i < n
    <3>1. i <= Len(a) /\ i \in 1..(n - 1)
      BY <1>1, <1>2, <2>1
    <3>2. QED
      BY <1>2, <1>5, <1>6, <2>1, <3>1
  <2>2. CASE ~(i < n)
    <3>1. ~(i <= Len(a)) /\ i - Len(a) = i - n + 1 /\ i - n + 1 \in 1..(Len(s) - n) /\ n + (i - n + 1) = i + 1
      BY <1>1, <1>2, <2>2
    <3>2. (a \o b)[i] = b[i - Len(a)]
      BY <1>5, <1>6, <3>1
    <3>3. b[i - n + 1] = s[n + (i - n + 1)]
      BY <1>3, <3>1
    <3>4. QED
      BY <2>2, <3>1, <3>2, <3>3
  <2>3. QED
    BY <2>1, <2>2
<1>8. QED
  BY <1>4, <1>5, <1>6, <1>7
-----------------------------------------------------------------------------
(* The ports of a symbol.                                                  *)

Port == [number : Nat, at : Spots]

\* No two ports have one number.
Distinct(ports) ==
    /\ ports \in Seq(Port)
    /\ \A m, n \in DOMAIN ports : ports[m].number = ports[n].number => m = n

LEMMA DistinctNumbers ==
    ASSUME NEW ports, Distinct(ports)
    PROVE  IsFiniteSet(PortNumbers(ports)) /\ Cardinality(PortNumbers(ports)) = Len(ports)
<1> DEFINE f == [n \in 1..Len(ports) |-> ports[n].number]
<1>1. DOMAIN ports = 1..Len(ports) /\ Len(ports) \in Nat
  BY DEF Distinct
<1>2. f \in Bijection(1..Len(ports), PortNumbers(ports))
  <2>1. PortNumbers(ports) = {ports[n].number : n \in 1..Len(ports)}
    BY <1>1 DEF PortNumbers
  <2>2. /\ DOMAIN f = 1..Len(ports)
        /\ \A n \in 1..Len(ports) : f[n] = ports[n].number /\ f[n] \in PortNumbers(ports)
    BY <2>1
  <2>3. f \in [1..Len(ports) -> PortNumbers(ports)]
    BY <2>1
  <2>4. \A k \in PortNumbers(ports) : \E n \in 1..Len(ports) : f[n] = k
    BY <2>1
  <2>5. \A m, n \in 1..Len(ports) : f[m] = f[n] => m = n
    BY <1>1 DEF Distinct
  <2> HIDE DEF f
  <2>6. f \in Injection(1..Len(ports), PortNumbers(ports))
    BY <2>3, <2>5 DEF Injection, IsInjective
  <2>7. f \in Surjection(1..Len(ports), PortNumbers(ports))
    BY <2>3, <2>4 DEF Surjection
  <2>8. QED
    BY <2>6, <2>7 DEF Bijection
<1>3. IsFiniteSet(1..Len(ports)) /\ Cardinality(1..Len(ports)) = Len(ports)
  <2> DEFINE a == 1
             b == Len(ports)
  <2>1. a \in Int /\ b \in Int
    BY <1>1
  <2> HIDE DEF a, b
  <2>2. IsFiniteSet(a..b) /\ Cardinality(a..b) = IF a > b THEN 0 ELSE b - a + 1
    BY <2>1, FS_Interval
  <2>3. (IF a > b THEN 0 ELSE b - a + 1) = b
    BY <1>1 DEF a, b
  <2>4. IsFiniteSet(a..b) /\ Cardinality(a..b) = b
    BY <2>2, <2>3
  <2>5. QED
    BY <2>4 DEF a, b
<1>4. QED
  BY <1>2, <1>3, FS_Bijection DEF ExistsBijection

\* The number of a new port is free: of one more numbers than there are ports, one is.
LEMMA NextPortIsFree ==
    ASSUME NEW ports, Distinct(ports)
    PROVE  NextPort(ports) \in Nat /\ NextPort(ports) \notin PortNumbers(ports)
<1> DEFINE n == Len(ports)
           range == (n + 1)..(2 * n + 1)
           free == range \ PortNumbers(ports)
<1>1. n \in Nat
  BY DEF Distinct
<1>2. IsFiniteSet(range) /\ Cardinality(range) = n + 1
  <2> HIDE DEF n
  <2>1. n + 1 \in Int /\ 2 * n + 1 \in Int
    BY <1>1
  <2> DEFINE a == n + 1
             b == 2 * n + 1
  <2> HIDE DEF a, b
  <2>2. IsFiniteSet(a..b) /\ Cardinality(a..b) = IF a > b THEN 0 ELSE b - a + 1
    BY <2>1, FS_Interval DEF a, b
  <2>3. ~(a > b) /\ b - a + 1 = n + 1
    BY <1>1 DEF a, b
  <2>4. IsFiniteSet(a..b) /\ Cardinality(a..b) = n + 1
    BY <2>2, <2>3
  <2>5. QED
    BY <2>4 DEF a, b
<1>3. free # {}
  <2>1. SUFFICES ASSUME range \in SUBSET PortNumbers(ports)
                 PROVE  FALSE
    OBVIOUS
  <2>2. Cardinality(range) <= n
    BY <2>1, DistinctNumbers, FS_Subset
  <2> HIDE DEF n, range
  <2>3. QED
    BY <1>1, <1>2, <2>2
<1>4. free \in SUBSET Nat
  BY <1>1
<1>5. PICK k \in free : \A j \in free : k <= j
  BY <1>3, <1>4, LeastNatural
<1>6. /\ k \in range /\ k \notin PortNumbers(ports)
      /\ \A j \in (n + 1)..(k - 1) : j \in PortNumbers(ports)
  BY <1>1, <1>5
<1>7. NextPort(ports) = CHOOSE i \in range : /\ i \notin PortNumbers(ports)
                                              /\ \A j \in (n + 1)..(i - 1) : j \in PortNumbers(ports)
  BY DEF NextPort
<1>8. NextPort(ports) \in range /\ NextPort(ports) \notin PortNumbers(ports)
  BY <1>6, <1>7
<1>9. QED
  BY <1>1, <1>8

LEMMA AppendedDistinct ==
    ASSUME NEW ports, Distinct(ports), NEW spot \in Spots
    PROVE  Distinct(Append(ports, [number |-> NextPort(ports), at |-> spot]))
<1> DEFINE p == [number |-> NextPort(ports), at |-> spot]
<1>1. p \in Port /\ p.number \notin PortNumbers(ports)
  BY NextPortIsFree DEF Port
<1> HIDE DEF p
<1>2. ports \in Seq(Port) /\ \A n \in 1..Len(ports) : ports[n].number \in PortNumbers(ports)
  BY DEF Distinct, PortNumbers
<1>3. \A m, n \in 1..Len(ports) : ports[m].number = ports[n].number => m = n
  BY DEF Distinct
<1>4. /\ Append(ports, p) \in Seq(Port) /\ Len(Append(ports, p)) = Len(ports) + 1 /\ Len(ports) \in Nat
      /\ Append(ports, p)[Len(ports) + 1] = p
      /\ \A n \in 1..Len(ports) : Append(ports, p)[n] = ports[n]
  BY <1>1, <1>2
<1>5. \A m, n \in 1..(Len(ports) + 1) : Append(ports, p)[m].number = Append(ports, p)[n].number => m = n
  BY <1>1, <1>2, <1>3, <1>4
<1>6. Distinct(Append(ports, p))
  BY <1>4, <1>5 DEF Distinct
<1>7. QED
  BY <1>6 DEF p

LEMMA MovedDistinct ==
    ASSUME NEW ports, Distinct(ports), NEW n \in DOMAIN ports, NEW spot \in Spots
    PROVE  Distinct([ports EXCEPT ![n].at = spot])
<1> DEFINE moved == [ports EXCEPT ![n].at = spot]
<1>0. ports \in Seq(Port)
  BY DEF Distinct
<1> DEFINE p == [ports[n] EXCEPT !.at = spot]
<1>a. ports[n] \in Port
  BY <1>0
<1>b. p \in Port /\ p.number = ports[n].number
  BY <1>a DEF Port
<1>c. moved = [ports EXCEPT ![n] = p]
  OBVIOUS
<1> HIDE DEF moved, p
<1>1. moved \in Seq(Port)
  BY <1>0, <1>b, <1>c
<1>2. DOMAIN moved = DOMAIN ports /\ \A i \in DOMAIN ports : moved[i].number = ports[i].number
  BY <1>0, <1>b, <1>c
<1> HIDE DEF moved
<1>3. Distinct(moved)
  BY <1>1, <1>2 DEF Distinct
<1>4. QED
  BY <1>3 DEF moved

LEMMA RemovedDistinct ==
    ASSUME NEW ports, Distinct(ports), NEW n \in DOMAIN ports
    PROVE  Distinct(Without(ports, n))
<1> DEFINE rest == Without(ports, n)
           at(i) == IF i < n THEN i ELSE i + 1
<1>0. ports \in Seq(Port) /\ n \in 1..Len(ports) /\ Len(ports) \in Nat
  <2>1. ports \in Seq(Port)
    BY DEF Distinct
  <2>2. QED
    BY <2>1
<1>1. /\ rest \in Seq(Port) /\ Len(rest) = Len(ports) - 1
      /\ \A i \in 1..(Len(ports) - 1) : rest[i] = IF i < n THEN ports[i] ELSE ports[i + 1]
  BY <1>0, WithoutFacts
<1> HIDE DEF rest
<1>2. \A i \in 1..(Len(ports) - 1) : at(i) \in 1..Len(ports) /\ rest[i] = ports[at(i)]
  BY <1>0, <1>1
<1>3. \A i, j \in 1..(Len(ports) - 1) : at(i) = at(j) => i = j
  BY <1>0
<1> HIDE DEF at
<1>4. \A i, j \in 1..(Len(ports) - 1) : rest[i].number = rest[j].number => i = j
  BY <1>0, <1>2, <1>3 DEF Distinct
<1>5. DOMAIN rest = 1..(Len(ports) - 1)
  BY <1>0, <1>1
<1>6. Distinct(rest)
  BY <1>1, <1>4, <1>5 DEF Distinct
<1>7. QED
  BY <1>6 DEF rest

-----------------------------------------------------------------------------
(* The invariant of the symbol editor.                                     *)

Shape == [id : Nat \ {0}, stroke : Strokes]

Draft ==
    [open : {TRUE}, of : SymbolIds \cup {0}, named : BOOLEAN, svg : SUBSET Nat, ports : Seq(Port),
     drawn : Seq(Shape), tool : ToolModes, line : 0..2, dragged : {"nothing", "shape"},
     selected : Nat, picked : Nat, stroke : Strokes, error : BOOLEAN, busy : BOOLEAN]

Symbol == [svg : SUBSET Nat, ports : Seq(Port)]

\* The chip selected is that of the shape picked.
Agree(drawn, selected, stroked) ==
    IF selected = 0 THEN stroked = 0 ELSE selected \in DOMAIN drawn /\ drawn[selected].id = stroked

\* No two shapes share an identity, and none has one not given out yet.
Identified(drawn, last) ==
    /\ \A m, n \in DOMAIN drawn : drawn[m].id = drawn[n].id => m = n
    /\ \A n \in DOMAIN drawn : drawn[n].id <= last

GoodDraft(d, last) ==
    /\ d \in Draft
    /\ Distinct(d.ports)
    /\ Identified(d.drawn, last)
    /\ Agree(d.drawn, d.selected, d.picked)

GoodDialog(d, last) == d = Closed \/ GoodDraft(d, last)

GoodSymbols(kept) == kept \in [SymbolIds -> Symbol] /\ \A id \in SymbolIds : Distinct(kept[id].ports)

GoodCall(call) == call.kind = "save" => call.body \in Symbol /\ Distinct(call.body.ports)

SymbolInv ==
    /\ GoodDialog(dialog, counts.shapes)
    /\ GoodSymbols(symbols)
    /\ \A call \in sent : GoodCall(call)
    /\ counts \in [shapes : Nat, saves : Nat]

LEMMA EmptyDistinct == << >> \in Seq(Port) /\ Distinct(<< >>)
BY DEF Distinct

LEMMA SymbolInitHolds == SymbolInit => SymbolInv
<1> SUFFICES ASSUME SymbolInit PROVE SymbolInv
  OBVIOUS
<1>1. NoSymbol \in Symbol /\ NoSymbol.ports = << >>
  BY EmptyDistinct DEF NoSymbol, Symbol
<1>2. [svg |-> {Import}, ports |-> << >>] \in Symbol
  BY EmptyDistinct DEF Symbol, Import
<1>3. GoodSymbols(symbols)
  <2>1. \A id \in SymbolIds : symbols[id] \in Symbol /\ symbols[id].ports = << >>
    BY <1>1, <1>2 DEF SymbolInit
  <2>2. symbols \in [SymbolIds -> Symbol]
    BY <1>1, <1>2 DEF SymbolInit
  <2>3. QED
    BY <2>1, <2>2, EmptyDistinct DEF GoodSymbols
<1>4. QED
  BY <1>3 DEF SymbolInit, SymbolInv, GoodDialog

\* What draws, removes and restyles nothing.
Same(d, e) ==
    /\ e \in Draft /\ e.ports = d.ports /\ e.drawn = d.drawn
    /\ e.selected = d.selected /\ e.picked = d.picked

LEMMA SameStaysGood ==
    ASSUME NEW d, NEW e, NEW last, GoodDraft(d, last), Same(d, e)
    PROVE  GoodDraft(e, last)
BY DEF GoodDraft, Same

LEMMA DeselectedStaysGood ==
    ASSUME NEW d, NEW last, GoodDraft(d, last)
    PROVE  GoodDraft([d EXCEPT !.selected = 0, !.picked = 0], last)
<1> DEFINE e == [d EXCEPT !.selected = 0, !.picked = 0]
<1>1. e \in Draft /\ e.ports = d.ports /\ e.drawn = d.drawn /\ e.selected = 0 /\ e.picked = 0
  BY DEF GoodDraft, Draft
<1> HIDE DEF e
<1>2. GoodDraft(e, last)
  BY <1>1 DEF GoodDraft, Agree
<1>3. QED
  BY <1>2 DEF e

\* A new shape has an identity of its own.
LEMMA AppendedStaysGood ==
    ASSUME NEW d, NEW last \in Nat, GoodDraft(d, last), NEW stroke \in Strokes
    PROVE  GoodDraft([d EXCEPT !.drawn = Append(@, [id |-> last + 1, stroke |-> stroke])], last + 1)
<1> DEFINE s == [id |-> last + 1, stroke |-> stroke]
           drawn == Append(d.drawn, s)
           e == [d EXCEPT !.drawn = drawn]
<1>1. s \in Shape /\ s.id = last + 1
  BY DEF Shape
<1>2. d \in Draft /\ d.drawn \in Seq(Shape) /\ Len(d.drawn) \in Nat
  <2>1. d \in Draft /\ d.drawn \in Seq(Shape)
    BY DEF GoodDraft, Draft
  <2>2. QED
    BY <2>1
<1> HIDE DEF s
<1>3. /\ drawn \in Seq(Shape) /\ Len(drawn) = Len(d.drawn) + 1
      /\ DOMAIN drawn = 1..(Len(d.drawn) + 1) /\ drawn[Len(d.drawn) + 1] = s
      /\ \A n \in 1..Len(d.drawn) : drawn[n] = d.drawn[n]
  BY <1>1, <1>2
<1> HIDE DEF drawn
<1>4. e \in Draft /\ e.ports = d.ports /\ e.drawn = drawn /\ e.selected = d.selected /\ e.picked = d.picked
  BY <1>2, <1>3 DEF Draft
<1> HIDE DEF e
<1>5. /\ \A n \in 1..Len(d.drawn) : d.drawn[n].id \in Nat /\ d.drawn[n].id <= last
      /\ \A m, n \in 1..Len(d.drawn) : d.drawn[m].id = d.drawn[n].id => m = n
  <2>1. \A n \in 1..Len(d.drawn) : d.drawn[n] \in Shape
    BY <1>2
  <2>2. \A n \in 1..Len(d.drawn) : d.drawn[n].id \in Nat
    BY <2>1 DEF Shape
  <2>3. Identified(d.drawn, last) /\ DOMAIN d.drawn = 1..Len(d.drawn)
    BY <1>2 DEF GoodDraft
  <2>4. QED
    BY <2>2, <2>3 DEF Identified
<1>6. Identified(drawn, last + 1)
  <2>1. ASSUME NEW n \in 1..(Len(d.drawn) + 1)
        PROVE  drawn[n].id <= last + 1
    <3>1. CASE n = Len(d.drawn) + 1
      BY <1>1, <1>3, <3>1
    <3>2. CASE n \in 1..Len(d.drawn)
      BY <1>3, <1>5, <3>2
    <3>3. QED
      BY <1>2, <3>1, <3>2
  <2>2. ASSUME NEW m \in 1..(Len(d.drawn) + 1), NEW n \in 1..(Len(d.drawn) + 1), drawn[m].id = drawn[n].id
        PROVE  m = n
    <3>1. \A i \in 1..Len(d.drawn) : drawn[i].id # drawn[Len(d.drawn) + 1].id
      BY <1>1, <1>3, <1>5
    <3>2. CASE m \in 1..Len(d.drawn) /\ n \in 1..Len(d.drawn)
      BY <1>3, <1>5, <2>2, <3>2
    <3>3. CASE m = Len(d.drawn) + 1 \/ n = Len(d.drawn) + 1
      BY <1>2, <2>2, <3>1, <3>3
    <3>4. QED
      BY <1>2, <3>2, <3>3
  <2>3. QED
    BY <1>3, <2>1, <2>2 DEF Identified
<1>7. Agree(drawn, d.selected, d.picked)
  BY <1>2, <1>3 DEF GoodDraft, Agree
<1>8. GoodDraft(e, last + 1)
  BY <1>4, <1>6, <1>7 DEF GoodDraft
<1>9. QED
  BY <1>8 DEF e, drawn, s

\* What the shapes of a draft are, and their chips.
LEMMA DrawnFacts ==
    ASSUME NEW d, NEW last, GoodDraft(d, last)
    PROVE  /\ d \in Draft /\ d.drawn \in Seq(Shape) /\ Len(d.drawn) \in Nat /\ DOMAIN d.drawn = 1..Len(d.drawn)
           /\ d.selected \in Nat /\ d.picked \in Nat
           /\ \A n \in 1..Len(d.drawn) : d.drawn[n] \in Shape /\ d.drawn[n].id \in Nat \ {0} /\ d.drawn[n].id <= last
           /\ \A m, n \in 1..Len(d.drawn) : d.drawn[m].id = d.drawn[n].id => m = n
           /\ d.selected = 0 => d.picked = 0
           /\ d.selected # 0 => d.selected \in 1..Len(d.drawn) /\ d.drawn[d.selected].id = d.picked
<1>1. d \in Draft /\ d.drawn \in Seq(Shape) /\ d.selected \in Nat /\ d.picked \in Nat
  BY DEF GoodDraft, Draft
<1>2. Len(d.drawn) \in Nat /\ DOMAIN d.drawn = 1..Len(d.drawn) /\ \A n \in 1..Len(d.drawn) : d.drawn[n] \in Shape
  BY <1>1
<1>3. \A n \in 1..Len(d.drawn) : d.drawn[n].id \in Nat \ {0}
  BY <1>2 DEF Shape
<1>4. Identified(d.drawn, last) /\ Agree(d.drawn, d.selected, d.picked)
  BY DEF GoodDraft
<1>5. QED
  BY <1>1, <1>2, <1>3, <1>4 DEF Identified, Agree

\* A chip taken away leaves the one selected at its new place, or none.
LEMMA LostStaysGood ==
    ASSUME NEW last, GoodDraft(dialog, last), NEW n \in DOMAIN dialog.drawn, NEW rest \in Seq(Shape),
           Len(rest) = Len(dialog.drawn) - 1,
           \A i \in 1..(Len(dialog.drawn) - 1) :
              rest[i] = IF i < n THEN dialog.drawn[i] ELSE dialog.drawn[i + 1]
    PROVE  GoodDraft([dialog EXCEPT !.drawn = rest,
                                    !.selected = IF @ = n THEN 0 ELSE IF @ > n THEN @ - 1 ELSE @,
                                    !.picked = PickedIn(rest)], last)
<1> DEFINE drawn == dialog.drawn
           len == Len(dialog.drawn)
           chip == dialog.selected
           at(i) == IF i < n THEN i ELSE i + 1
           sel == IF chip = n THEN 0 ELSE IF chip > n THEN chip - 1 ELSE chip
           pick == PickedIn(rest)
           e == [dialog EXCEPT !.drawn = rest, !.selected = sel, !.picked = pick]
<1>1. /\ dialog \in Draft /\ len \in Nat /\ n \in 1..len /\ chip \in Nat /\ dialog.picked \in Nat
      /\ \A i \in 1..len : drawn[i].id \in Nat \ {0} /\ drawn[i].id <= last
      /\ \A i, j \in 1..len : drawn[i].id = drawn[j].id => i = j
      /\ chip = 0 => dialog.picked = 0
      /\ chip # 0 => chip \in 1..len /\ drawn[chip].id = dialog.picked
  BY DrawnFacts
<1>2. DOMAIN rest = 1..(len - 1)
  BY <1>1
<1>3. \A i \in 1..(len - 1) : at(i) \in 1..len /\ at(i) # n /\ rest[i] = drawn[at(i)]
  BY <1>1
<1>4. \A i, j \in 1..(len - 1) : at(i) = at(j) => i = j
  BY <1>1
<1>5. sel \in Nat
  BY <1>1
<1>6. chip # 0 /\ chip # n => sel # 0 /\ sel \in 1..(len - 1) /\ at(sel) = chip
  BY <1>1
<1>7. chip = 0 \/ chip = n => sel = 0
  BY <1>1
<1>8. pick = IF \E i \in DOMAIN rest : rest[i].id = dialog.picked THEN dialog.picked ELSE 0
  BY DEF PickedIn
<1> HIDE DEF drawn, len, chip, at, sel, pick
<1>9. Agree(rest, sel, pick)
  <2>1. CASE chip = 0
    BY <1>1, <1>7, <1>8, <2>1 DEF Agree
  <2>2. CASE chip = n
    <3>1. n \in 1..len /\ drawn[n].id = dialog.picked
      BY <1>1, <2>2
    <3>2. ASSUME NEW i \in 1..(len - 1)
          PROVE  rest[i].id # dialog.picked
      <4>1. at(i) \in 1..len /\ at(i) # n /\ rest[i] = drawn[at(i)]
        BY <1>3
      <4>2. drawn[at(i)].id # drawn[n].id
        BY <1>1, <3>1, <4>1
      <4>3. QED
        BY <3>1, <4>1, <4>2
    <3>3. \A i \in DOMAIN rest : rest[i].id # dialog.picked
      BY <1>2, <3>2
    <3>4. QED
      BY <1>7, <1>8, <2>2, <3>3 DEF Agree
  <2>3. CASE chip # 0 /\ chip # n
    <3>1. sel \in DOMAIN rest /\ rest[sel].id = dialog.picked
      BY <1>1, <1>2, <1>3, <1>6, <2>3
    <3>2. QED
      BY <1>6, <1>8, <2>3, <3>1 DEF Agree
  <2>4. QED
    BY <2>1, <2>2, <2>3
<1>10. Identified(rest, last)
  <2>1. \A i \in 1..(len - 1) : rest[i].id = drawn[at(i)].id
    BY <1>3
  <2>2. ASSUME NEW i \in 1..(len - 1)
        PROVE  rest[i].id <= last
    BY <1>1, <1>3, <2>1, <2>2
  <2>3. ASSUME NEW i \in 1..(len - 1), NEW j \in 1..(len - 1), rest[i].id = rest[j].id
        PROVE  i = j
    <3>1. drawn[at(i)].id = drawn[at(j)].id /\ at(i) \in 1..len /\ at(j) \in 1..len
      BY <1>3, <2>1, <2>3
    <3>2. at(i) = at(j)
      BY <1>1, <3>1
    <3>3. QED
      BY <1>4, <3>2
  <2>4. QED
    BY <1>2, <2>2, <2>3 DEF Identified
<1>11. e \in Draft /\ e.ports = dialog.ports /\ e.drawn = rest /\ e.selected = sel /\ e.picked = pick
  <2>1. pick \in Nat
    BY <1>1, <1>8
  <2>2. QED
    BY <1>1, <1>5, <2>1 DEF Draft
<1> HIDE DEF e
<1>12. GoodDraft(e, last)
  BY <1>9, <1>10, <1>11 DEF GoodDraft
<1>13. QED
  BY <1>12 DEF e, sel, chip, pick

LEMMA RemoveShapeIsGood ==
    ASSUME NEW last, GoodDraft(dialog, last), NEW n \in DOMAIN dialog.drawn, RemoveShape(n)
    PROVE  GoodDraft(dialog', last)
<1> DEFINE rest == Without(dialog.drawn, n)
<1>1. dialog.drawn \in Seq(Shape)
  BY DrawnFacts
<1>2. /\ rest \in Seq(Shape) /\ Len(rest) = Len(dialog.drawn) - 1
      /\ \A i \in 1..(Len(dialog.drawn) - 1) : rest[i] = IF i < n THEN dialog.drawn[i] ELSE dialog.drawn[i + 1]
  BY <1>1, WithoutFacts
<1>3. dialog' = [dialog EXCEPT !.drawn = rest, !.selected = IF @ = n THEN 0 ELSE IF @ > n THEN @ - 1 ELSE @,
                               !.picked = PickedIn(rest)]
  BY DEF RemoveShape, Edited
<1> HIDE DEF rest
<1>4. GoodDraft([dialog EXCEPT !.drawn = rest, !.selected = IF @ = n THEN 0 ELSE IF @ > n THEN @ - 1 ELSE @,
                               !.picked = PickedIn(rest)], last)
  BY <1>2, LostStaysGood
<1>5. QED
  BY <1>3, <1>4

LEMMA UndoShapeIsGood ==
    ASSUME NEW last, GoodDraft(dialog, last), UndoShape
    PROVE  GoodDraft(dialog', last)
<1> DEFINE n == Len(dialog.drawn)
           rest == SubSeq(dialog.drawn, 1, n - 1)
<1>1. dialog \in Draft /\ dialog.drawn \in Seq(Shape) /\ n \in Nat /\ dialog.selected \in Nat /\ dialog.drawn # << >>
      /\ (dialog.selected # 0 => dialog.selected \in 1..n)
  BY DrawnFacts DEF UndoShape
<1>2. n \in 1..n /\ n \in DOMAIN dialog.drawn
  BY <1>1
<1>3. /\ rest \in Seq(Shape) /\ Len(rest) = n - 1
      /\ \A i \in 1..(n - 1) : rest[i] = dialog.drawn[i]
  <2>1. 1 \in Int /\ n - 1 \in Int /\ \A i \in 1..(n - 1) : dialog.drawn[i] \in Shape
    BY <1>1
  <2>2. /\ rest \in Seq(Shape) /\ Len(rest) = (IF 1 <= n - 1 THEN n - 1 - 1 + 1 ELSE 0)
        /\ \A i \in 1..(n - 1 - 1 + 1) : rest[i] = dialog.drawn[1 + i - 1]
    BY <2>1, SubSeqProperties
  <2> HIDE DEF rest, n
  <2>3. QED
    BY <1>1, <1>2, <2>2
<1>4. \A i \in 1..(n - 1) : rest[i] = IF i < n THEN dialog.drawn[i] ELSE dialog.drawn[i + 1]
  BY <1>1, <1>3
<1>5. (IF dialog.selected >= n THEN 0 ELSE dialog.selected)
        = IF dialog.selected = n THEN 0 ELSE IF dialog.selected > n THEN dialog.selected - 1 ELSE dialog.selected
  BY <1>1, <1>2
<1>6. dialog' = [dialog EXCEPT !.drawn = rest, !.selected = IF dialog.selected >= n THEN 0 ELSE dialog.selected,
                               !.picked = PickedIn(rest)]
  BY <1>1 DEF UndoShape, Edited, Draft
<1>7. GoodDraft([dialog EXCEPT !.drawn = rest, !.selected = IF @ = n THEN 0 ELSE IF @ > n THEN @ - 1 ELSE @,
                               !.picked = PickedIn(rest)], last)
  <2> HIDE DEF rest
  <2>1. QED
    BY <1>2, <1>3, <1>4, LostStaysGood
<1> HIDE DEF rest, n
<1>8. [dialog EXCEPT !.drawn = rest, !.selected = IF @ = n THEN 0 ELSE IF @ > n THEN @ - 1 ELSE @,
                     !.picked = PickedIn(rest)] = dialog'
  BY <1>1, <1>5, <1>6 DEF Draft
<1>9. QED
  BY <1>7, <1>8

LEMMA SelectShapeIsGood ==
    ASSUME NEW last, GoodDraft(dialog, last), NEW n \in DOMAIN dialog.drawn, SelectShape(n)
    PROVE  GoodDraft(dialog', last)
<1>1. /\ dialog \in Draft /\ Len(dialog.drawn) \in Nat /\ n \in 1..Len(dialog.drawn)
      /\ dialog.drawn[n].id \in Nat
  BY DrawnFacts
<1>2. CASE dialog.selected = n
  <2>1. dialog' = [dialog EXCEPT !.selected = 0, !.picked = 0]
    BY <1>2 DEF SelectShape, Edited
  <2>2. QED
    BY <2>1, DeselectedStaysGood
<1>3. CASE dialog.selected # n
  <2> DEFINE pick == dialog.drawn[n].id
             e == [dialog EXCEPT !.selected = n, !.picked = pick]
  <2>1. e \in Draft /\ e.ports = dialog.ports /\ e.drawn = dialog.drawn /\ e.selected = n /\ e.picked = pick
    <3>1. n \in Nat /\ pick \in Nat
      BY <1>1
    <3>2. QED
      BY <1>1, <3>1 DEF Draft
  <2>2. dialog' = e
    BY <1>3 DEF SelectShape, Edited
  <2> HIDE DEF e
  <2>3. Agree(dialog.drawn, n, pick)
    BY <1>1 DEF Agree
  <2>4. QED
    BY <2>1, <2>2, <2>3 DEF GoodDraft
<1>4. QED
  BY <1>2, <1>3

LEMMA PickStrokeIsGood ==
    ASSUME NEW last, GoodDraft(dialog, last), NEW stroke \in Strokes, PickStroke(stroke)
    PROVE  GoodDraft(dialog', last)
<1> DEFINE chip == dialog.selected
           drawn == dialog.drawn
<1>1. /\ dialog \in Draft /\ drawn \in Seq(Shape) /\ DOMAIN drawn = 1..Len(drawn)
      /\ \A n \in 1..Len(drawn) : drawn[n] \in Shape
      /\ chip # 0 => chip \in 1..Len(drawn)
  BY DrawnFacts
<1>2. CASE chip = 0
  <2>1. dialog' = [dialog EXCEPT !.stroke = stroke]
    BY <1>2 DEF PickStroke, Edited
  <2>2. Same(dialog, dialog')
    BY <1>1, <2>1 DEF Same, Draft
  <2>3. QED
    BY <2>2, SameStaysGood
<1>3. CASE chip # 0
  <2> DEFINE s == [drawn[chip] EXCEPT !.stroke = stroke]
             styled == [drawn EXCEPT ![chip] = s]
             e == [dialog EXCEPT !.drawn = styled]
  <2>1. drawn[chip] \in Shape
    BY <1>1, <1>3
  <2>2. s \in Shape /\ s.id = drawn[chip].id
    BY <2>1 DEF Shape
  <2>3. dialog' = e
    BY <1>3 DEF PickStroke, Edited
  <2> HIDE DEF s, chip, drawn
  <2>4. styled \in Seq(Shape) /\ DOMAIN styled = DOMAIN drawn /\ \A n \in DOMAIN drawn : styled[n].id = drawn[n].id
    BY <1>1, <1>3, <2>2
  <2> HIDE DEF styled
  <2>5. e \in Draft /\ e.ports = dialog.ports /\ e.drawn = styled /\ e.selected = dialog.selected /\ e.picked = dialog.picked
    BY <1>1, <2>4 DEF Draft
  <2> HIDE DEF e
  <2>6. Identified(drawn, last) /\ Agree(drawn, dialog.selected, dialog.picked) /\ Distinct(dialog.ports)
    BY DEF GoodDraft, drawn
  <2>7. Identified(styled, last)
    BY <2>4, <2>6 DEF Identified
  <2>8. Agree(styled, dialog.selected, dialog.picked)
    BY <2>4, <2>6 DEF Agree
  <2>9. QED
    BY <2>3, <2>5, <2>6, <2>7, <2>8 DEF GoodDraft
<1>4. QED
  BY <1>2, <1>3

\* The ports of a draft change alone.
LEMMA PortsStayGood ==
    ASSUME NEW last, GoodDraft(dialog, last), NEW ports, Distinct(ports)
    PROVE  GoodDraft([dialog EXCEPT !.ports = ports], last)
<1> DEFINE e == [dialog EXCEPT !.ports = ports]
<1>1. dialog \in Draft /\ ports \in Seq(Port)
  BY DEF GoodDraft, Distinct
<1>2. /\ e \in Draft /\ e.ports = ports /\ e.drawn = dialog.drawn
      /\ e.selected = dialog.selected /\ e.picked = dialog.picked
  BY <1>1 DEF Draft
<1> HIDE DEF e
<1>3. GoodDraft(e, last)
  BY <1>2 DEF GoodDraft
<1>4. QED
  BY <1>3 DEF e

LEMMA PortStepIsGood ==
    ASSUME NEW last, GoodDraft(dialog, last),
           \/ \E spot \in Spots : AddPort(spot) \/ \E n \in DOMAIN dialog.ports : DragPort(n, spot)
           \/ \E n \in DOMAIN dialog.ports : RemovePort(n)
    PROVE  GoodDraft(dialog', last)
<1>1. dialog \in Draft /\ Distinct(dialog.ports)
  BY DEF GoodDraft
<1>2. ASSUME NEW spot \in Spots, AddPort(spot)
      PROVE  GoodDraft(dialog', last)
  <2> DEFINE ports == Append(dialog.ports, [number |-> NextPort(dialog.ports), at |-> spot])
  <2>1. Distinct(ports)
    BY <1>1, AppendedDistinct
  <2>2. dialog' = [dialog EXCEPT !.ports = ports]
    BY <1>2 DEF AddPort, Edited
  <2> HIDE DEF ports
  <2>3. QED
    BY <2>1, <2>2, PortsStayGood
<1>3. ASSUME NEW spot \in Spots, NEW n \in DOMAIN dialog.ports, DragPort(n, spot)
      PROVE  GoodDraft(dialog', last)
  <2> DEFINE ports == [dialog.ports EXCEPT ![n].at = spot]
  <2>1. Distinct(ports)
    BY <1>1, MovedDistinct
  <2>2. dialog' = [dialog EXCEPT !.ports = ports]
    BY <1>3 DEF DragPort, Edited
  <2> HIDE DEF ports
  <2>3. QED
    BY <2>1, <2>2, PortsStayGood
<1>4. ASSUME NEW n \in DOMAIN dialog.ports, RemovePort(n)
      PROVE  GoodDraft(dialog', last)
  <2> DEFINE ports == Without(dialog.ports, n)
  <2>1. Distinct(ports)
    BY <1>1, RemovedDistinct
  <2>2. dialog' = [dialog EXCEPT !.ports = ports]
    BY <1>4 DEF RemovePort, Edited
  <2> HIDE DEF ports
  <2>3. QED
    BY <2>1, <2>2, PortsStayGood
<1>5. QED
  BY <1>2, <1>3, <1>4

\* A shape ended appends one, with the next identity, to a draft that is the same else.
LEMMA AppendShapeIsGood ==
    ASSUME NEW draft, counts \in [shapes : Nat, saves : Nat], GoodDraft(draft, counts.shapes),
           dialog.stroke \in Strokes, AppendShape(draft)
    PROVE  GoodDraft(dialog', counts'.shapes) /\ counts' \in [shapes : Nat, saves : Nat]
<1>1. counts.shapes \in Nat /\ counts'.shapes = counts.shapes + 1 /\ counts' \in [shapes : Nat, saves : Nat]
  BY DEF AppendShape
<1>2. dialog' = [draft EXCEPT !.drawn = Append(@, [id |-> counts.shapes + 1, stroke |-> dialog.stroke])]
  BY DEF AppendShape
<1>3. QED
  BY <1>1, <1>2, AppendedStaysGood

\* The steps of the dialog that neither draw nor remove.
LEMMA QuietStepIsGood ==
    ASSUME NEW last, GoodDraft(dialog, last),
           \/ TypeName \/ AddLinePoint \/ CancelLine \/ StartShape \/ DeselectShape \/ Save
           \/ \E text \in {"good", "bad"} : ApplyMarkup(text)
           \/ \E tool \in ToolModes : SelectTool(tool)
    PROVE  GoodDraft(dialog', last)
<1>0. NoLine \in 0..2 /\ {Import} \in SUBSET Nat
  BY DEF NoLine, Import
<1>1. dialog \in Draft
  BY DrawnFacts
<1>2. CASE TypeName
  <2>1. dialog' = [dialog EXCEPT !.named = TRUE]
    BY <1>2 DEF TypeName, Edited
  <2>2. Same(dialog, dialog')
    BY <1>1, <2>1 DEF Same, Draft
  <2>3. QED
    BY <2>2, SameStaysGood
<1>3. CASE AddLinePoint
  <2>1. dialog' = [dialog EXCEPT !.line = dialog.line + 1] /\ dialog.line < 2
    BY <1>3 DEF AddLinePoint, Edited
  <2>2. dialog.line + 1 \in 0..2
    BY <1>1, <2>1 DEF Draft
  <2>3. Same(dialog, dialog')
    BY <1>1, <2>1, <2>2 DEF Same, Draft
  <2>4. QED
    BY <2>3, SameStaysGood
<1>4. CASE CancelLine
  <2> DEFINE ended == [dialog EXCEPT !.line = NoLine]
  <2>1. Same(dialog, ended)
    BY <1>0, <1>1 DEF Same, Draft
  <2>2. dialog' = [ended EXCEPT !.selected = 0, !.picked = 0]
    BY <1>1, <1>4 DEF CancelLine, Edited, Draft
  <2> HIDE DEF ended
  <2>3. QED
    BY <2>1, <2>2, SameStaysGood, DeselectedStaysGood
<1>5. CASE StartShape
  <2>1. dialog' = [dialog EXCEPT !.dragged = "shape"]
    BY <1>5 DEF StartShape, Edited
  <2>2. Same(dialog, dialog')
    BY <1>1, <2>1 DEF Same, Draft
  <2>3. QED
    BY <2>2, SameStaysGood
<1>6. CASE DeselectShape
  BY <1>6, DeselectedStaysGood DEF DeselectShape, Edited
<1>7. CASE Save
  <2>1. dialog' = [dialog EXCEPT !.busy = TRUE, !.error = FALSE]
    BY <1>7 DEF Save
  <2>2. Same(dialog, dialog')
    BY <1>1, <2>1 DEF Same, Draft
  <2>3. QED
    BY <2>2, SameStaysGood
<1>8. ASSUME NEW text \in {"good", "bad"}, ApplyMarkup(text)
      PROVE  GoodDraft(dialog', last)
  <2>1. \/ dialog' = [dialog EXCEPT !.error = TRUE]
        \/ dialog' = [dialog EXCEPT !.svg = {Import}, !.error = FALSE]
    BY <1>8 DEF ApplyMarkup, Edited
  <2>2. Same(dialog, dialog')
    BY <1>0, <1>1, <2>1 DEF Same, Draft
  <2>3. QED
    BY <2>2, SameStaysGood
<1>9. ASSUME NEW tool \in ToolModes, SelectTool(tool)
      PROVE  GoodDraft(dialog', last)
  <2>1. dialog' = [dialog EXCEPT !.tool = tool, !.line = NoLine]
    BY <1>9 DEF SelectTool, Edited
  <2>2. Same(dialog, dialog')
    BY <1>0, <1>1, <2>1 DEF Same, Draft
  <2>3. QED
    BY <2>2, SameStaysGood
<1>10. QED
  BY <1>2, <1>3, <1>4, <1>5, <1>6, <1>7, <1>8, <1>9

\* A line or a shape is drawn or given up.
LEMMA DrawStepIsGood ==
    ASSUME counts \in [shapes : Nat, saves : Nat], GoodDraft(dialog, counts.shapes), FinishLine \/ StopShape
    PROVE  GoodDraft(dialog', counts'.shapes) /\ counts' \in [shapes : Nat, saves : Nat]
<1>0. dialog \in Draft /\ NoLine \in 0..2
  BY DrawnFacts DEF NoLine
<1>1. dialog \in Draft /\ dialog.stroke \in Strokes
  BY <1>0 DEF Draft
<1>2. \E draft : Same(dialog, draft) /\ (Edited(draft) \/ AppendShape(draft))
  <2>1. CASE FinishLine
    <3> DEFINE ended == [dialog EXCEPT !.line = NoLine]
    <3>1. Same(dialog, ended)
      BY <1>0, <1>1 DEF Same, Draft
    <3>2. Edited(ended) \/ AppendShape(ended)
      BY <2>1 DEF FinishLine
    <3>3. QED
      BY <3>1, <3>2
  <2>2. CASE StopShape
    <3> DEFINE ended == [dialog EXCEPT !.dragged = "nothing"]
    <3>1. Same(dialog, ended)
      BY <1>1 DEF Same, Draft
    <3>2. Edited(ended) \/ AppendShape(ended)
      BY <2>2 DEF StopShape
    <3>3. QED
      BY <3>1, <3>2
  <2>3. QED
    BY <2>1, <2>2
<1>3. PICK draft : Same(dialog, draft) /\ (Edited(draft) \/ AppendShape(draft))
  BY <1>2
<1>4. GoodDraft(draft, counts.shapes)
  BY <1>3, SameStaysGood
<1>5. CASE Edited(draft)
  BY <1>4, <1>5 DEF Edited
<1>6. CASE AppendShape(draft)
  BY <1>1, <1>4, <1>6, AppendShapeIsGood
<1>7. QED
  BY <1>3, <1>5, <1>6

LEMMA OpenedIsGood ==
    ASSUME SymbolInv, NEW id \in SymbolIds \cup {0}
    PROVE  GoodDraft(Opened(id), counts.shapes)
<1> DEFINE svg == IF id = 0 THEN {} ELSE symbols[id].svg
           ports == IF id = 0 THEN << >> ELSE symbols[id].ports
           d == Opened(id)
<1>1. svg \in SUBSET Nat /\ ports \in Seq(Port) /\ Distinct(ports)
  <2>1. CASE id = 0
    BY <2>1, EmptyDistinct
  <2>2. CASE id # 0
    <3>1. symbols[id] \in Symbol /\ Distinct(symbols[id].ports)
      BY <2>2 DEF SymbolInv, GoodSymbols
    <3>2. QED
      BY <2>2, <3>1 DEF Symbol
  <2>3. QED
    BY <2>1, <2>2
<1>2. d = [open |-> TRUE, of |-> id, named |-> (id # 0), svg |-> svg, ports |-> ports, drawn |-> << >>, tool |-> "port",
           line |-> NoLine, dragged |-> "nothing", selected |-> 0, picked |-> 0, stroke |-> NoStroke, error |-> FALSE, busy |-> FALSE]
  BY DEF Opened
<1> HIDE DEF svg, ports, d
<1>3. << >> \in Seq(Shape) /\ (id # 0) \in BOOLEAN /\ NoLine \in 0..2 /\ NoStroke \in Strokes /\ "port" \in ToolModes
  BY SymbolAssumption DEF NoLine, ToolModes
<1>4. d \in Draft /\ d.ports = ports /\ d.drawn = << >> /\ d.selected = 0 /\ d.picked = 0
  BY <1>1, <1>2, <1>3 DEF Draft
<1>5. GoodDraft(d, counts.shapes)
  BY <1>1, <1>4 DEF GoodDraft, Identified, Agree
<1>6. QED
  BY <1>5 DEF d

\* What a save sends.
LEMMA SavedIsGood ==
    ASSUME NEW last, GoodDraft(dialog, last)
    PROVE  GoodCall([kind |-> "save", id |-> dialog.of, body |-> [svg |-> Combined(dialog), ports |-> dialog.ports]])
<1> DEFINE svg == Combined(dialog)
<1>1. dialog \in Draft /\ \A n \in DOMAIN dialog.drawn : dialog.drawn[n].id \in Nat
  BY DrawnFacts
<1>2. dialog.svg \in SUBSET Nat /\ dialog.ports \in Seq(Port) /\ Distinct(dialog.ports)
  BY <1>1 DEF Draft, GoodDraft
<1>3. svg \in SUBSET Nat
  BY <1>1, <1>2 DEF Combined
<1> HIDE DEF svg
<1>4. [svg |-> svg, ports |-> dialog.ports] \in Symbol
  BY <1>2, <1>3 DEF Symbol
<1>5. QED
  BY <1>2, <1>4 DEF GoodCall, svg

LEMMA DialogStepHolds ==
    ASSUME SymbolInv, dialog.open, DialogStep
    PROVE  SymbolInv'
<1>1. GoodDraft(dialog, counts.shapes) /\ counts \in [shapes : Nat, saves : Nat]
  BY DEF SymbolInv, GoodDialog, Closed
<1>2. CASE CloseEditor
  BY <1>2 DEF CloseEditor, SymbolInv, GoodDialog
<1>3. CASE FinishLine \/ StopShape
  <2>1. GoodDraft(dialog', counts'.shapes) /\ counts' \in [shapes : Nat, saves : Nat]
    BY <1>1, <1>3, DrawStepIsGood
  <2>2. UNCHANGED <<symbols, sent>>
    BY <1>3 DEF FinishLine, StopShape, Edited, AppendShape
  <2>3. QED
    BY <2>1, <2>2 DEF SymbolInv, GoodDialog
<1>4. CASE Save
  <2>1. GoodDraft(dialog', counts.shapes)
    BY <1>1, <1>4, QuietStepIsGood
  <2>2. counts' = [counts EXCEPT !.saves = @ + 1] /\ symbols' = symbols
    BY <1>4 DEF Save
  <2>3. counts' \in [shapes : Nat, saves : Nat] /\ counts'.shapes = counts.shapes
    BY <1>1, <2>2
  <2>4. \A call \in sent' : GoodCall(call)
    BY <1>1, <1>4, SavedIsGood DEF Save, SymbolInv
  <2>5. QED
    BY <2>1, <2>2, <2>3, <2>4 DEF SymbolInv, GoodDialog
<1>5. CASE \/ TypeName \/ AddLinePoint \/ CancelLine \/ StartShape \/ DeselectShape
           \/ \E text \in {"good", "bad"} : ApplyMarkup(text)
           \/ \E tool \in ToolModes : SelectTool(tool)
  <2>1. GoodDraft(dialog', counts.shapes)
    BY <1>1, <1>5, QuietStepIsGood
  <2>2. UNCHANGED <<symbols, sent, counts>>
    BY <1>5 DEF TypeName, AddLinePoint, CancelLine, StartShape, DeselectShape, ApplyMarkup, SelectTool, Edited
  <2>3. QED
    BY <2>1, <2>2 DEF SymbolInv, GoodDialog
<1>6. CASE \/ UndoShape
           \/ \E n \in DOMAIN dialog.drawn : SelectShape(n) \/ RemoveShape(n)
           \/ \E stroke \in Strokes : PickStroke(stroke)
  <2>1. GoodDraft(dialog', counts.shapes)
    BY <1>1, <1>6, UndoShapeIsGood, SelectShapeIsGood, RemoveShapeIsGood, PickStrokeIsGood
  <2>2. UNCHANGED <<symbols, sent, counts>>
    BY <1>6 DEF UndoShape, SelectShape, RemoveShape, PickStroke, Edited
  <2>3. QED
    BY <2>1, <2>2 DEF SymbolInv, GoodDialog
<1>7. CASE \/ \E spot \in Spots : AddPort(spot) \/ \E n \in DOMAIN dialog.ports : DragPort(n, spot)
           \/ \E n \in DOMAIN dialog.ports : RemovePort(n)
  <2>1. GoodDraft(dialog', counts.shapes)
    BY <1>1, <1>7, PortStepIsGood
  <2>2. UNCHANGED <<symbols, sent, counts>>
    BY <1>7 DEF AddPort, DragPort, RemovePort, Edited
  <2>3. QED
    BY <2>1, <2>2 DEF SymbolInv, GoodDialog
<1>8. QED
  BY <1>2, <1>3, <1>4, <1>5, <1>6, <1>7 DEF DialogStep

LEMMA CallStepHolds ==
    ASSUME SymbolInv, NEW call \in sent, SaveAccepted(call) \/ SaveRefused(call) \/ DeleteAnswered(call)
    PROVE  SymbolInv'
<1>1. GoodSymbols(symbols) /\ GoodCall(call) /\ counts' = counts /\ \A c \in sent' : GoodCall(c)
  BY DEF SymbolInv, SaveAccepted, SaveRefused, DeleteAnswered
<1>2. CASE SaveAccepted(call)
  <2>1. PICK id \in SymbolIds : symbols' = [symbols EXCEPT ![id] = call.body]
    BY <1>2 DEF SaveAccepted
  <2>2. call.body \in Symbol /\ Distinct(call.body.ports)
    BY <1>1, <1>2 DEF GoodCall, SaveAccepted
  <2>3. GoodSymbols(symbols')
    BY <1>1, <2>1, <2>2 DEF GoodSymbols
  <2>4. QED
    BY <1>1, <1>2, <2>3 DEF SymbolInv, SaveAccepted, GoodDialog
<1>3. CASE SaveRefused(call)
  <2>1. symbols' = symbols
    BY <1>3 DEF SaveRefused
  <2>2. CASE dialog.open
    <3>1. GoodDraft(dialog, counts.shapes) /\ dialog \in Draft
      BY <2>2, DrawnFacts DEF SymbolInv, GoodDialog, Closed
    <3>2. dialog' = dialog \/ dialog' = [dialog EXCEPT !.busy = FALSE, !.error = TRUE]
      BY <1>3 DEF SaveRefused
    <3>3. Same(dialog, dialog')
      BY <3>1, <3>2 DEF Same, Draft
    <3>4. GoodDraft(dialog', counts.shapes)
      BY <3>1, <3>3, SameStaysGood
    <3>5. QED
      BY <1>1, <2>1, <3>4 DEF SymbolInv, GoodDialog
  <2>3. CASE ~dialog.open
    BY <1>1, <1>3, <2>1, <2>3 DEF SymbolInv, SaveRefused
  <2>4. QED
    BY <2>2, <2>3
<1>4. CASE DeleteAnswered(call)
  <2>1. NoSymbol \in Symbol /\ Distinct(NoSymbol.ports)
    BY EmptyDistinct DEF NoSymbol, Symbol
  <2>2. dialog' = dialog /\ (symbols' = symbols \/ symbols' = [symbols EXCEPT ![call.id] = NoSymbol])
    BY <1>4 DEF DeleteAnswered
  <2>3. GoodSymbols(symbols')
    BY <1>1, <2>1, <2>2 DEF GoodSymbols
  <2>4. QED
    BY <1>1, <2>2, <2>3 DEF SymbolInv
<1>5. QED
  BY <1>2, <1>3, <1>4

LEMMA SymbolNextHolds ==
    ASSUME SymbolInv, [SymbolNext]_symbolVars
    PROVE  SymbolInv'
<1>1. ASSUME NEW id \in SymbolIds \cup {0}, OpenEditor(id)
      PROVE  SymbolInv'
  BY <1>1, OpenedIsGood DEF OpenEditor, SymbolInv, GoodDialog
<1>2. ASSUME NEW id \in SymbolIds, DeleteSymbol(id)
      PROVE  SymbolInv'
  <2>1. counts' = [counts EXCEPT !.saves = @ + 1] /\ UNCHANGED <<dialog, symbols>>
    BY <1>2 DEF DeleteSymbol
  <2>2. counts' \in [shapes : Nat, saves : Nat] /\ counts'.shapes = counts.shapes
    BY <2>1 DEF SymbolInv
  <2>3. \A call \in sent' : GoodCall(call)
    BY <1>2 DEF DeleteSymbol, SymbolInv, GoodCall
  <2>4. QED
    BY <2>1, <2>2, <2>3 DEF SymbolInv
<1>3. CASE UNCHANGED symbolVars
  BY <1>3 DEF symbolVars, SymbolInv
<1>4. QED
  BY <1>1, <1>2, <1>3, DialogStepHolds, CallStepHolds DEF SymbolNext

\* The shape the stroke controls restyle is the one picked, and no two ports of a draft or a
\* stored symbol share an id, for any symbols, strokes, ports and shapes.
THEOREM PicksAndPorts == SymbolSpec => []PicksAndPortsHold
<1>1. SymbolInv => PicksAndPortsHold
  <2>1. SUFFICES ASSUME SymbolInv PROVE PicksAndPortsHold
    OBVIOUS
  <2>2. ASSUME dialog.open
        PROVE  Distinct(dialog.ports) /\ Agree(dialog.drawn, dialog.selected, dialog.picked)
    BY <2>1, <2>2 DEF SymbolInv, GoodDialog, Closed, GoodDraft
  <2>3. \A id \in SymbolIds : Distinct(symbols[id].ports)
    BY <2>1 DEF SymbolInv, GoodSymbols
  <2>4. QED
    BY <2>2, <2>3, DistinctNumbers DEF PicksAndPortsHold, Agree
<1>2. QED
  BY <1>1, SymbolInitHolds, SymbolNextHolds, PTL DEF SymbolSpec

-----------------------------------------------------------------------------
(* The import wizard.                                                      *)

Sources == {NoSource} \cup ImportSources

Inputs == [kind : {"file", "paste"}, file : Sources, paste : Sources, comma : BOOLEAN, mode : Modes]

\* A report, or a call, is about what the inputs hold.
AboutInputs(body, mode) == body = Source /\ mode = inputs.mode

Checking == busy # NoReport /\ busy.kind = "check"

\* A call is about a source, an answer about its call, an import about the report its button
\* stood under.
GoodBusy ==
    /\ busy \in ImportCall
    /\ busy.body.source \in ImportSources
    /\ busy.stage = "answered" => busy.answer \in ImportReport /\ busy.answer.body = busy.body /\ busy.answer.mode = busy.mode
    /\ busy.stage = "refresh" => busy.kind = "import"
    /\ busy.kind = "check" /\ ~late => AboutInputs(busy.body, busy.mode)
    /\ busy.kind = "import" /\ ~late => busy.shown.body = busy.body /\ busy.shown.mode = busy.mode

WizardInv ==
    /\ inputs \in Inputs
    /\ others \in Nat
    /\ DOMAIN importTable = ImportKeys
    /\ report \in {NoReport} \cup ImportReport
    /\ busy # NoReport => GoodBusy
    /\ report # NoReport /\ ~HasErrors(report) /\ ~late /\ ~Checking => AboutInputs(report.body, report.mode)

LEMMA SourceIsOne ==
    ASSUME inputs \in Inputs
    PROVE  Source \in ImportBody /\ (Source.source # NoSource => Source.source \in ImportSources)
BY DEF Inputs, Sources, Source, ImportBody

LEMMA WizardInitHolds == WizardInit => WizardInv
<1> SUFFICES ASSUME WizardInit PROVE WizardInv
  OBVIOUS
<1>1. inputs \in Inputs /\ others \in Nat /\ DOMAIN importTable = ImportKeys /\ report = NoReport
  BY DEF WizardInit, Inputs, Sources, Modes
<1>2. ASSUME busy # NoReport
      PROVE  GoodBusy
  <2>1. /\ inputs.kind = "paste" /\ inputs.comma = FALSE /\ inputs.paste \in ImportSources /\ inputs.mode \in Modes
        /\ RowsOf[inputs.paste] # << >> /\ inputs.paste # NoSource
        /\ busy = [kind |-> "check", body |-> [source |-> inputs.paste, comma |-> FALSE], mode |-> inputs.mode,
                   shown |-> NoReport, stage |-> "asked", answer |-> NoReport]
    BY <1>2 DEF WizardInit, Modes
  <2>2. Source = [source |-> inputs.paste, comma |-> FALSE]
    BY <2>1 DEF Source
  <2>3. busy \in ImportCall
    BY <2>1 DEF ImportCall, ImportBody
  <2>4. QED
    BY <2>1, <2>2, <2>3 DEF GoodBusy, AboutInputs
<1>3. QED
  BY <1>1, <1>2 DEF WizardInv

\* The inputs change: no report is left, and what a check is about is given up.
LEMMA ChangeHolds ==
    ASSUME WizardInv, NEW next, next \in Inputs, Change(next)
    PROVE  WizardInv'
<1>1. /\ inputs' \in Inputs /\ UNCHANGED <<importTable, busy, others>> /\ report' = NoReport
      /\ late' = (late \/ Checking)
  BY DEF Change, Invalidate, Checking
<1>2. ASSUME busy # NoReport
      PROVE  GoodBusy'
  BY <1>1, <1>2 DEF WizardInv, GoodBusy, Checking
<1>3. QED
  BY <1>1, <1>2 DEF WizardInv

LEMMA InputStepHolds ==
    ASSUME WizardInv,
           \/ \E kind \in {"file", "paste"} : ChooseKind(kind)
           \/ \E source \in {NoSource} \cup ImportSources : ChooseFile(source) \/ Paste(source)
           \/ \E on \in BOOLEAN : DecimalComma(on)
           \/ \E mode \in Modes : ChooseMode(mode)
    PROVE  WizardInv'
<1>1. inputs \in Inputs
  BY DEF WizardInv
<1>2. /\ \A kind \in {"file", "paste"} : [inputs EXCEPT !.kind = kind] \in Inputs
      /\ \A source \in Sources : [inputs EXCEPT !.file = source] \in Inputs /\ [inputs EXCEPT !.paste = source] \in Inputs
      /\ \A on \in BOOLEAN : [inputs EXCEPT !.comma = on] \in Inputs
      /\ \A mode \in Modes : [inputs EXCEPT !.mode = mode] \in Inputs
  BY <1>1 DEF Inputs
<1>3. \E next \in Inputs : Change(next)
  BY <1>2 DEF ChooseKind, ChooseFile, Paste, DecimalComma, ChooseMode, Sources
<1>4. QED
  BY <1>3, ChangeHolds

LEMMA CheckHolds ==
    ASSUME WizardInv, Check
    PROVE  WizardInv'
<1>1. /\ UNCHANGED <<importTable, inputs, report, others>> /\ late' = FALSE
      /\ busy' = [kind |-> "check", body |-> Source, mode |-> inputs.mode, shown |-> report, stage |-> "asked",
                  answer |-> NoReport]
      /\ Source \in ImportBody /\ Source.source \in ImportSources /\ inputs.mode \in Modes
      /\ report \in {NoReport} \cup ImportReport
  BY SourceIsOne DEF Check, Call, WizardInv, Inputs
<1>2. Source' = Source
  BY <1>1 DEF Source
<1>3. busy' \in ImportCall
  BY <1>1 DEF ImportCall
<1>4. GoodBusy'
  BY <1>1, <1>2, <1>3 DEF GoodBusy, AboutInputs
<1>5. Checking'
  BY <1>1, <1>3, ImportAssumption DEF Checking
<1>6. QED
  BY <1>1, <1>4, <1>5 DEF WizardInv

\* The button of a report without errors.
LEMMA CommitHolds ==
    ASSUME WizardInv, Commit
    PROVE  WizardInv'
<1>1. /\ UNCHANGED <<importTable, inputs, report, others, late>> /\ busy = NoReport
      /\ busy' = [kind |-> "import", body |-> Source, mode |-> inputs.mode, shown |-> report, stage |-> "asked",
                  answer |-> NoReport]
      /\ report # NoReport /\ ~HasErrors(report)
      /\ Source \in ImportBody /\ Source.source \in ImportSources /\ inputs.mode \in Modes
      /\ report \in {NoReport} \cup ImportReport
  BY SourceIsOne DEF Commit, Call, WizardInv, Inputs
<1>2. Source' = Source
  BY <1>1 DEF Source
<1>3. ~late => AboutInputs(report.body, report.mode)
  BY <1>1 DEF WizardInv, Checking
<1>4. busy' \in ImportCall
  BY <1>1 DEF ImportCall
<1>5. GoodBusy'
  BY <1>1, <1>3, <1>4 DEF GoodBusy, AboutInputs
<1>6. ~late => AboutInputs(report.body, report.mode)'
  BY <1>1, <1>2, <1>3 DEF AboutInputs
<1>7. QED
  BY <1>1, <1>5, <1>6 DEF WizardInv

\* What the server plans.
LEMMA PlanFacts ==
    ASSUME NEW body \in ImportBody, NEW mode \in Modes, body.source \in ImportSources
    PROVE  /\ PlanImport(body, mode) \in ImportReport
           /\ PlanImport(body, mode).body = body /\ PlanImport(body, mode).mode = mode
           /\ DOMAIN Parsed(body) \subseteq Nat
           /\ \A i \in DOMAIN Parsed(body) :
                 i >= 1 /\ Parsed(body)[i].key \in ImportKeys /\ 1..(i - 1) \subseteq DOMAIN Parsed(body)
           /\ ~HasErrors(PlanImport(body, mode)) =>
                 \A i \in DOMAIN Parsed(body) : Action(Parsed(body), i, mode) # "error"
<1> DEFINE sheet == RowsOf[body.source]
           rows == Parsed(body)
           plan == PlanImport(body, mode)
           Row == [key : ImportKeys, cell : UNION {DOMAIN CellReadings[on] : on \in BOOLEAN}]
<1>1. sheet \in Seq(Row)
  BY ImportAssumption
<1>2. \A row \in Row : row.key \in ImportKeys
  OBVIOUS
<1> HIDE DEF sheet, Row
<1>3. DOMAIN sheet = 1..Len(sheet) /\ Len(sheet) \in Nat /\ \A i \in 1..Len(sheet) : sheet[i].key \in ImportKeys
  BY <1>1, <1>2
<1>4. DOMAIN rows = 1..Len(sheet) /\ \A i \in DOMAIN rows : rows[i].key \in ImportKeys
  BY <1>3 DEF Parsed, sheet
<1>5. plan = [body |-> body, mode |-> mode, rows |-> [i \in DOMAIN rows |-> Action(rows, i, mode)]]
  BY DEF PlanImport
<1>6. \A i \in DOMAIN rows : Action(rows, i, mode) \in {"create", "update", "unchanged", "error"}
  BY DEF Action
<1> HIDE DEF rows, plan
<1>7. [i \in DOMAIN rows |-> Action(rows, i, mode)] \in Seq({"create", "update", "unchanged", "error"})
  BY <1>3, <1>4, <1>6
<1>8. plan.body = body /\ plan.mode = mode /\ plan.rows = [i \in DOMAIN rows |-> Action(rows, i, mode)]
  BY <1>5
<1>9. ~HasErrors(plan) => \A i \in DOMAIN rows : Action(rows, i, mode) # "error"
  BY <1>8 DEF HasErrors, ToSet
<1>10. plan \in ImportReport
  BY <1>5, <1>7 DEF ImportReport
<1>11. DOMAIN rows \subseteq Nat /\ \A i \in DOMAIN rows : i >= 1 /\ 1..(i - 1) \subseteq DOMAIN rows
  BY <1>3, <1>4
<1>12. QED
  BY <1>4, <1>8, <1>9, <1>10, <1>11 DEF rows, plan

LEMMA RunImportHolds ==
    ASSUME WizardInv, RunImport
    PROVE  WizardInv'
<1> DEFINE plan == PlanImport(busy.body, busy.mode)
<1>1. /\ GoodBusy /\ busy \in ImportCall /\ busy # NoReport
      /\ busy' = [busy EXCEPT !.stage = "answered", !.answer = plan]
      /\ UNCHANGED <<inputs, report, others, late>>
  BY DEF RunImport, WizardInv, GoodBusy
<1>2. busy.body \in ImportBody /\ busy.mode \in Modes /\ busy.body.source \in ImportSources
  BY <1>1 DEF ImportCall, GoodBusy
<1>3. plan \in ImportReport /\ plan.body = busy.body /\ plan.mode = busy.mode
  BY <1>2, PlanFacts
<1> HIDE DEF plan
<1>4. /\ busy' \in ImportCall /\ busy'.kind = busy.kind /\ busy'.body = busy.body /\ busy'.mode = busy.mode
      /\ busy'.shown = busy.shown /\ busy'.answer = plan /\ busy'.stage = "answered"
  BY <1>1, <1>3 DEF ImportCall
<1>5. GoodBusy'
  BY <1>1, <1>3, <1>4 DEF GoodBusy, AboutInputs, Source
<1>6. DOMAIN importTable' = ImportKeys
  BY DEF RunImport, WizardInv, CommitPlan
<1>7. Checking' = Checking
  BY <1>1, <1>4, ImportAssumption DEF Checking
<1>8. QED
  BY <1>1, <1>5, <1>6, <1>7 DEF WizardInv, AboutInputs, Source

LEMMA AnsweredHolds ==
    ASSUME WizardInv, Answered
    PROVE  WizardInv'
<1>1. /\ GoodBusy /\ busy \in ImportCall /\ busy # NoReport /\ busy.stage = "answered"
      /\ UNCHANGED <<importTable, inputs, others, late>>
  BY DEF Answered, WizardInv, GoodBusy
<1>2. CASE busy.kind = "import" /\ ~HasErrors(busy.answer)
  <2>1. busy' = [busy EXCEPT !.stage = "refresh"] /\ report' = NoReport
    BY <1>2 DEF Answered
  <2>2. /\ busy' \in ImportCall /\ busy'.kind = busy.kind /\ busy'.body = busy.body /\ busy'.mode = busy.mode
        /\ busy'.shown = busy.shown /\ busy'.stage = "refresh"
    BY <1>1, <2>1 DEF ImportCall
  <2>3. GoodBusy'
    BY <1>1, <1>2, <2>2 DEF GoodBusy
  <2>4. QED
    BY <1>1, <2>1, <2>3 DEF WizardInv
<1>3. CASE ~(busy.kind = "import" /\ ~HasErrors(busy.answer))
  <2>1. report' = busy.answer /\ busy' = NoReport
    BY <1>3 DEF Answered
  <2>2. report' \in ImportReport /\ report'.body = busy.body /\ report'.mode = busy.mode
    BY <1>1, <2>1 DEF GoodBusy
  <2>3. ~HasErrors(report') => busy.kind = "check"
    BY <1>1, <1>3, <2>1 DEF GoodBusy, ImportCall
  <2>4. ~HasErrors(report') /\ ~late => AboutInputs(report'.body, report'.mode)
    BY <1>1, <2>2, <2>3 DEF GoodBusy
  <2>5. HasErrors(report)' <=> HasErrors(report')
    BY DEF HasErrors
  <2>6. QED
    BY <1>1, <2>1, <2>2, <2>4, <2>5 DEF WizardInv, AboutInputs, Source
<1>4. QED
  BY <1>2, <1>3

LEMMA EndHolds ==
    ASSUME WizardInv, Refreshed \/ CallFails \/ Close
    PROVE  WizardInv'
<1>1. UNCHANGED <<importTable, inputs, others, late>>
  BY DEF Refreshed, CallFails, Close
<1>2. CASE Refreshed
  <2>1. busy' = NoReport /\ report' = report /\ busy # NoReport /\ busy.stage = "refresh"
    BY <1>2 DEF Refreshed
  <2>2. QED
    BY <1>1, <2>1 DEF WizardInv, Checking, AboutInputs, Source, GoodBusy
<1>3. CASE CallFails
  <2>1. busy' = NoReport /\ report' = IF Checking THEN NoReport ELSE report
    BY <1>3 DEF CallFails, Checking
  <2>2. QED
    BY <1>1, <2>1 DEF WizardInv, AboutInputs, Source
<1>4. CASE Close
  <2>1. UNCHANGED <<busy, report>>
    BY <1>4 DEF Close
  <2>2. QED
    BY <1>1, <2>1 DEF WizardInv, AboutInputs, Source, GoodBusy, Checking
<1>5. QED
  BY <1>2, <1>3, <1>4

LEMMA WizardNextHolds ==
    ASSUME WizardInv, [WizardNext]_wizardVars
    PROVE  WizardInv'
<1>1. CASE UNCHANGED wizardVars
  BY <1>1 DEF wizardVars, WizardInv, AboutInputs, Source, GoodBusy, Checking, HasErrors
<1>2. ASSUME NEW key \in ImportKeys, NEW value \in {1, 2}, OtherEdit(key, value)
      PROVE  WizardInv'
  <2>1. /\ UNCHANGED <<inputs, report, busy, late>> /\ others' = others + 1
        /\ DOMAIN importTable' = DOMAIN importTable
    BY <1>2 DEF OtherEdit
  <2>2. QED
    BY <2>1 DEF WizardInv, AboutInputs, Source, GoodBusy, Checking, HasErrors
<1>3. QED
  BY <1>1, <1>2, RunImportHolds, InputStepHolds, CheckHolds, CommitHolds, AnsweredHolds, EndHolds DEF WizardNext

-----------------------------------------------------------------------------
(* What an import writes.                                                  *)

\* The plan of a report without errors writes each key once, the value its row reads.
LEMMA CommitFacts ==
    ASSUME NEW body \in ImportBody, NEW mode \in Modes, body.source \in ImportSources,
           DOMAIN importTable = ImportKeys, ~HasErrors(PlanImport(body, mode))
    PROVE  LET rows == Parsed(body)
               table == CommitPlan(PlanImport(body, mode))
           IN  /\ \A i \in DOMAIN rows : rows[i].value # KeptCell => table[rows[i].key] = rows[i].value
               /\ \A key \in ImportKeys : table[key] # importTable[key] =>
                     /\ \E i \in DOMAIN rows : rows[i].key = key
                     /\ importTable[key] # NoRow => mode = "upsert"
<1> DEFINE plan == PlanImport(body, mode)
           rows == Parsed(body)
           table == CommitPlan(plan)
           values(key) == {rows[i].value : i \in {j \in DOMAIN rows : rows[j].key = key}} \ {KeptCell}
<1>1. /\ plan.body = body /\ DOMAIN rows \subseteq Nat
      /\ \A i \in DOMAIN rows : i >= 1 /\ rows[i].key \in ImportKeys /\ 1..(i - 1) \subseteq DOMAIN rows
      /\ \A i \in DOMAIN rows : Action(rows, i, mode) # "error"
  BY PlanFacts
<1>2. \A i \in DOMAIN rows : \A j \in 1..(i - 1) : rows[j].key # rows[i].key
  BY <1>1 DEF Action
<1>3. \A i \in DOMAIN rows : importTable[rows[i].key] # NoRow => mode # "create_only"
  BY <1>1 DEF Action
<1>4. ASSUME NEW i \in DOMAIN rows, NEW j \in DOMAIN rows, i < j
      PROVE  rows[i].key # rows[j].key
  <2>1. i \in Nat /\ j \in Nat /\ i >= 1
    BY <1>1
  <2>2. i \in 1..(j - 1)
    BY <1>4, <2>1
  <2>3. QED
    BY <1>2, <2>2
<1>5. ASSUME NEW i \in DOMAIN rows, NEW j \in DOMAIN rows, rows[i].key = rows[j].key
      PROVE  i = j
  <2>1. i \in Nat /\ j \in Nat
    BY <1>1
  <2>2. ~(i < j) /\ ~(j < i)
    BY <1>4, <1>5
  <2>3. QED
    BY <2>1, <2>2
<1>6. table = [key \in ImportKeys |->
                 IF values(key) # {} THEN CHOOSE v \in values(key) : TRUE
                 ELSE IF \E i \in DOMAIN rows : rows[i].key = key /\ importTable[key] = NoRow THEN 0
                 ELSE importTable[key]]
  BY <1>1 DEF CommitPlan
<1> HIDE DEF rows, plan, table
<1>7. ASSUME NEW i \in DOMAIN rows, rows[i].value # KeptCell
      PROVE  table[rows[i].key] = rows[i].value
  <2>1. values(rows[i].key) = {rows[i].value}
    BY <1>5, <1>7
  <2>2. QED
    BY <1>1, <1>6, <2>1
<1>8. ASSUME NEW key \in ImportKeys, table[key] # importTable[key]
      PROVE  /\ \E i \in DOMAIN rows : rows[i].key = key
             /\ importTable[key] # NoRow => mode = "upsert"
  <2>1. PICK i \in DOMAIN rows : rows[i].key = key
    <3>1. SUFFICES ASSUME \A i \in DOMAIN rows : rows[i].key # key PROVE FALSE
      OBVIOUS
    <3>2. values(key) = {}
      BY <3>1
    <3>3. QED
      BY <1>6, <1>8, <3>1, <3>2
  <2>2. QED
    BY <1>3, <2>1 DEF Modes
<1>9. QED
  BY <1>7, <1>8 DEF rows, plan, table

\* Whatever others changed since the dry run, an import writes the rows its report showed as
\* the report read them, and under "create only" replaces none, for any sources and readings.
THEOREM ImportWritesItsReport == WizardSpec => ImportsWhatWasShown
<1> DEFINE Shown ==
       busy # NoReport /\ busy.kind = "import" /\ others' = others /\ importTable' # importTable /\ ~late =>
          LET rows == Parsed(busy.shown.body)
          IN  /\ \A i \in DOMAIN rows :
                    rows[i].value # KeptCell => importTable'[rows[i].key] = rows[i].value
              /\ \A key \in ImportKeys :
                    importTable'[key] # importTable[key] =>
                        /\ \E i \in DOMAIN rows : rows[i].key = key
                        /\ importTable[key] # NoRow => busy.shown.mode = "upsert"
<1>1. WizardInv /\ [WizardNext]_wizardVars => [Shown]_wizardVars
  <2>1. SUFFICES ASSUME WizardInv, WizardNext, busy # NoReport, busy.kind = "import", others' = others,
                        importTable' # importTable, ~late
                 PROVE  Shown
    OBVIOUS
  <2>2. RunImport
    <3>1. others \in Nat
      BY <2>1 DEF WizardInv
    <3>2. \A key \in ImportKeys, value \in {1, 2} : ~OtherEdit(key, value)
      BY <2>1, <3>1 DEF OtherEdit
    <3>3. QED
      BY <2>1, <3>2 DEF WizardNext, ChooseKind, ChooseFile, Paste, DecimalComma, ChooseMode, Change, Check, Commit,
                        Answered, Refreshed, CallFails, Close
  <2>3. /\ busy.body \in ImportBody /\ busy.body.source \in ImportSources /\ busy.mode \in Modes
        /\ busy.shown.body = busy.body /\ busy.shown.mode = busy.mode /\ DOMAIN importTable = ImportKeys
    BY <2>1 DEF WizardInv, GoodBusy, ImportCall
  <2>4. ~HasErrors(PlanImport(busy.body, busy.mode)) /\ importTable' = CommitPlan(PlanImport(busy.body, busy.mode))
    BY <2>1, <2>2 DEF RunImport
  <2>5. QED
    BY <2>3, <2>4, CommitFacts
<1>2. WizardSpec => [][Shown]_wizardVars
  BY <1>1, WizardInitHolds, WizardNextHolds, PTL DEF WizardSpec
<1>3. QED
  BY <1>2 DEF ImportsWhatWasShown

-----------------------------------------------------------------------------
(* The parts grid: its types.                                              *)

EditSets == UNION {Edits(cells) : cells \in SUBSET GridCells}
RowSets == UNION {PartRows(parts) : parts \in SUBSET PartIds}
AllWorks == UNION {Works(cells, parts) : cells \in SUBSET GridCells, parts \in SUBSET PartIds}
GridRow == [FieldIds -> CellValues]
PartLists == [PartIds -> GridRow \cup {Gone}]

SaveRecords ==
    [edits : EditSets, bulk : BOOLEAN, left : SUBSET PartIds, asked : SUBSET PartIds,
     stage : {"asked", "answered", "done"}, answer : RowSets, saved : RowSets, failed : SUBSET GridCells]

PartsTyped ==
    /\ catalog \in PartLists /\ partsList \in PartLists /\ shownList \in PartLists
    /\ overlay \in [GridCells -> OverlayEntries \cup {None}]
    /\ cellEditor \in CellEditors \cup {None}
    /\ activeEdit \in Nat
    /\ saves \in Seq(SaveRecords)
    /\ work \in AllWorks \cup {None}

LEMMA GridCellsFacts ==
    /\ \A cell \in GridCells : cell[1] \in PartIds /\ cell[2] \in FieldIds /\ cell = <<cell[1], cell[2]>>
    /\ \A p \in PartIds, f \in FieldIds : <<p, f>> \in GridCells
BY DEF GridCells, CellsOf

LEMMA PartsInFacts ==
    ASSUME NEW cells \in SUBSET GridCells
    PROVE  PartsIn(cells) \in SUBSET PartIds
BY GridCellsFacts DEF PartsIn

LEMMA EmptyRows == << >> \in RowSets /\ << >> \in EditSets /\ DOMAIN << >> = {}
<1>1. << >> \in PartRows({}) /\ << >> \in Edits({})
  BY DEF PartRows, Edits
<1>2. QED
  BY <1>1 DEF RowSets, EditSets

LEMMA EditSetFacts ==
    ASSUME NEW edits \in EditSets
    PROVE  /\ DOMAIN edits \in SUBSET GridCells
           /\ edits = [cell \in DOMAIN edits |-> edits[cell]]
           /\ \A cell \in DOMAIN edits : edits[cell] \in CellValues
<1>1. PICK cells \in SUBSET GridCells : edits \in Edits(cells)
  BY DEF EditSets
<1>2. CASE edits = << >>
  BY <1>2, EmptyRows
<1>3. CASE edits \in [cells -> CellValues]
  BY <1>3
<1>4. QED
  BY <1>1, <1>2, <1>3 DEF Edits

LEMMA EditSetIntro ==
    ASSUME NEW cells \in SUBSET GridCells, NEW edits \in [cells -> CellValues]
    PROVE  edits \in EditSets
<1>1. edits \in Edits(cells)
  BY DEF Edits
<1>2. QED
  BY <1>1 DEF EditSets

LEMMA RowSetIntro ==
    ASSUME NEW parts \in SUBSET PartIds, NEW rows \in [parts -> GridRow \cup {Gone}]
    PROVE  rows \in RowSets
<1>1. rows \in PartRows(parts)
  BY DEF PartRows, GridRow
<1>2. QED
  BY <1>1 DEF RowSets

LEMMA RowSetFacts ==
    ASSUME NEW rows \in RowSets
    PROVE  /\ DOMAIN rows \in SUBSET PartIds
           /\ \A p \in DOMAIN rows : rows[p] \in GridRow \cup {Gone}
           /\ DOMAIN rows = {} \/ rows # << >>
<1>1. PICK parts \in SUBSET PartIds : rows \in PartRows(parts)
  BY DEF RowSets
<1>2. CASE rows = << >>
  BY <1>2, EmptyRows
<1>3. CASE rows \in [parts -> GridRow \cup {Gone}]
  BY <1>3, EmptyRows
<1>4. QED
  BY <1>1, <1>2, <1>3 DEF PartRows, GridRow

LEMMA ValueFacts ==
    /\ None \in CellValues /\ 0 \in CellValues /\ BOOLEAN \subseteq CellValues
    /\ \A text \in DOMAIN Readings : Readings[text] \in CellValues
BY DEF CellValues

LEMMA FirstRowTyped == FirstRow \in GridRow
<1>1. FALSE \in CellValues /\ 0 \in CellValues
  BY ValueFacts
<1>2. \A f \in FieldIds : (IF f \in FlagFields THEN FALSE ELSE 0) \in CellValues
  BY <1>1
<1>3. QED
  BY <1>2 DEF FirstRow, GridRow

LEMMA ParseCellTyped ==
    ASSUME NEW cell \in GridCells, NEW text, ~Unreadable(cell, text)
    PROVE  ParseCell(cell, text) \in CellValues
<1>1. CASE cell[2] \in FlagFields
  <2>1. (text # Blank /\ FlagReadings[text]) \in BOOLEAN
    OBVIOUS
  <2>2. (text # Blank /\ FlagReadings[text]) \in CellValues
    BY <2>1, ValueFacts, Zenon
  <2>3. ParseCell(cell, text) = (text # Blank /\ FlagReadings[text])
    BY <1>1, Zenon DEF ParseCell
  <2>4. QED
    BY <2>2, <2>3, Zenon
<1>2. CASE cell[2] \notin FlagFields
  <2>1. CASE text = Blank
    BY <1>2, <2>1, ValueFacts DEF ParseCell
  <2>2. CASE text # Blank
    <3>1. text \in DOMAIN Readings
      BY <1>2, <2>2 DEF Unreadable
    <3>2. QED
      BY <1>2, <2>2, <3>1, ValueFacts DEF ParseCell
  <2>3. QED
    BY <2>1, <2>2
<1>3. QED
  BY <1>1, <1>2

LEMMA PrepareTyped ==
    ASSUME NEW requests, DOMAIN requests \subseteq GridCells
    PROVE  PrepareEdits(requests) \in EditSets
<1> DEFINE good == Present(DOMAIN requests) \ BadCells(requests)
           changed == {cell \in good : ShownValue(cell) # ParseCell(cell, requests[cell])}
<1>1. changed \in SUBSET GridCells
  BY DEF Present
<1>2. \A cell \in changed : ParseCell(cell, requests[cell]) \in CellValues
  <2>1. TAKE cell \in changed
  <2>2. ~Unreadable(cell, requests[cell])
    BY DEF BadCells
  <2>3. QED
    BY <1>1, <2>2, ParseCellTyped
<1>3. PrepareEdits(requests) = [cell \in changed |-> ParseCell(cell, requests[cell])]
  BY DEF PrepareEdits
<1> HIDE DEF changed
<1>4. PrepareEdits(requests) \in [changed -> CellValues]
  BY <1>2, <1>3
<1>5. QED
  BY <1>1, <1>4, EditSetIntro

LEMMA AppendSave ==
    ASSUME NEW S, NEW s \in Seq(S), NEW r \in S
    PROVE  /\ Append(s, r) \in Seq(S)
           /\ Len(s) \in Nat /\ DOMAIN s = 1..Len(s)
           /\ DOMAIN Append(s, r) = 1..(Len(s) + 1)
           /\ \A n \in 1..Len(s) : Append(s, r)[n] = s[n]
           /\ Append(s, r)[Len(s) + 1] = r
OBVIOUS

LEMMA ExceptSave ==
    ASSUME NEW S, NEW s \in Seq(S), NEW n \in DOMAIN s, NEW r \in S
    PROVE  /\ [s EXCEPT ![n] = r] \in Seq(S)
           /\ DOMAIN [s EXCEPT ![n] = r] = DOMAIN s
           /\ [s EXCEPT ![n] = r][n] = r
           /\ \A k \in DOMAIN s : k # n => [s EXCEPT ![n] = r][k] = s[k]
OBVIOUS

LEMMA SaveUpdates ==
    ASSUME NEW s \in SaveRecords, NEW p \in s.left
    PROVE  LET r == Asked(s, p)
           IN  /\ r \in SaveRecords
               /\ r.edits = s.edits /\ r.stage = "asked" /\ r.answer = s.answer /\ r.saved = s.saved
               /\ r.failed = s.failed
               /\ r.left \cup r.asked = s.left /\ r.left \cap r.asked = {} /\ r.asked # {}
<1> DEFINE ask == IF s.bulk THEN s.left ELSE {p}
           r == [s EXCEPT !.asked = ask, !.left = s.left \ ask, !.stage = "asked"]
<1>1. Asked(s, p) = r
  BY DEF Asked
<1>2. ask \in SUBSET s.left /\ ask # {} /\ s.left \in SUBSET PartIds
  BY DEF SaveRecords
<1> HIDE DEF ask
<1>3. /\ r.edits = s.edits /\ r.stage = "asked" /\ r.answer = s.answer /\ r.saved = s.saved
      /\ r.failed = s.failed /\ r.left = s.left \ ask /\ r.asked = ask
  BY DEF SaveRecords
<1>4. r \in SaveRecords
  BY <1>2 DEF SaveRecords
<1> HIDE DEF r
<1>5. QED
  BY <1>1, <1>2, <1>3, <1>4

LEMMA NewSaveTyped ==
    ASSUME NEW edits \in EditSets, NEW p \in PartsIn(DOMAIN edits)
    PROVE  LET r == Asked(NewSave(edits), p)
           IN  /\ r \in SaveRecords
               /\ r.edits = edits /\ r.stage = "asked"
               /\ r.answer = << >> /\ r.saved = << >>
               /\ r.left \cup r.asked = PartsIn(DOMAIN edits) /\ r.left \cap r.asked = {} /\ r.asked # {}
<1> DEFINE parts == PartsIn(DOMAIN edits)
           b == SameChange(edits)
<1>1. parts \in SUBSET PartIds /\ p \in parts
  BY PartsInFacts, EditSetFacts
<1>2. b \in BOOLEAN
  BY DEF SameChange
<1> HIDE DEF b, parts
<1> DEFINE n == [edits |-> edits, bulk |-> b, left |-> parts, asked |-> {},
                 stage |-> "asked", answer |-> << >>, saved |-> << >>, failed |-> {}]
<1>4. NewSave(edits) = n
  BY DEF NewSave, b, parts
<1>5. n \in SaveRecords
  BY <1>1, <1>2, EmptyRows DEF SaveRecords
<1>6. p \in n.left /\ n.left = parts /\ n.edits = edits /\ n.answer = << >> /\ n.saved = << >>
  BY <1>1
<1> HIDE DEF n
<1>7. LET r == Asked(n, p)
      IN  /\ r \in SaveRecords
          /\ r.edits = edits /\ r.stage = "asked"
          /\ r.answer = << >> /\ r.saved = << >>
          /\ r.left \cup r.asked = parts /\ r.left \cap r.asked = {} /\ r.asked # {}
  BY <1>5, <1>6, SaveUpdates
<1>8. QED
  BY <1>4, <1>7 DEF parts

LEMMA CollectedFacts ==
    ASSUME NEW s \in SaveRecords
    PROVE  LET t == Collected(s)
           IN  /\ t \in SaveRecords
               /\ t.edits = s.edits /\ t.bulk = s.bulk /\ t.left = s.left /\ t.asked = s.asked
               /\ t.stage = s.stage /\ t.answer = s.answer
               /\ DOMAIN t.saved = DOMAIN s.saved \cup DOMAIN s.answer
               /\ \A p \in DOMAIN t.saved : t.saved[p] = IF p \in DOMAIN s.answer THEN s.answer[p] ELSE s.saved[p]
               /\ t.failed = IF s.answer = << >> THEN s.failed \cup {cell \in DOMAIN s.edits : cell[1] \in s.asked}
                             ELSE s.failed
<1> DEFINE D == DOMAIN s.saved \cup DOMAIN s.answer
           rows == [p \in D |-> IF p \in DOMAIN s.answer THEN s.answer[p] ELSE s.saved[p]]
           lost == IF s.answer = << >> THEN s.failed \cup {cell \in DOMAIN s.edits : cell[1] \in s.asked} ELSE s.failed
<1>1. /\ s.edits \in EditSets /\ s.answer \in RowSets /\ s.saved \in RowSets /\ s.failed \in SUBSET GridCells
      /\ s.left \in SUBSET PartIds /\ s.asked \in SUBSET PartIds /\ s.bulk \in BOOLEAN
      /\ s.stage \in {"asked", "answered", "done"}
  BY DEF SaveRecords
<1>2. DOMAIN s.saved \in SUBSET PartIds /\ DOMAIN s.answer \in SUBSET PartIds
  BY <1>1, RowSetFacts
<1>3. \A p \in D : rows[p] \in GridRow \cup {Gone}
  BY <1>1, RowSetFacts
<1>4. rows \in RowSets
  <2>1. D \in SUBSET PartIds /\ rows \in [D -> GridRow \cup {Gone}]
    BY <1>2, <1>3
  <2>2. QED
    BY <2>1, RowSetIntro
<1>5. lost \in SUBSET GridCells
  BY <1>1, EditSetFacts
<1>6. Collected(s) = [s EXCEPT !.saved = rows, !.failed = lost]
  BY DEF Collected
<1>7. DOMAIN rows = D /\ \A p \in D : rows[p] = IF p \in DOMAIN s.answer THEN s.answer[p] ELSE s.saved[p]
  OBVIOUS
<1> HIDE DEF rows, lost
<1> DEFINE t == [s EXCEPT !.saved = rows, !.failed = lost]
<1>8. /\ t.edits = s.edits /\ t.bulk = s.bulk /\ t.left = s.left /\ t.asked = s.asked
      /\ t.stage = s.stage /\ t.answer = s.answer /\ t.saved = rows /\ t.failed = lost
  BY DEF SaveRecords
<1>9. t \in SaveRecords
  BY <1>4, <1>5 DEF SaveRecords
<1> HIDE DEF t
<1>10. Collected(s) = t
  BY <1>6 DEF t
<1>11. QED
  BY <1>7, <1>8, <1>9, <1>10 DEF lost

LEMMA ServedSave ==
    ASSUME NEW s \in SaveRecords, NEW rows \in RowSets
    PROVE  LET r == [s EXCEPT !.stage = "answered", !.answer = rows]
           IN  /\ r \in SaveRecords
               /\ r.edits = s.edits /\ r.stage = "answered" /\ r.answer = rows /\ r.saved = s.saved
               /\ r.failed = s.failed /\ r.left = s.left /\ r.asked = s.asked
<1> DEFINE r == [s EXCEPT !.stage = "answered", !.answer = rows]
<1>1. /\ r.edits = s.edits /\ r.stage = "answered" /\ r.answer = rows /\ r.saved = s.saved
      /\ r.failed = s.failed /\ r.left = s.left /\ r.asked = s.asked
  BY DEF SaveRecords
<1>2. r \in SaveRecords
  BY DEF SaveRecords
<1>3. QED
  BY <1>1, <1>2

LEMMA DoneSave ==
    ASSUME NEW s \in SaveRecords
    PROVE  LET r == [s EXCEPT !.stage = "done", !.saved = << >>, !.answer = << >>, !.asked = {}]
           IN  r \in SaveRecords /\ r.edits = s.edits /\ r.stage = "done"
<1> DEFINE r == [s EXCEPT !.stage = "done", !.saved = << >>, !.answer = << >>, !.asked = {}]
<1>1. r.edits = s.edits /\ r.stage = "done"
  BY DEF SaveRecords
<1>2. r \in SaveRecords
  BY EmptyRows DEF SaveRecords
<1>3. QED
  BY <1>1, <1>2

LEMMA TakenTyped ==
    ASSUME catalog \in PartLists, NEW parts \in SUBSET PartIds, NEW edits \in EditSets, ~Refuses(parts, edits)
    PROVE  /\ Taken(parts, edits) \in PartLists
           /\ \A p \in PartIds \ parts : Taken(parts, edits)[p] = catalog[p]
<1> DEFINE row(p) == [f \in FieldIds |-> IF <<p, f>> \in DOMAIN edits THEN edits[<<p, f>>] ELSE catalog[p][f]]
<1>1. \A p \in parts : row(p) \in GridRow
  <2>1. TAKE p \in parts
  <2>2. catalog[p] \in GridRow
    BY DEF Refuses, PartLists
  <2>3. \A f \in FieldIds : catalog[p][f] \in CellValues
    BY <2>2 DEF GridRow
  <2>4. \A f \in FieldIds : <<p, f>> \in DOMAIN edits => edits[<<p, f>>] \in CellValues
    BY EditSetFacts
  <2>5. \A f \in FieldIds : (IF <<p, f>> \in DOMAIN edits THEN edits[<<p, f>>] ELSE catalog[p][f]) \in CellValues
    BY <2>3, <2>4
  <2>6. QED
    BY <2>5 DEF GridRow
<1>2. Taken(parts, edits) = [p \in PartIds |-> IF p \in parts THEN row(p) ELSE catalog[p]]
  BY DEF Taken
<1> HIDE DEF row
<1>3. \A p \in PartIds : catalog[p] \in GridRow \cup {Gone}
  BY DEF PartLists
<1>4. QED
  BY <1>1, <1>2, <1>3 DEF PartLists

-----------------------------------------------------------------------------
(* Its invariant.                                                          *)

\* An entry shown as committed waits for the render of a merge; one shown as pending is of a
\* save under way that carries its cell.
OverlaySound ==
    \A cell \in GridCells : overlay[cell] # None =>
        /\ overlay[cell].fresh = TRUE => unrendered
        /\ overlay[cell].status = "pending" => /\ overlay[cell].token \in DOMAIN saves
                                               /\ saves[overlay[cell].token].stage # "done"
                                               /\ cell \in DOMAIN saves[overlay[cell].token].edits

\* The last save that carries a cell.
IsLast(n, cell) ==
    cell \in DOMAIN saves[n].edits /\ \A k \in DOMAIN saves : cell \in DOMAIN saves[k].edits => k <= n

\* A cell that was saved has a last save, whose entry is on it while it is under way.
LastsPend ==
    \A cell \in GridCells :
        /\ (\E n \in DOMAIN saves : cell \in DOMAIN saves[n].edits) => \E n \in DOMAIN saves : IsLast(n, cell)
        /\ \A n \in DOMAIN saves : IsLast(n, cell) /\ saves[n].stage # "done" =>
             /\ overlay[cell] # None
             /\ overlay[cell].status = "pending" /\ overlay[cell].token = n
             /\ overlay[cell].value = saves[n].edits[cell]

Told(s) == DOMAIN s.answer \cup DOMAIN s.saved

\* Each part of a save under way is still to be asked for, asked for, saved or failed.
SaveSound(s) ==
    s.stage # "done" =>
        /\ s.left \cup s.asked \cup Told(s) \subseteq PartsIn(DOMAIN s.edits)
        /\ s.left \cap s.asked = {} /\ s.left \cap Told(s) = {} /\ s.asked # {}
        /\ s.stage = "asked" => s.asked \cap DOMAIN s.saved = {} /\ DOMAIN s.answer \subseteq DOMAIN s.saved
        /\ s.stage = "answered" => s.answer = << >> \/ DOMAIN s.answer = s.asked
        /\ \A cell \in DOMAIN s.edits : cell \in s.failed \/ cell[1] \in s.left \cup s.asked \cup DOMAIN s.saved

InSync(p) == partsList[p] = catalog[p]

\* What a save was answered is what the server holds; of its other parts the page is not behind.
SaveCurrent(s, listed, stored) ==
    /\ \A p \in DOMAIN s.answer : s.answer[p] = stored[p] /\ listed[p] # Gone
    /\ \A p \in DOMAIN s.saved : s.saved[p] = stored[p] /\ listed[p] # Gone
    /\ \A p \in PartsIn(DOMAIN s.edits) \ Told(s) : listed[p] = stored[p]

WorkCurrent ==
    IF work.kind = "bulk_set"
    THEN \/ work.stage = "asked" /\ \A p \in work.ids : InSync(p)
         \/ /\ work.stage = "merge" /\ DOMAIN work.answer = work.ids
            /\ \A p \in work.ids : work.answer[p] = catalog[p] /\ partsList[p] # Gone
    ELSE \/ work.stage = "asked" /\ \A p \in PartIds : InSync(p)
         \/ work.stage = "list"
         \/ work.stage = "reload" /\ work.answer = catalog

\* Unless something is excused, no part is in two calls, and the page is behind only on
\* parts of a call that will tell it.
ListSound ==
    /\ \A m, n \in DOMAIN saves : m # n => SaveParts(m) \cap SaveParts(n) = {}
    /\ \A n \in DOMAIN saves : SaveParts(n) \cap WorkParts = {}
    /\ \A p \in PartIds \ UnderWay : InSync(p)
    /\ \A n \in DOMAIN saves : saves[n].stage # "done" => SaveCurrent(saves[n], partsList, catalog)
    /\ work # None => WorkCurrent

PartsInv ==
    /\ PartsTyped
    /\ ~unrendered => shownList = partsList
    /\ OverlaySound
    /\ LastsPend
    /\ \A n \in DOMAIN saves : SaveSound(saves[n])
    /\ work # None /\ work.stage = "reload" => work.answer \in PartLists
    /\ ~excused => ListSound

LEMMA PartsInitial == PartsInit => PartsInv
<1> SUFFICES ASSUME PartsInit PROVE PartsInv
  OBVIOUS
<1> USE DEF PartsInit
<1>1. catalog \in PartLists
  BY FirstRowTyped DEF PartLists
<1>2. PartsTyped
  BY <1>1 DEF PartsTyped
<1>3. DOMAIN saves = {}
  BY EmptyRows
<1>4. OverlaySound /\ LastsPend
  BY <1>3 DEF OverlaySound, LastsPend
<1>5. ListSound
  BY <1>3 DEF ListSound, InSync
<1>6. QED
  BY <1>2, <1>3, <1>4, <1>5 DEF PartsInv

LEMMA WorkFacts ==
    ASSUME NEW w \in AllWorks
    PROVE  /\ w # None
           /\ w.ids \in SUBSET PartIds /\ w.edits \in EditSets /\ w.answer \in RowSets
           /\ w.kind \in {"bulk_set", "delete", "update", "create"}
           /\ w.stage \in {"asked", "list", "merge", "reload"}
<1>1. PICK cells \in SUBSET GridCells, parts \in SUBSET PartIds : w \in Works(cells, parts)
  BY DEF AllWorks
<1>2. None \notin Works(cells, parts)
  BY PartsAssumption
<1>3. /\ w.ids \in SUBSET PartIds /\ w.edits \in Edits(cells) /\ w.answer \in PartRows(parts)
      /\ w.kind \in {"bulk_set", "delete", "update", "create"}
      /\ w.stage \in {"asked", "list", "merge", "reload"}
  BY <1>1 DEF Works
<1>4. w.edits \in EditSets /\ w.answer \in RowSets
  BY <1>3 DEF EditSets, RowSets
<1>5. QED
  BY <1>1, <1>2, <1>3, <1>4

LEMMA EntryIsNotNone ==
    ASSUME NEW e \in OverlayEntries \cup CellEditors
    PROVE  e # None
BY PartsAssumption

\* A commit of the grid: nothing, or a new save over its cells.
LEMMA RunCommitKeeps ==
    ASSUME PartsInv, NEW edits \in EditSets, RunCommit(edits),
           UNCHANGED <<catalog, partsList, shownList, unrendered, work>>,
           cellEditor' \in CellEditors \cup {None}, activeEdit' \in Nat
    PROVE  PartsInv'
<1> USE DEF PartsInv
<1>t. PartsTyped
  OBVIOUS
<1>1. CASE DOMAIN edits = {}
  <2>1. UNCHANGED <<overlay, saves, excused>>
    BY <1>1 DEF RunCommit
  <2>2. PartsTyped'
    BY <2>1, <1>t DEF PartsTyped
  <2>3. OverlaySound' /\ LastsPend'
    BY <2>1 DEF OverlaySound, LastsPend, IsLast
  <2>4. ~excused' => ListSound'
    BY <2>1 DEF ListSound, SaveParts, WorkParts, UnderWay, WorkCurrent, InSync
  <2>5. QED
    BY <2>1, <2>2, <2>3, <2>4 DEF SaveSound
<1>2. CASE DOMAIN edits # {}
  <2> DEFINE cells == DOMAIN edits
  <2>1. PICK p \in PartsIn(cells) : saves' = Append(saves, Asked(NewSave(edits), p))
    BY <1>2 DEF RunCommit
  <2>2. /\ overlay' = Overlaid(edits, Len(saves) + 1)
        /\ excused' = (excused \/ UnderWay \cap PartsIn(cells) # {})
    BY <1>2 DEF RunCommit
  <2>3. PICK r \in SaveRecords :
          /\ saves' = Append(saves, r)
          /\ r.edits = edits /\ r.stage = "asked" /\ r.answer = << >> /\ r.saved = << >>
          /\ r.left \cup r.asked = PartsIn(cells) /\ r.left \cap r.asked = {} /\ r.asked # {}
    BY <2>1, NewSaveTyped
  <2>4. saves \in Seq(SaveRecords)
    BY <1>t DEF PartsTyped
  <2>5. /\ saves' \in Seq(SaveRecords) /\ Len(saves) \in Nat
        /\ DOMAIN saves = 1..Len(saves) /\ DOMAIN saves' = 1..(Len(saves) + 1)
        /\ \A n \in 1..Len(saves) : saves'[n] = saves[n]
        /\ saves'[Len(saves) + 1] = r
    BY <2>3, <2>4, AppendSave
  <2>l. PICK last \in Nat : last = Len(saves) + 1
    BY <2>5
  <2>6. /\ last \in Nat /\ last \notin DOMAIN saves /\ DOMAIN saves' = DOMAIN saves \cup {last}
        /\ \A n \in DOMAIN saves : n < last /\ saves'[n] = saves[n]
        /\ saves'[last] = r
    BY <2>5, <2>l
  <2>7. /\ cells \in SUBSET GridCells
        /\ \A cell \in cells : edits[cell] \in CellValues
    BY EditSetFacts
  <2>8. \A cell \in GridCells : overlay'[cell] = IF cell \in cells
                THEN [value |-> edits[cell], status |-> "pending", token |-> last, fresh |-> FALSE] ELSE overlay[cell]
    BY <2>2, <2>l DEF Overlaid
  <2>9. overlay' \in [GridCells -> OverlayEntries \cup {None}]
    <3>1. \A cell \in cells : [value |-> edits[cell], status |-> "pending", token |-> last, fresh |-> FALSE] \in OverlayEntries
      BY <2>6, <2>7 DEF OverlayEntries
    <3>2. overlay \in [GridCells -> OverlayEntries \cup {None}]
      BY <1>t DEF PartsTyped
    <3>3. QED
      BY <2>2, <2>l, <3>1, <3>2 DEF Overlaid
  <2>10. \A cell \in cells : /\ overlay'[cell] # None
                             /\ overlay'[cell].value = edits[cell] /\ overlay'[cell].status = "pending"
                             /\ overlay'[cell].token = last /\ overlay'[cell].fresh # TRUE
    <3>1. TAKE cell \in cells
    <3>2. [value |-> edits[cell], status |-> "pending", token |-> last, fresh |-> FALSE] \in OverlayEntries
      BY <2>6, <2>7 DEF OverlayEntries
    <3>3. overlay'[cell] = [value |-> edits[cell], status |-> "pending", token |-> last, fresh |-> FALSE]
      BY <2>7, <2>8
    <3>4. overlay'[cell] # None
      BY <3>2, <3>3, EntryIsNotNone
    <3>5. QED
      BY <3>3, <3>4
  <2>11. PartsTyped'
    BY <2>5, <2>9, <1>t DEF PartsTyped
  <2>12. OverlaySound'
    <3>1. SUFFICES ASSUME NEW cell \in GridCells, overlay'[cell] # None
                   PROVE  /\ overlay'[cell].fresh = TRUE => unrendered'
                          /\ overlay'[cell].status = "pending" =>
                                 /\ overlay'[cell].token \in DOMAIN saves'
                                 /\ saves'[overlay'[cell].token].stage # "done"
                                 /\ cell \in DOMAIN saves'[overlay'[cell].token].edits
      BY DEF OverlaySound
    <3>2. CASE cell \in cells
      BY <2>3, <2>6, <2>10, <3>2
    <3>3. CASE cell \notin cells
      <4>1. overlay'[cell] = overlay[cell]
        BY <2>8, <3>3
      <4>2. QED
        BY <2>6, <3>1, <4>1 DEF OverlaySound
    <3>4. QED
      BY <3>2, <3>3
  <2>13. LastsPend'
    <3>1. SUFFICES ASSUME NEW cell \in GridCells
                   PROVE  /\ (\E n \in DOMAIN saves' : cell \in DOMAIN saves'[n].edits) =>
                                \E n \in DOMAIN saves' : IsLast(n, cell)'
                          /\ \A n \in DOMAIN saves' : IsLast(n, cell)' /\ saves'[n].stage # "done" =>
                               /\ overlay'[cell] # None
                               /\ overlay'[cell].status = "pending" /\ overlay'[cell].token = n
                               /\ overlay'[cell].value = saves'[n].edits[cell]
      BY DEF LastsPend, IsLast
    <3>2. CASE cell \in cells
      <4>1. IsLast(last, cell)'
        BY <2>3, <2>6, <3>2 DEF IsLast
      <4>2. \A n \in DOMAIN saves' : IsLast(n, cell)' => n = last
        BY <2>3, <2>6, <3>2 DEF IsLast
      <4>3. QED
        BY <2>3, <2>6, <2>10, <3>2, <4>1, <4>2
    <3>3. CASE cell \notin cells
      <4>1. cell \notin DOMAIN saves'[last].edits
        BY <2>3, <2>6, <3>3
      <4>2. \A n \in DOMAIN saves : IsLast(n, cell)' <=> IsLast(n, cell)
        BY <2>6, <4>1 DEF IsLast
      <4>3. overlay'[cell] = overlay[cell]
        BY <2>8, <3>3
      <4>4. ~IsLast(last, cell)'
        BY <4>1 DEF IsLast
      <4>5. (\E n \in DOMAIN saves' : cell \in DOMAIN saves'[n].edits) =>
                 \E n \in DOMAIN saves : cell \in DOMAIN saves[n].edits
        BY <2>6, <4>1
      <4>6. QED
        BY <2>6, <4>2, <4>3, <4>4, <4>5 DEF LastsPend
    <3>4. QED
      BY <3>2, <3>3
  <2>14. \A n \in DOMAIN saves' : SaveSound(saves'[n])
    <3>1. SaveSound(r)
      <4>1. Told(r) = {}
        BY <2>3, EmptyRows DEF Told
      <4>2. \A cell \in cells : cell[1] \in PartsIn(cells)
        BY DEF PartsIn
      <4>3. QED
        BY <2>3, <4>1, <4>2, EmptyRows DEF SaveSound
    <3>2. QED
      BY <2>6, <3>1
  <2>15. ASSUME ~excused' PROVE ListSound'
    <3>1. ~excused /\ UnderWay \cap PartsIn(cells) = {} /\ ListSound
      BY <2>2, <2>15
    <3>2. \A n \in DOMAIN saves : SaveParts(n)' = SaveParts(n)
      BY <2>6 DEF SaveParts
    <3>3. SaveParts(last)' = PartsIn(cells)
      BY <2>3, <2>6 DEF SaveParts
    <3>4. WorkParts' = WorkParts
      BY DEF WorkParts
    <3>5. \A n \in DOMAIN saves : SaveParts(n) \subseteq UnderWay
      BY DEF UnderWay
    <3>6. WorkParts \subseteq UnderWay
      BY DEF UnderWay
    <3>7. \A m, n \in DOMAIN saves' : m # n => SaveParts(m)' \cap SaveParts(n)' = {}
      BY <2>6, <3>1, <3>2, <3>3, <3>5 DEF ListSound
    <3>8. \A n \in DOMAIN saves' : SaveParts(n)' \cap WorkParts' = {}
      BY <2>6, <3>1, <3>2, <3>3, <3>4, <3>6 DEF ListSound
    <3>9. UnderWay \subseteq UnderWay'
      BY <2>6, <3>2, <3>4 DEF UnderWay
    <3>10. \A p_1 \in PartIds \ UnderWay' : InSync(p_1)'
      BY <3>1, <3>9 DEF ListSound, InSync
    <3>12. \A n \in DOMAIN saves' : saves'[n].stage # "done" => SaveCurrent(saves'[n], partsList', catalog')
      <4>1. PartsIn(cells) \in SUBSET PartIds
        BY <2>7, PartsInFacts
      <4>2. \A q \in PartsIn(cells) : partsList'[q] = catalog'[q]
        BY <3>1, <4>1 DEF ListSound, InSync
      <4>3. SaveCurrent(r, partsList', catalog')
        BY <2>3, <4>2, EmptyRows DEF SaveCurrent
      <4>4. \A n \in DOMAIN saves : saves'[n].stage # "done" => SaveCurrent(saves'[n], partsList', catalog')
        BY <2>6, <3>1 DEF ListSound
      <4>5. QED
        BY <2>6, <4>3, <4>4
    <3>13. work' # None => WorkCurrent'
      BY <3>1 DEF ListSound, WorkCurrent, InSync
    <3>14. QED
      BY <3>7, <3>8, <3>10, <3>12, <3>13 DEF ListSound
  <2>16. QED
    BY <2>11, <2>12, <2>13, <2>14, <2>15
<1>3. QED
  BY <1>1, <1>2

-----------------------------------------------------------------------------
(* The steps of a save.                                                    *)

\* What stays of the invariant when only the stage and the answers of a save change.
LEMMA SaveMoves ==
    ASSUME PartsInv, NEW n \in DOMAIN saves, NEW r \in SaveRecords,
           saves' = [saves EXCEPT ![n] = r], r.edits = saves[n].edits,
           saves[n].stage # "done", r.stage # "done",
           UNCHANGED <<unrendered, overlay>>
    PROVE  /\ saves' \in Seq(SaveRecords)
           /\ OverlaySound' /\ LastsPend'
           /\ DOMAIN saves' = DOMAIN saves /\ saves'[n] = r
           /\ \A k \in DOMAIN saves : k # n => saves'[k] = saves[k]
           /\ \A k \in DOMAIN saves : SaveParts(k)' = SaveParts(k)
<1>1. saves \in Seq(SaveRecords)
  BY DEF PartsInv, PartsTyped
<1>2. /\ saves' \in Seq(SaveRecords)
      /\ DOMAIN saves' = DOMAIN saves /\ saves'[n] = r
      /\ \A k \in DOMAIN saves : k # n => saves'[k] = saves[k]
  BY <1>1, ExceptSave
<1>3. \A k \in DOMAIN saves : saves'[k].edits = saves[k].edits /\ (saves'[k].stage = "done" <=> saves[k].stage = "done")
  BY <1>2
<1>4. \A k \in DOMAIN saves : SaveParts(k)' = SaveParts(k)
  BY <1>3 DEF SaveParts
<1>5. OverlaySound'
  BY <1>2, <1>3 DEF PartsInv, OverlaySound
<1>6. \A k \in DOMAIN saves : \A cell \in GridCells : IsLast(k, cell)' <=> IsLast(k, cell)
  BY <1>2, <1>3 DEF IsLast
<1>7. LastsPend'
  BY <1>2, <1>3, <1>6 DEF PartsInv, LastsPend
<1>8. QED
  BY <1>2, <1>4, <1>5, <1>7

\* A save is not touched by what happens to other parts.
LEMMA SaveStaysCurrent ==
    ASSUME NEW s \in SaveRecords, SaveSound(s), s.stage # "done",
           NEW listed, NEW stored, NEW listedThen, NEW storedThen, SaveCurrent(s, listed, stored),
           \A p \in PartsIn(DOMAIN s.edits) : listedThen[p] = listed[p] /\ storedThen[p] = stored[p]
    PROVE  SaveCurrent(s, listedThen, storedThen)
<1>1. DOMAIN s.answer \subseteq PartsIn(DOMAIN s.edits) /\ DOMAIN s.saved \subseteq PartsIn(DOMAIN s.edits)
  BY DEF SaveSound, Told
<1>2. QED
  BY <1>1 DEF SaveCurrent

\* A save under way is about some part.
LEMMA UnderWaySomewhere ==
    ASSUME PartsInv, NEW n \in DOMAIN saves, saves[n].stage # "done"
    PROVE  /\ saves[n] \in SaveRecords /\ SaveSound(saves[n])
           /\ SaveParts(n) = PartsIn(DOMAIN saves[n].edits)
           /\ SaveParts(n) \in SUBSET PartIds /\ SaveParts(n) # {} /\ SaveParts(n) \subseteq UnderWay
<1>1. saves[n] \in SaveRecords /\ SaveSound(saves[n])
  BY DEF PartsInv, PartsTyped
<1>2. saves[n].edits \in EditSets
  BY <1>1 DEF SaveRecords
<1>3. SaveParts(n) = PartsIn(DOMAIN saves[n].edits)
  BY DEF SaveParts
<1>4. SaveParts(n) \in SUBSET PartIds
  BY <1>2, <1>3, EditSetFacts, PartsInFacts
<1>5. SaveParts(n) # {}
  BY <1>1, <1>3 DEF SaveSound
<1>6. SaveParts(n) \subseteq UnderWay
  BY DEF UnderWay
<1>7. QED
  BY <1>1, <1>3, <1>4, <1>5, <1>6

LEMMA ServeSaveKeeps ==
    ASSUME PartsInv, NEW n \in DOMAIN saves, ServeSave(n)
    PROVE  PartsInv'
<1> DEFINE s == saves[n]
<1>1. /\ PartsTyped /\ saves \in Seq(SaveRecords) /\ catalog \in PartLists
      /\ s \in SaveRecords /\ SaveSound(s)
  BY DEF PartsInv, PartsTyped
<1>2. /\ s.stage = "asked"
      /\ UNCHANGED <<partsList, shownList, unrendered, overlay, cellErrors, cellEditor, activeEdit, work, works>>
  BY DEF ServeSave
<1>3. s.asked \in SUBSET PartIds /\ s.edits \in EditSets
  BY <1>1 DEF SaveRecords
\* One step served: the new answer, what becomes of the parts asked for and of the rest.
<1>4. \E rows \in RowSets :
         /\ saves' = [saves EXCEPT ![n] = [s EXCEPT !.stage = "answered", !.answer = rows]]
         /\ catalog' \in PartLists
         /\ \A p \in PartIds \ s.asked : catalog'[p] = catalog[p]
         /\ excused => excused'
         /\ \/ rows = << >> /\ catalog' = catalog
            \/ rows = << >> /\ excused'
            \/ /\ DOMAIN rows = s.asked
               /\ \A p \in s.asked : rows[p] = catalog'[p] /\ catalog[p] # Gone
  <2>1. CASE /\ ~Refuses(s.asked, s.edits)
             /\ catalog' = Taken(s.asked, s.edits)
             /\ saves' = [saves EXCEPT ![n] = [s EXCEPT !.stage = "answered", !.answer = [p \in s.asked |-> catalog'[p]]]]
             /\ UNCHANGED excused
    <3> DEFINE rows == [p \in s.asked |-> catalog'[p]]
    <3>1. catalog' \in PartLists /\ \A p \in PartIds \ s.asked : catalog'[p] = catalog[p]
      BY <1>1, <1>3, <2>1, TakenTyped
    <3>2. rows \in [s.asked -> GridRow \cup {Gone}]
      BY <1>3, <3>1 DEF PartLists
    <3>3. rows \in RowSets
      BY <1>3, <3>2, RowSetIntro
    <3>4. \A p \in s.asked : catalog[p] # Gone
      BY <2>1 DEF Refuses
    <3>5. DOMAIN rows = s.asked /\ \A p \in s.asked : rows[p] = catalog'[p]
      OBVIOUS
    <3>6. QED
      BY <2>1, <3>1, <3>3, <3>4, <3>5
  <2>2. CASE /\ Refuses(s.asked, s.edits)
             /\ saves' = [saves EXCEPT ![n] = [s EXCEPT !.stage = "answered", !.answer = << >>]]
             /\ UNCHANGED <<catalog, excused>>
    BY <1>1, <2>2, EmptyRows
  <2>3. CASE /\ ~Refuses(s.asked, s.edits)
             /\ catalog' = Taken(s.asked, s.edits)
             /\ saves' = [saves EXCEPT ![n] = [s EXCEPT !.stage = "answered", !.answer = << >>]]
             /\ excused' = TRUE
    <3>1. catalog' \in PartLists /\ \A p \in PartIds \ s.asked : catalog'[p] = catalog[p]
      BY <1>1, <1>3, <2>3, TakenTyped
    <3>2. QED
      BY <2>3, <3>1, EmptyRows
  <2>4. QED
    BY <2>1, <2>2, <2>3 DEF ServeSave
<1>5. PICK rows \in RowSets :
         /\ saves' = [saves EXCEPT ![n] = [s EXCEPT !.stage = "answered", !.answer = rows]]
         /\ catalog' \in PartLists
         /\ \A p \in PartIds \ s.asked : catalog'[p] = catalog[p]
         /\ excused => excused'
         /\ \/ rows = << >> /\ catalog' = catalog
            \/ rows = << >> /\ excused'
            \/ /\ DOMAIN rows = s.asked
               /\ \A p \in s.asked : rows[p] = catalog'[p] /\ catalog[p] # Gone
  BY <1>4
<1>6. PICK r \in SaveRecords :
         /\ saves' = [saves EXCEPT ![n] = r]
         /\ r.edits = s.edits /\ r.stage = "answered" /\ r.answer = rows /\ r.saved = s.saved
         /\ r.failed = s.failed /\ r.left = s.left /\ r.asked = s.asked
  <2> DEFINE e == [s EXCEPT !.stage = "answered", !.answer = rows]
  <2>1. /\ e \in SaveRecords
        /\ e.edits = s.edits /\ e.stage = "answered" /\ e.answer = rows /\ e.saved = s.saved
        /\ e.failed = s.failed /\ e.left = s.left /\ e.asked = s.asked
    BY <1>1, ServedSave
  <2>2. saves' = [saves EXCEPT ![n] = e]
    BY <1>5
  <2> HIDE DEF e
  <2>3. QED
    BY <2>1, <2>2
<1>7. /\ saves' \in Seq(SaveRecords)
      /\ OverlaySound' /\ LastsPend'
      /\ DOMAIN saves' = DOMAIN saves /\ saves'[n] = r
      /\ \A k \in DOMAIN saves : k # n => saves'[k] = saves[k]
      /\ \A k \in DOMAIN saves : SaveParts(k)' = SaveParts(k)
  BY <1>2, <1>6, SaveMoves
<1>8. PartsTyped'
  BY <1>1, <1>2, <1>5, <1>7 DEF PartsTyped
<1>9. SaveSound(r)
  <2>1. DOMAIN rows \subseteq s.asked /\ (rows = << >> \/ DOMAIN rows = s.asked)
    BY <1>5, EmptyRows
  <2>2. QED
    BY <1>1, <1>2, <1>6, <2>1 DEF SaveSound, Told
<1>10. \A k \in DOMAIN saves' : SaveSound(saves'[k])
  BY <1>7, <1>9 DEF PartsInv
<1>11. ASSUME ~excused' PROVE ListSound'
  <2>1. ~excused /\ ListSound
    BY <1>5, <1>11 DEF PartsInv
  <2>2. SaveParts(n) = PartsIn(DOMAIN s.edits) /\ s.asked \subseteq SaveParts(n)
    BY <1>1, <1>2 DEF SaveSound, SaveParts
  <2>3. WorkParts' = WorkParts /\ UnderWay' = UnderWay /\ SaveParts(n) \subseteq UnderWay
    BY <1>2, <1>7 DEF WorkParts, UnderWay
  <2>4. \A m, k \in DOMAIN saves' : m # k => SaveParts(m)' \cap SaveParts(k)' = {}
    BY <1>7, <2>1 DEF ListSound
  <2>5. \A k \in DOMAIN saves' : SaveParts(k)' \cap WorkParts' = {}
    BY <1>7, <2>1, <2>3 DEF ListSound
  <2>6. \A p \in PartIds \ UnderWay' : InSync(p)'
    <3>1. TAKE p \in PartIds \ UnderWay'
    <3>2. p \in PartIds \ UnderWay /\ p \notin s.asked
      BY <2>2, <2>3
    <3>3. InSync(p)
      BY <2>1, <3>2 DEF ListSound
    <3>4. QED
      BY <1>2, <1>5, <3>2, <3>3 DEF InSync
  <2>7. SaveCurrent(r, partsList', catalog')
    <3>1. SaveCurrent(s, partsList, catalog)
      BY <1>2, <2>1 DEF ListSound
    <3>2. DOMAIN s.answer \subseteq DOMAIN s.saved /\ s.asked \cap DOMAIN s.saved = {}
      BY <1>1, <1>2 DEF SaveSound
    <3>3. DOMAIN s.saved \subseteq PartIds /\ PartsIn(DOMAIN s.edits) \subseteq PartIds /\ DOMAIN s.saved \cap s.asked = {}
      <4>1. s.saved \in RowSets
        BY <1>1 DEF SaveRecords
      <4>2. QED
        BY <1>3, <3>2, <4>1, RowSetFacts, EditSetFacts, PartsInFacts
    <3>4. \A p \in DOMAIN r.saved : r.saved[p] = catalog'[p] /\ partsList'[p] # Gone
      BY <1>2, <1>5, <1>6, <3>1, <3>3 DEF SaveCurrent
    <3>5. \A p \in s.asked : partsList[p] = catalog[p]
      BY <2>2, <1>1, <1>2, <3>1, <3>2, <3>3 DEF SaveCurrent, Told, SaveSound
    <3>6. \A p \in DOMAIN r.answer : r.answer[p] = catalog'[p] /\ partsList'[p] # Gone
      BY <1>2, <1>5, <1>6, <3>5, EmptyRows
    <3>7. \A p \in PartsIn(DOMAIN r.edits) \ Told(r) : partsList'[p] = catalog'[p]
      <4>1. TAKE p \in PartsIn(DOMAIN r.edits) \ Told(r)
      <4>2. p \in PartsIn(DOMAIN s.edits) /\ p \notin DOMAIN s.saved /\ p \notin DOMAIN s.answer /\ p \notin DOMAIN rows
        BY <1>6, <3>2, <4>1 DEF Told
      <4>3. partsList[p] = catalog[p]
        BY <3>1, <4>2 DEF SaveCurrent, Told
      <4>4. catalog'[p] = catalog[p]
        BY <1>5, <1>11, <3>3, <4>2
      <4>5. QED
        BY <1>2, <4>3, <4>4
    <3>8. QED
      BY <3>4, <3>6, <3>7 DEF SaveCurrent
  <2>8. \A k \in DOMAIN saves : k # n /\ saves[k].stage # "done" => SaveCurrent(saves[k], partsList', catalog')
    <3>1. TAKE k \in DOMAIN saves
    <3>2. HAVE k # n /\ saves[k].stage # "done"
    <3>3. SaveCurrent(saves[k], partsList, catalog) /\ SaveSound(saves[k])
      BY <2>1, <3>2 DEF ListSound, PartsInv
    <3>4. SaveParts(k) = PartsIn(DOMAIN saves[k].edits) /\ SaveParts(k) \cap s.asked = {}
      BY <2>1, <2>2, <3>2 DEF ListSound, SaveParts
    <3>5. PartsIn(DOMAIN saves[k].edits) \subseteq PartIds
      <4>1. saves[k] \in SaveRecords /\ saves[k].edits \in EditSets
        <5>1. saves[k] \in SaveRecords
          BY <1>1
        <5>2. QED
          BY <5>1 DEF SaveRecords
      <4>2. QED
        BY <4>1, EditSetFacts, PartsInFacts
    <3>6. Told(saves[k]) \subseteq PartsIn(DOMAIN saves[k].edits)
      BY <3>2, <3>3 DEF SaveSound
    <3>7. \A p \in PartsIn(DOMAIN saves[k].edits) : catalog'[p] = catalog[p]
      BY <1>5, <3>4, <3>5
    <3>8. QED
      BY <1>2, <3>3, <3>6, <3>7 DEF SaveCurrent, Told
  <2>9. work' # None => WorkCurrent'
    <3>1. SUFFICES ASSUME work # None PROVE WorkCurrent'
      BY <1>2
    <3>2. WorkCurrent /\ s.asked \cap WorkParts = {}
      BY <2>1, <2>2, <3>1 DEF ListSound
    <3>3. CASE work.kind = "bulk_set"
      <4>1. WorkParts = work.ids /\ work.ids \in SUBSET PartIds
        <5>1. work \in AllWorks
          BY <1>1, <3>1 DEF PartsTyped
        <5>2. QED
          BY <3>1, <3>3, <5>1, WorkFacts DEF WorkParts
      <4>2. \A p \in work.ids : catalog'[p] = catalog[p]
        BY <1>5, <3>2, <4>1
      <4>3. QED
        BY <1>2, <3>2, <3>3, <4>2 DEF WorkCurrent, InSync
    <3>4. CASE work.kind # "bulk_set"
      BY <1>1, <1>2, <1>3, <2>2, <3>1, <3>2, <3>4 DEF WorkParts, SaveSound
    <3>5. QED
      BY <3>3, <3>4
  <2>10. \A k \in DOMAIN saves' : saves'[k].stage # "done" => SaveCurrent(saves'[k], partsList', catalog')
    BY <1>7, <2>7, <2>8
  <2>11. QED
    BY <2>4, <2>5, <2>6, <2>9, <2>10 DEF ListSound
<1>12. QED
  BY <1>2, <1>7, <1>8, <1>10, <1>11 DEF PartsInv

LEMMA SaveNextKeeps ==
    ASSUME PartsInv, NEW n \in DOMAIN saves, NEW p \in PartIds, SaveNext(n, p)
    PROVE  PartsInv'
<1> DEFINE s == saves[n]
           t == Collected(s)
<1>1. /\ PartsTyped /\ saves \in Seq(SaveRecords) /\ s \in SaveRecords /\ SaveSound(s)
  BY DEF PartsInv, PartsTyped
<1>2. /\ s.stage = "answered" /\ p \in s.left
      /\ saves' = [saves EXCEPT ![n] = Asked(t, p)]
      /\ UNCHANGED <<catalog, partsList, shownList, unrendered, overlay, cellErrors, cellEditor, activeEdit, work,
                     works, excused>>
  BY DEF SaveNext
<1>3. /\ t \in SaveRecords
      /\ t.edits = s.edits /\ t.bulk = s.bulk /\ t.left = s.left /\ t.asked = s.asked
      /\ t.stage = s.stage /\ t.answer = s.answer
      /\ DOMAIN t.saved = DOMAIN s.saved \cup DOMAIN s.answer
      /\ \A q \in DOMAIN t.saved : t.saved[q] = IF q \in DOMAIN s.answer THEN s.answer[q] ELSE s.saved[q]
      /\ t.failed = IF s.answer = << >> THEN s.failed \cup {cell \in DOMAIN s.edits : cell[1] \in s.asked}
                    ELSE s.failed
  BY <1>1, CollectedFacts
<1> HIDE DEF t
<1>4. PICK r \in SaveRecords :
         /\ saves' = [saves EXCEPT ![n] = r]
         /\ r.edits = s.edits /\ r.stage = "asked" /\ r.answer = s.answer /\ r.saved = t.saved
         /\ r.failed = t.failed
         /\ r.left \cup r.asked = s.left /\ r.left \cap r.asked = {} /\ r.asked # {}
  <2> DEFINE e == Asked(t, p)
  <2>1. /\ e \in SaveRecords
        /\ e.edits = t.edits /\ e.stage = "asked" /\ e.answer = t.answer /\ e.saved = t.saved
        /\ e.failed = t.failed
        /\ e.left \cup e.asked = t.left /\ e.left \cap e.asked = {} /\ e.asked # {}
    BY <1>2, <1>3, SaveUpdates
  <2>2. saves' = [saves EXCEPT ![n] = e]
    BY <1>2
  <2> HIDE DEF e
  <2>3. QED
    BY <1>3, <2>1, <2>2
<1>5. /\ saves' \in Seq(SaveRecords)
      /\ OverlaySound' /\ LastsPend'
      /\ DOMAIN saves' = DOMAIN saves /\ saves'[n] = r
      /\ \A k \in DOMAIN saves : k # n => saves'[k] = saves[k]
      /\ \A k \in DOMAIN saves : SaveParts(k)' = SaveParts(k)
  BY <1>2, <1>4, SaveMoves
<1>6. PartsTyped'
  BY <1>1, <1>2, <1>5 DEF PartsTyped
<1>7. SaveSound(r)
  <2>1. /\ s.left \cup s.asked \cup Told(s) \subseteq PartsIn(DOMAIN s.edits)
        /\ s.left \cap s.asked = {} /\ s.left \cap Told(s) = {}
        /\ s.answer = << >> \/ DOMAIN s.answer = s.asked
        /\ \A cell \in DOMAIN s.edits : cell \in s.failed \/ cell[1] \in s.left \cup s.asked \cup DOMAIN s.saved
    BY <1>1, <1>2 DEF SaveSound
  <2>2. Told(r) = Told(s) /\ DOMAIN r.saved = Told(s)
    BY <1>3, <1>4 DEF Told
  <2>3. \A cell \in DOMAIN s.edits : cell \in t.failed \/ cell[1] \in s.left \cup DOMAIN t.saved
    BY <1>3, <2>1
  <2>4. DOMAIN r.answer \subseteq DOMAIN r.saved
    BY <1>3, <1>4
  <2>5. QED
    BY <1>4, <2>1, <2>2, <2>3, <2>4 DEF SaveSound
<1>8. \A k \in DOMAIN saves' : SaveSound(saves'[k])
  BY <1>5, <1>7 DEF PartsInv
<1>9. ASSUME ~excused' PROVE ListSound'
  <2>1. ListSound
    BY <1>2, <1>9 DEF PartsInv
  <2>2. WorkParts' = WorkParts /\ UnderWay' = UnderWay
    BY <1>2, <1>5 DEF WorkParts, UnderWay
  <2>3. SaveCurrent(r, partsList, catalog)
    <3>1. SaveCurrent(s, partsList, catalog)
      BY <1>2, <2>1 DEF ListSound
    <3>2. Told(r) = Told(s)
      BY <1>3, <1>4 DEF Told
    <3>3. QED
      BY <1>3, <1>4, <3>1, <3>2 DEF SaveCurrent
  <2>4. QED
    BY <1>2, <1>5, <2>1, <2>2, <2>3 DEF ListSound, InSync, WorkCurrent
<1>10. QED
  BY <1>2, <1>5, <1>6, <1>8, <1>9 DEF PartsInv

\* What a merge makes of the list, and that it shows with the next render.
LEMMA MergeFacts ==
    ASSUME PartsTyped, ~unrendered => shownList = partsList, NEW saved \in RowSets, MergeParts(saved)
    PROVE  /\ partsList' \in PartLists
           /\ excused => excused'
           /\ unrendered => unrendered'
           /\ DOMAIN saved # {} => unrendered' = TRUE
           /\ ~unrendered' => partsList' = partsList
           /\ ~excused' => \A p \in PartIds : partsList'[p] = IF p \in DOMAIN saved /\ partsList[p] # Gone THEN saved[p]
                                                              ELSE partsList[p]
<1>1. CASE DOMAIN saved = {}
  BY <1>1 DEF MergeParts, PartsTyped
<1>2. CASE DOMAIN saved # {}
  <2>1. partsList' = Merged(saved) /\ unrendered' = TRUE /\ excused' = (excused \/ unrendered)
    BY <1>2 DEF MergeParts
  <2>2. shownList \in PartLists
    BY DEF PartsTyped
  <2>3. \A p \in DOMAIN saved : saved[p] \in GridRow \cup {Gone}
    BY RowSetFacts
  <2>4. Merged(saved) \in PartLists
    BY <2>2, <2>3 DEF Merged, PartLists
  <2>5. \A p \in PartIds : Merged(saved)[p] = IF p \in DOMAIN saved /\ shownList[p] # Gone THEN saved[p] ELSE shownList[p]
    BY DEF Merged
  <2>6. QED
    BY <2>1, <2>4, <2>5
<1>3. QED
  BY <1>1, <1>2

LEMMA SettledFacts ==
    ASSUME PartsTyped, NEW n \in DOMAIN saves, NEW s \in SaveRecords
    PROVE  /\ Settled(n, s) \in [GridCells -> OverlayEntries \cup {None}]
           /\ \A cell \in GridCells :
                \/ Settled(n, s)[cell] = None
                \/ Settled(n, s)[cell] = overlay[cell] /\ (cell \notin DOMAIN s.edits \/ overlay[cell].token # n)
                \/ /\ cell \in DOMAIN s.edits /\ cell \notin s.failed
                   /\ Settled(n, s)[cell].status = "committed" /\ Settled(n, s)[cell].fresh = TRUE
           /\ \A cell \in GridCells :
                overlay[cell] # None /\ overlay[cell].status = "pending" /\ overlay[cell].token # n =>
                    Settled(n, s)[cell] = overlay[cell]
<1>1. \A cell \in GridCells : overlay[cell] # None => overlay[cell] \in OverlayEntries
  BY DEF PartsTyped
<1>2. \A cell \in GridCells : overlay[cell] # None =>
         /\ [overlay[cell] EXCEPT !.status = "committed", !.fresh = TRUE] \in OverlayEntries
         /\ [overlay[cell] EXCEPT !.status = "committed", !.fresh = TRUE].status = "committed"
         /\ [overlay[cell] EXCEPT !.status = "committed", !.fresh = TRUE].fresh = TRUE
  BY <1>1 DEF OverlayEntries
<1>3. \A cell \in GridCells : Settled(n, s)[cell] =
        IF cell \in DOMAIN s.edits /\ OwnsEntry(n, cell)
        THEN IF cell \in s.failed THEN None
             ELSE [overlay[cell] EXCEPT !.status = "committed", !.fresh = TRUE]
        ELSE IF overlay[cell] # None /\ overlay[cell].status = "committed" /\ ~overlay[cell].fresh
             THEN None
        ELSE overlay[cell]
  BY DEF Settled
<1>4. Settled(n, s) = [cell \in GridCells |-> Settled(n, s)[cell]]
  BY DEF Settled
<1>5. \A cell \in GridCells : Settled(n, s)[cell] \in OverlayEntries \cup {None}
  BY <1>1, <1>2, <1>3 DEF OwnsEntry
<1>6. Settled(n, s) \in [GridCells -> OverlayEntries \cup {None}]
  BY <1>4, <1>5
<1>7. \A cell \in GridCells :
         \/ Settled(n, s)[cell] = None
         \/ Settled(n, s)[cell] = overlay[cell] /\ (cell \notin DOMAIN s.edits \/ overlay[cell].token # n)
         \/ /\ cell \in DOMAIN s.edits /\ cell \notin s.failed
            /\ Settled(n, s)[cell].status = "committed" /\ Settled(n, s)[cell].fresh = TRUE
  BY <1>2, <1>3 DEF OwnsEntry
<1>8. \A cell \in GridCells :
         overlay[cell] # None /\ overlay[cell].status = "pending" /\ overlay[cell].token # n =>
             Settled(n, s)[cell] = overlay[cell]
  BY <1>3 DEF OwnsEntry
<1>9. QED
  BY <1>6, <1>7, <1>8

LEMMA SaveDoneKeeps ==
    ASSUME PartsInv, NEW n \in DOMAIN saves, SaveDone(n)
    PROVE  PartsInv'
<1> DEFINE s == saves[n]
           t == Collected(s)
<1>1. /\ PartsTyped /\ saves \in Seq(SaveRecords) /\ s \in SaveRecords /\ SaveSound(s)
      /\ ~unrendered => shownList = partsList
  BY DEF PartsInv, PartsTyped
<1>2. /\ s.stage = "answered" /\ s.left = {}
      /\ MergeParts(t.saved)
      /\ overlay' = Settled(n, t)
      /\ saves' = [saves EXCEPT ![n] = [t EXCEPT !.stage = "done", !.saved = << >>, !.answer = << >>, !.asked = {}]]
      /\ UNCHANGED <<catalog, shownList, cellEditor, activeEdit, work, works>>
  BY DEF SaveDone
<1>3. /\ t \in SaveRecords
      /\ t.edits = s.edits
      /\ DOMAIN t.saved = DOMAIN s.saved \cup DOMAIN s.answer
      /\ \A q \in DOMAIN t.saved : t.saved[q] = IF q \in DOMAIN s.answer THEN s.answer[q] ELSE s.saved[q]
      /\ t.failed = IF s.answer = << >> THEN s.failed \cup {cell \in DOMAIN s.edits : cell[1] \in s.asked}
                    ELSE s.failed
  BY <1>1, CollectedFacts
<1> HIDE DEF t
<1>4. t.saved \in RowSets
  BY <1>3 DEF SaveRecords
<1>5. PICK r \in SaveRecords : saves' = [saves EXCEPT ![n] = r] /\ r.edits = s.edits /\ r.stage = "done"
  <2> DEFINE e == [t EXCEPT !.stage = "done", !.saved = << >>, !.answer = << >>, !.asked = {}]
  <2>1. e \in SaveRecords /\ e.edits = t.edits /\ e.stage = "done"
    BY <1>3, DoneSave
  <2>2. saves' = [saves EXCEPT ![n] = e]
    BY <1>2
  <2> HIDE DEF e
  <2>3. QED
    BY <1>3, <2>1, <2>2
<1>6. /\ saves' \in Seq(SaveRecords)
      /\ DOMAIN saves' = DOMAIN saves /\ saves'[n] = r
      /\ \A k \in DOMAIN saves : k # n => saves'[k] = saves[k]
  BY <1>1, <1>5, ExceptSave
<1>7. /\ partsList' \in PartLists
      /\ excused => excused'
      /\ unrendered => unrendered'
      /\ DOMAIN t.saved # {} => unrendered' = TRUE
      /\ ~unrendered' => partsList' = partsList
      /\ ~excused' => \A p \in PartIds : partsList'[p] = IF p \in DOMAIN t.saved /\ partsList[p] # Gone THEN t.saved[p]
                                                         ELSE partsList[p]
  BY <1>1, <1>2, <1>4, MergeFacts
<1>8. /\ overlay' \in [GridCells -> OverlayEntries \cup {None}]
      /\ \A cell \in GridCells :
           \/ overlay'[cell] = None
           \/ overlay'[cell] = overlay[cell] /\ (cell \notin DOMAIN s.edits \/ overlay[cell].token # n)
           \/ /\ cell \in DOMAIN s.edits /\ cell \notin t.failed
              /\ overlay'[cell].status = "committed" /\ overlay'[cell].fresh = TRUE
      /\ \A cell \in GridCells :
           overlay[cell] # None /\ overlay[cell].status = "pending" /\ overlay[cell].token # n =>
               overlay'[cell] = overlay[cell]
  <2>1. PICK u \in SaveRecords : u = t
    BY <1>3
  <2>2. /\ Settled(n, u) \in [GridCells -> OverlayEntries \cup {None}]
        /\ \A cell \in GridCells :
             \/ Settled(n, u)[cell] = None
             \/ Settled(n, u)[cell] = overlay[cell] /\ (cell \notin DOMAIN u.edits \/ overlay[cell].token # n)
             \/ /\ cell \in DOMAIN u.edits /\ cell \notin u.failed
                /\ Settled(n, u)[cell].status = "committed" /\ Settled(n, u)[cell].fresh = TRUE
        /\ \A cell \in GridCells :
             overlay[cell] # None /\ overlay[cell].status = "pending" /\ overlay[cell].token # n =>
                 Settled(n, u)[cell] = overlay[cell]
    BY <1>1, SettledFacts
  <2>3. overlay' = Settled(n, u)
    BY <1>2, <2>1
  <2>4. QED
    BY <1>3, <2>1, <2>2, <2>3
<1>9. PartsTyped'
  BY <1>1, <1>2, <1>6, <1>7, <1>8 DEF PartsTyped
<1>10. \A cell \in DOMAIN s.edits : cell \notin t.failed => cell[1] \in DOMAIN t.saved
  BY <1>1, <1>2, <1>3 DEF SaveSound
<1>11. OverlaySound'
  <2>1. SUFFICES ASSUME NEW cell \in GridCells, overlay'[cell] # None
                 PROVE  /\ overlay'[cell].fresh = TRUE => unrendered'
                        /\ overlay'[cell].status = "pending" =>
                               /\ overlay'[cell].token \in DOMAIN saves'
                               /\ saves'[overlay'[cell].token].stage # "done"
                               /\ cell \in DOMAIN saves'[overlay'[cell].token].edits
    BY DEF OverlaySound
  <2>2. CASE overlay'[cell] = overlay[cell] /\ (cell \notin DOMAIN s.edits \/ overlay[cell].token # n)
    BY <1>6, <1>7, <2>1, <2>2 DEF PartsInv, OverlaySound
  <2>3. CASE /\ cell \in DOMAIN s.edits /\ cell \notin t.failed
             /\ overlay'[cell].status = "committed" /\ overlay'[cell].fresh = TRUE
    BY <1>7, <1>10, <2>3
  <2>4. QED
    BY <1>8, <2>1, <2>2, <2>3
<1>12. LastsPend'
  <2>1. \A k \in DOMAIN saves : saves'[k].edits = saves[k].edits
    BY <1>5, <1>6
  <2>2. \A k \in DOMAIN saves : \A cell \in GridCells : IsLast(k, cell)' <=> IsLast(k, cell)
    BY <1>6, <2>1 DEF IsLast
  <2>3. \A cell \in GridCells : \A k \in DOMAIN saves : IsLast(k, cell)' /\ saves'[k].stage # "done" =>
             /\ overlay'[cell] # None
             /\ overlay'[cell].status = "pending" /\ overlay'[cell].token = k
             /\ overlay'[cell].value = saves'[k].edits[cell]
    <3>1. TAKE cell \in GridCells
    <3>2. TAKE k \in DOMAIN saves
    <3>3. HAVE IsLast(k, cell)' /\ saves'[k].stage # "done"
    <3>4. k # n /\ IsLast(k, cell) /\ saves[k].stage # "done"
      BY <1>5, <1>6, <2>2, <3>3
    <3>5. /\ overlay[cell] # None
          /\ overlay[cell].status = "pending" /\ overlay[cell].token = k
          /\ overlay[cell].value = saves[k].edits[cell]
      BY <3>4 DEF PartsInv, LastsPend
    <3>6. QED
      BY <1>8, <2>1, <3>4, <3>5
  <2>4. \A cell \in GridCells : (\E k \in DOMAIN saves' : cell \in DOMAIN saves'[k].edits) =>
             \E k \in DOMAIN saves' : IsLast(k, cell)'
    BY <1>6, <2>1, <2>2 DEF PartsInv, LastsPend
  <2>5. QED
    BY <1>6, <2>3, <2>4 DEF LastsPend, IsLast
<1>13. \A k \in DOMAIN saves' : SaveSound(saves'[k])
  BY <1>5, <1>6 DEF PartsInv, SaveSound
<1>14. ASSUME ~excused' PROVE ListSound'
  <2>1. ~excused /\ ListSound
    BY <1>7, <1>14 DEF PartsInv
  <2>2. /\ SaveParts(n) = PartsIn(DOMAIN s.edits) /\ SaveParts(n) \in SUBSET PartIds
        /\ SaveParts(n) # {} /\ SaveParts(n) \subseteq UnderWay
    BY <1>2, UnderWaySomewhere
  <2>3. SaveParts(n)' = {} /\ \A k \in DOMAIN saves : k # n => SaveParts(k)' = SaveParts(k)
    BY <1>5, <1>6 DEF SaveParts
  <2>4. WorkParts' = WorkParts
    BY <1>2 DEF WorkParts
  <2>5. UnderWay \subseteq UnderWay' \cup SaveParts(n)
    BY <1>6, <2>3, <2>4 DEF UnderWay
  <2>6. DOMAIN t.saved \subseteq SaveParts(n)
    BY <1>1, <1>2, <1>3, <2>2 DEF SaveSound, Told
  <2>7. SaveCurrent(s, partsList, catalog)
    BY <1>2, <2>1 DEF ListSound
  <2>8. \A p \in SaveParts(n) : partsList'[p] = catalog'[p]
    <3>1. TAKE p \in SaveParts(n)
    <3>2. CASE p \in DOMAIN t.saved
      <4>1. t.saved[p] = catalog[p] /\ partsList[p] # Gone
        BY <1>3, <2>7, <3>2 DEF SaveCurrent
      <4>2. QED
        BY <1>2, <1>7, <1>14, <2>2, <3>2, <4>1
    <3>3. CASE p \notin DOMAIN t.saved
      <4>1. partsList[p] = catalog[p]
        BY <1>3, <2>2, <2>7, <3>3 DEF SaveCurrent, Told
      <4>2. QED
        BY <1>2, <1>7, <1>14, <2>2, <3>3, <4>1
    <3>4. QED
      BY <3>2, <3>3
  <2>9. \A p \in PartIds \ SaveParts(n) : partsList'[p] = partsList[p]
    BY <1>7, <1>14, <2>6
  <2>10. \A p \in PartIds \ UnderWay' : InSync(p)'
    <3>1. TAKE p \in PartIds \ UnderWay'
    <3>2. CASE p \in SaveParts(n)
      BY <2>8, <3>2 DEF InSync
    <3>3. CASE p \notin SaveParts(n)
      <4>1. InSync(p)
        BY <2>1, <2>5, <3>3 DEF ListSound
      <4>2. QED
        BY <1>2, <2>9, <3>3, <4>1 DEF InSync
    <3>4. QED
      BY <3>2, <3>3
  <2>11. \A k \in DOMAIN saves' : saves'[k].stage # "done" => SaveCurrent(saves'[k], partsList', catalog')
    <3>1. TAKE k \in DOMAIN saves'
    <3>2. HAVE saves'[k].stage # "done"
    <3>3. k \in DOMAIN saves /\ k # n /\ saves'[k] = saves[k] /\ saves[k].stage # "done"
      BY <1>5, <1>6, <3>2
    <3>4. /\ saves[k] \in SaveRecords /\ SaveSound(saves[k])
          /\ SaveParts(k) = PartsIn(DOMAIN saves[k].edits) /\ SaveParts(k) \in SUBSET PartIds
      BY <3>3, UnderWaySomewhere
    <3>5. SaveParts(k) \cap SaveParts(n) = {} /\ SaveCurrent(saves[k], partsList, catalog)
      BY <2>1, <3>3 DEF ListSound
    <3>6. \A p \in PartsIn(DOMAIN saves[k].edits) : partsList'[p] = partsList[p] /\ catalog'[p] = catalog[p]
      BY <1>2, <2>9, <3>4, <3>5
    <3>7. SaveCurrent(saves[k], partsList', catalog')
      BY <3>3, <3>4, <3>5, <3>6, SaveStaysCurrent
    <3>8. QED
      BY <3>3, <3>7
  <2>12. ASSUME work # None PROVE WorkCurrent'
    <3>1. WorkCurrent /\ SaveParts(n) \cap WorkParts = {}
      BY <2>1, <2>12 DEF ListSound
    <3>2. work \in AllWorks
      BY <1>1, <2>12 DEF PartsTyped
    <3>3. work.kind = "bulk_set"
      BY <2>2, <2>12, <3>1 DEF WorkParts
    <3>4. work.ids \in SUBSET PartIds /\ work.ids \cap SaveParts(n) = {}
      BY <2>12, <3>1, <3>2, <3>3, WorkFacts DEF WorkParts
    <3>5. \A p \in work.ids : partsList'[p] = partsList[p]
      BY <2>9, <3>4
    <3>6. QED
      BY <1>2, <3>1, <3>3, <3>5 DEF WorkCurrent, InSync
  <2>13. \A m, k \in DOMAIN saves' : m # k => SaveParts(m)' \cap SaveParts(k)' = {}
    BY <1>6, <2>1, <2>3 DEF ListSound
  <2>14. \A k \in DOMAIN saves' : SaveParts(k)' \cap WorkParts' = {}
    BY <1>6, <2>1, <2>3, <2>4 DEF ListSound
  <2>15. QED
    BY <1>2, <2>10, <2>11, <2>12, <2>13, <2>14 DEF ListSound
<1>15. ~unrendered' => shownList' = partsList'
  BY <1>1, <1>2, <1>7
<1>16. QED
  BY <1>2, <1>9, <1>11, <1>12, <1>13, <1>14, <1>15 DEF PartsInv

-----------------------------------------------------------------------------
(* The other steps.                                                        *)

\* What a step that leaves the saves alone keeps of the invariant.
LEMMA SavesUnmoved ==
    ASSUME PartsInv, UNCHANGED <<saves, overlay>>, unrendered => unrendered'
    PROVE  /\ OverlaySound' /\ LastsPend'
           /\ \A n \in DOMAIN saves' : SaveSound(saves'[n])
           /\ \A n \in DOMAIN saves : SaveParts(n)' = SaveParts(n)
           /\ DOMAIN saves' = DOMAIN saves
<1>1. OverlaySound'
  BY DEF PartsInv, OverlaySound
<1>2. LastsPend'
  BY DEF PartsInv, LastsPend, IsLast
<1>3. \A n \in DOMAIN saves : SaveParts(n)' = SaveParts(n)
  BY DEF SaveParts
<1>4. QED
  BY <1>1, <1>2, <1>3 DEF PartsInv

LEMMA EditorKeeps ==
    ASSUME PartsInv,
           UNCHANGED <<catalog, partsList, shownList, unrendered, overlay, saves, work, excused>>,
           cellEditor' \in CellEditors \cup {None}, activeEdit' \in Nat
    PROVE  PartsInv'
<1>1. PartsTyped'
  BY DEF PartsInv, PartsTyped
<1>2. /\ OverlaySound' /\ LastsPend'
      /\ \A n \in DOMAIN saves' : SaveSound(saves'[n])
      /\ \A n \in DOMAIN saves : SaveParts(n)' = SaveParts(n)
  BY SavesUnmoved
<1>3. WorkParts' = WorkParts /\ UnderWay' = UnderWay
  BY <1>2 DEF WorkParts, UnderWay
<1>4. ~excused' => ListSound'
  BY <1>2, <1>3 DEF PartsInv, ListSound, InSync, WorkCurrent
<1>5. QED
  BY <1>1, <1>2, <1>4 DEF PartsInv

LEMMA RenderKeeps ==
    ASSUME PartsInv, Render
    PROVE  PartsInv'
<1>1. /\ shownList' = partsList /\ unrendered' = FALSE
      /\ overlay' = IF ~unrendered THEN overlay
                    ELSE [cell \in GridCells |-> IF overlay[cell] = None THEN None
                                                 ELSE [overlay[cell] EXCEPT !.fresh = FALSE]]
      /\ cellEditor' = IF cellEditor # None /\ ~cellEditor.open THEN None ELSE cellEditor
      /\ UNCHANGED <<catalog, partsList, cellErrors, activeEdit, saves, work, works, excused>>
  BY DEF Render
<1>2. overlay \in [GridCells -> OverlayEntries \cup {None}]
  BY DEF PartsInv, PartsTyped
<1>3. \A e \in OverlayEntries : /\ [e EXCEPT !.fresh = FALSE] \in OverlayEntries
                                /\ [e EXCEPT !.fresh = FALSE].fresh # TRUE
                                /\ [e EXCEPT !.fresh = FALSE].status = e.status
                                /\ [e EXCEPT !.fresh = FALSE].token = e.token
                                /\ [e EXCEPT !.fresh = FALSE].value = e.value
  BY DEF OverlayEntries
<1>4. /\ overlay' \in [GridCells -> OverlayEntries \cup {None}]
      /\ \A cell \in GridCells :
           /\ overlay[cell] = None => overlay'[cell] = None
           /\ overlay[cell] # None => /\ overlay'[cell] # None
                                      /\ overlay'[cell].fresh # TRUE
                                      /\ overlay'[cell].status = overlay[cell].status
                                      /\ overlay'[cell].token = overlay[cell].token
                                      /\ overlay'[cell].value = overlay[cell].value
  <2>1. CASE ~unrendered
    <3>1. overlay' = overlay
      BY <1>1, <2>1
    <3>2. \A cell \in GridCells : overlay[cell] # None => overlay[cell].fresh # TRUE
      BY <2>1 DEF PartsInv, OverlaySound
    <3>3. QED
      BY <1>2, <3>1, <3>2
  <2>2. CASE unrendered
    <3>1. overlay' = [cell \in GridCells |-> IF overlay[cell] = None THEN None ELSE [overlay[cell] EXCEPT !.fresh = FALSE]]
      BY <1>1, <2>2
    <3>2. \A cell \in GridCells : overlay[cell] # None => overlay[cell] \in OverlayEntries
      BY <1>2
    <3>3. \A cell \in GridCells : overlay[cell] # None =>
             /\ overlay'[cell] = [overlay[cell] EXCEPT !.fresh = FALSE]
             /\ overlay'[cell] \in OverlayEntries
             /\ overlay'[cell].fresh # TRUE
             /\ overlay'[cell].status = overlay[cell].status
             /\ overlay'[cell].token = overlay[cell].token
             /\ overlay'[cell].value = overlay[cell].value
      BY <1>3, <3>1, <3>2
    <3>4. \A cell \in GridCells : overlay[cell] = None => overlay'[cell] = None
      BY <3>1
    <3>5. \A cell \in GridCells : overlay[cell] # None => overlay'[cell] # None
      BY <3>3, EntryIsNotNone
    <3>6. overlay' \in [GridCells -> OverlayEntries \cup {None}]
      BY <3>1, <3>3, <3>4
    <3>7. QED
      BY <3>3, <3>4, <3>5, <3>6
  <2>3. QED
    BY <2>1, <2>2
<1>5. cellEditor' \in CellEditors \cup {None}
  BY <1>1 DEF PartsInv, PartsTyped
<1>6. PartsTyped'
  BY <1>1, <1>4, <1>5 DEF PartsInv, PartsTyped
<1>7. OverlaySound'
  BY <1>1, <1>4 DEF PartsInv, OverlaySound
<1>8. LastsPend'
  <2>1. \A n \in DOMAIN saves : \A cell \in GridCells : IsLast(n, cell)' <=> IsLast(n, cell)
    BY <1>1 DEF IsLast
  <2>2. LastsPend
    BY DEF PartsInv
  <2>3. \A cell \in GridCells : \A n \in DOMAIN saves' : IsLast(n, cell)' /\ saves'[n].stage # "done" =>
             /\ overlay'[cell] # None
             /\ overlay'[cell].status = "pending" /\ overlay'[cell].token = n
             /\ overlay'[cell].value = saves'[n].edits[cell]
    <3>1. TAKE cell \in GridCells
    <3>2. TAKE n \in DOMAIN saves'
    <3>3. HAVE IsLast(n, cell)' /\ saves'[n].stage # "done"
    <3>4. n \in DOMAIN saves /\ IsLast(n, cell) /\ saves[n].stage # "done" /\ saves' = saves
      BY <1>1, <2>1, <3>3
    <3>5. /\ overlay[cell] # None
          /\ overlay[cell].status = "pending" /\ overlay[cell].token = n
          /\ overlay[cell].value = saves[n].edits[cell]
      BY <2>2, <3>4 DEF LastsPend
    <3>6. QED
      BY <1>4, <3>4, <3>5
  <2>4. \A cell \in GridCells : (\E n \in DOMAIN saves' : cell \in DOMAIN saves'[n].edits) =>
             \E n \in DOMAIN saves' : IsLast(n, cell)'
    BY <1>1, <2>1, <2>2 DEF LastsPend
  <2>5. QED
    BY <2>3, <2>4 DEF LastsPend, IsLast
<1>9. WorkParts' = WorkParts /\ UnderWay' = UnderWay /\ \A n \in DOMAIN saves : SaveParts(n)' = SaveParts(n)
  BY <1>1 DEF WorkParts, UnderWay, SaveParts
<1>10. ~excused' => ListSound'
  BY <1>1, <1>9 DEF PartsInv, ListSound, InSync, WorkCurrent
<1>11. QED
  BY <1>1, <1>6, <1>7, <1>8, <1>10 DEF PartsInv

LEMMA StartWorkKeeps ==
    ASSUME PartsInv, NEW kind \in {"bulk_set", "delete", "update", "create"}, NEW ids \in SUBSET PartIds,
           NEW edits \in EditSets, StartWork(kind, ids, edits)
    PROVE  PartsInv'
<1> DEFINE parts == IF kind = "bulk_set" THEN ids ELSE PartIds
<1>1. /\ work = None
      /\ work' = [kind |-> kind, ids |-> ids, edits |-> edits, stage |-> "asked", answer |-> << >>]
      /\ excused' = (excused \/ UnderWay \cap parts # {})
      /\ UNCHANGED <<catalog, partsList, shownList, unrendered, overlay, cellErrors, cellEditor, activeEdit, saves>>
  BY DEF StartWork
<1>2. PICK w \in AllWorks : /\ work' = w /\ w.kind = kind /\ w.ids = ids /\ w.stage = "asked"
  <2> DEFINE w == [kind |-> kind, ids |-> ids, edits |-> edits, stage |-> "asked", answer |-> << >>]
  <2>1. PICK cells \in SUBSET GridCells : edits \in Edits(cells)
    BY DEF EditSets
  <2>2. << >> \in PartRows({})
    BY DEF PartRows
  <2>3. w \in Works(cells, {})
    BY <2>1, <2>2 DEF Works
  <2>4. w \in AllWorks
    BY <2>3 DEF AllWorks
  <2>5. QED
    BY <1>1, <2>4
<1>3. PartsTyped'
  BY <1>1, <1>2 DEF PartsInv, PartsTyped
<1>4. /\ OverlaySound' /\ LastsPend'
      /\ \A n \in DOMAIN saves' : SaveSound(saves'[n])
      /\ \A n \in DOMAIN saves : SaveParts(n)' = SaveParts(n)
      /\ DOMAIN saves' = DOMAIN saves
  BY <1>1, SavesUnmoved
<1>5. ASSUME ~excused' PROVE ListSound'
  <2>1. ListSound /\ UnderWay \cap parts = {}
    BY <1>1, <1>5 DEF PartsInv
  <2>2. WorkParts' = parts /\ WorkParts = {}
    BY <1>1, <1>2, WorkFacts DEF WorkParts
  <2>3. UnderWay \subseteq UnderWay'
    BY <1>4, <2>2 DEF UnderWay
  <2>4. \A n \in DOMAIN saves : SaveParts(n) \subseteq UnderWay
    BY DEF UnderWay
  <2>5. \A n \in DOMAIN saves' : SaveParts(n)' \cap WorkParts' = {}
    BY <1>4, <2>1, <2>2, <2>4
  <2>6. \A p \in PartIds \ UnderWay' : InSync(p)'
    BY <1>1, <2>1, <2>3 DEF ListSound, InSync
  <2>7. \A p \in parts : InSync(p)
    BY <2>1 DEF ListSound
  <2>8. WorkCurrent'
    BY <1>1, <1>2, <2>7 DEF WorkCurrent, InSync
  <2>9. QED
    BY <1>1, <1>4, <2>1, <2>5, <2>6, <2>8 DEF ListSound
<1>6. work'.stage # "reload"
  BY <1>2
<1>7. QED
  BY <1>1, <1>3, <1>4, <1>5, <1>6 DEF PartsInv

\* Every work but a bulk edit is about all parts: no save is under way beside it.
LEMMA WorkAlone ==
    ASSUME PartsInv, ~excused, work # None, work.kind # "bulk_set"
    PROVE  \A n \in DOMAIN saves : saves[n].stage = "done"
<1>1. WorkParts = PartIds
  BY DEF WorkParts
<1>2. \A n \in DOMAIN saves : SaveParts(n) \cap WorkParts = {}
  BY DEF PartsInv, ListSound
<1>3. SUFFICES ASSUME NEW n \in DOMAIN saves, saves[n].stage # "done" PROVE FALSE
  OBVIOUS
<1>4. SaveParts(n) \in SUBSET PartIds /\ SaveParts(n) # {}
  BY <1>3, UnderWaySomewhere
<1>5. QED
  BY <1>1, <1>2, <1>4

\* What a step of the work leaves true of the saves: it moves no part of one under way.
LEMMA WorkMoves ==
    ASSUME PartsInv, ~excused, work # None,
           UNCHANGED saves, WorkParts' \subseteq WorkParts,
           \A p \in PartIds \ WorkParts : partsList'[p] = partsList[p] /\ catalog'[p] = catalog[p],
           \A p \in WorkParts \ WorkParts' : InSync(p)',
           work' # None => WorkCurrent'
    PROVE  ListSound'
<1>1. ListSound
  BY DEF PartsInv
<1>2. \A n \in DOMAIN saves : SaveParts(n)' = SaveParts(n)
  BY DEF SaveParts
<1>3. \A m, n \in DOMAIN saves' : m # n => SaveParts(m)' \cap SaveParts(n)' = {}
  BY <1>1, <1>2 DEF ListSound
<1>4. \A n \in DOMAIN saves' : SaveParts(n)' \cap WorkParts' = {}
  BY <1>1, <1>2 DEF ListSound
<1>5. \A p \in PartIds \ UnderWay' : InSync(p)'
  <2>1. TAKE p \in PartIds \ UnderWay'
  <2>2. CASE p \in WorkParts
    <3>1. p \notin WorkParts'
      BY DEF UnderWay
    <3>2. QED
      BY <2>2, <3>1
  <2>3. CASE p \notin WorkParts
    <3>1. p \notin UnderWay
      BY <1>2, <2>3 DEF UnderWay
    <3>2. InSync(p)
      BY <1>1, <3>1 DEF ListSound
    <3>3. QED
      BY <2>3, <3>2 DEF InSync
  <2>4. QED
    BY <2>2, <2>3
<1>6. \A n \in DOMAIN saves' : saves'[n].stage # "done" => SaveCurrent(saves'[n], partsList', catalog')
  <2>1. TAKE n \in DOMAIN saves'
  <2>2. HAVE saves'[n].stage # "done"
  <2>3. n \in DOMAIN saves /\ saves'[n] = saves[n] /\ saves[n].stage # "done"
    BY <2>2
  <2>4. /\ saves[n] \in SaveRecords /\ SaveSound(saves[n])
        /\ SaveParts(n) = PartsIn(DOMAIN saves[n].edits) /\ SaveParts(n) \in SUBSET PartIds
    BY <2>3, UnderWaySomewhere
  <2>5. SaveParts(n) \cap WorkParts = {} /\ SaveCurrent(saves[n], partsList, catalog)
    BY <1>1, <2>3 DEF ListSound
  <2>6. \A p \in PartsIn(DOMAIN saves[n].edits) : partsList'[p] = partsList[p] /\ catalog'[p] = catalog[p]
    BY <2>4, <2>5
  <2>7. SaveCurrent(saves[n], partsList', catalog')
    BY <2>3, <2>4, <2>5, <2>6, SaveStaysCurrent
  <2>8. QED
    BY <2>3, <2>7
<1>7. QED
  BY <1>3, <1>4, <1>5, <1>6 DEF ListSound

LEMMA ServeWorkKeeps ==
    ASSUME PartsInv, ServeWork
    PROVE  PartsInv'
<1>1. /\ work # None /\ work.stage = "asked"
      /\ UNCHANGED <<partsList, shownList, unrendered, overlay, cellErrors, cellEditor, activeEdit, saves, works,
                     excused>>
  BY DEF ServeWork
<1>2. work \in AllWorks /\ catalog \in PartLists /\ PartsTyped
  BY <1>1 DEF PartsInv, PartsTyped
<1>3. work.ids \in SUBSET PartIds /\ work.edits \in EditSets /\ work.kind \in {"bulk_set", "delete", "update", "create"}
  BY <1>2, WorkFacts
<1>4. /\ OverlaySound' /\ LastsPend'
      /\ \A n \in DOMAIN saves' : SaveSound(saves'[n])
  BY <1>1, SavesUnmoved
<1>5. CASE WorkRefused
  <2>1. work' = None /\ catalog' = catalog /\ work.kind \in {"bulk_set", "update"}
    BY <1>5 DEF ServeWork, WorkRefused
  <2>2. PartsTyped'
    BY <1>1, <1>2, <2>1 DEF PartsTyped
  <2>3. ASSUME ~excused' PROVE ListSound'
    <3>1. ~excused /\ WorkCurrent
      BY <1>1, <2>3 DEF PartsInv, ListSound
    <3>2. WorkParts' = {} /\ \A p \in WorkParts : InSync(p)
      BY <1>1, <2>1, <3>1 DEF WorkParts, WorkCurrent
    <3>3. \A p \in WorkParts \ WorkParts' : InSync(p)'
      BY <1>1, <2>1, <3>2 DEF InSync
    <3>4. WorkParts' \subseteq WorkParts
      BY <3>2
    <3>5. work' = None /\ UNCHANGED saves /\ partsList' = partsList
      BY <1>1, <2>1
    <3>6. QED
      BY <1>1, <2>1, <3>1, <3>3, <3>4, <3>5, WorkMoves
  <2>4. QED
    BY <1>1, <1>4, <2>1, <2>2, <2>3 DEF PartsInv
<1>6. CASE ~WorkRefused
  <2>1. /\ catalog' = WorkResult
        /\ work' = IF work.kind = "bulk_set"
                   THEN [work EXCEPT !.stage = "merge", !.answer = [p \in work.ids |-> catalog'[p]]]
                   ELSE [work EXCEPT !.stage = "list"]
    BY <1>6 DEF ServeWork
  <2>2. /\ catalog' \in PartLists
        /\ work.kind = "bulk_set" => /\ \A p \in PartIds \ work.ids : catalog'[p] = catalog[p]
                                     /\ \A p \in work.ids : catalog[p] # Gone
    <3>1. CASE work.kind \in {"bulk_set", "update"}
      <4>1. ~Refuses(work.ids, work.edits)
        BY <1>6, <3>1 DEF WorkRefused
      <4>2. catalog' = Taken(work.ids, work.edits)
        BY <2>1, <3>1 DEF WorkResult
      <4>3. catalog' \in PartLists /\ \A p \in PartIds \ work.ids : catalog'[p] = catalog[p]
        BY <1>2, <1>3, <4>1, <4>2, TakenTyped
      <4>4. \A p \in work.ids : catalog[p] # Gone
        BY <4>1 DEF Refuses
      <4>5. QED
        BY <4>3, <4>4
    <3>2. CASE work.kind = "delete"
      <4>1. catalog' = [p \in PartIds |-> IF p \in work.ids \ UsedParts THEN Gone ELSE catalog[p]]
        BY <2>1, <3>2 DEF WorkResult
      <4>2. catalog' \in PartLists
        BY <1>2, <4>1 DEF PartLists
      <4>3. QED
        BY <3>2, <4>2
    <3>3. CASE work.kind = "create"
      <4>1. PICK q : catalog' = [catalog EXCEPT ![q] = FirstRow]
        BY <2>1, <3>3 DEF WorkResult
      <4>2. catalog' \in PartLists
        BY <1>2, <4>1, FirstRowTyped DEF PartLists
      <4>3. QED
        BY <3>3, <4>2
    <3>4. QED
      BY <1>3, <3>1, <3>2, <3>3
  <2>3. /\ work' \in AllWorks /\ work'.kind = work.kind /\ work'.ids = work.ids
        /\ work'.stage = IF work.kind = "bulk_set" THEN "merge" ELSE "list"
        /\ work.kind = "bulk_set" => /\ DOMAIN work'.answer = work.ids
                                     /\ \A p \in work.ids : work'.answer[p] = catalog'[p]
    <3>1. PICK cells \in SUBSET GridCells, parts \in SUBSET PartIds : work \in Works(cells, parts)
      BY <1>2 DEF AllWorks
    <3>2. CASE work.kind = "bulk_set"
      <4> DEFINE rows == [p \in work.ids |-> catalog'[p]]
      <4>1. work' = [work EXCEPT !.stage = "merge", !.answer = rows]
        BY <2>1, <3>2
      <4>2. rows \in [work.ids -> GridRow \cup {Gone}]
        BY <1>3, <2>2 DEF PartLists
      <4>3. rows \in PartRows(work.ids)
        BY <4>2 DEF PartRows, GridRow
      <4>4. DOMAIN rows = work.ids /\ \A p \in work.ids : rows[p] = catalog'[p]
        OBVIOUS
      <4> HIDE DEF rows
      <4>5. /\ work'.kind = work.kind /\ work'.ids = work.ids /\ work'.stage = "merge" /\ work'.answer = rows
            /\ work' \in Works(cells, work.ids)
        BY <3>1, <4>1, <4>3 DEF Works
      <4>6. work' \in AllWorks
        BY <1>3, <4>5 DEF AllWorks
      <4>7. QED
        BY <3>2, <4>4, <4>5, <4>6
    <3>3. CASE work.kind # "bulk_set"
      <4>1. work' = [work EXCEPT !.stage = "list"]
        BY <2>1, <3>3
      <4>2. /\ work'.kind = work.kind /\ work'.ids = work.ids /\ work'.stage = "list"
            /\ work' \in Works(cells, parts)
        BY <3>1, <4>1 DEF Works
      <4>3. work' \in AllWorks
        BY <4>2 DEF AllWorks
      <4>4. QED
        BY <3>3, <4>2, <4>3
    <3>4. QED
      BY <3>2, <3>3
  <2>4. PartsTyped'
    BY <1>1, <1>2, <2>2, <2>3 DEF PartsTyped
  <2>5. work'.stage # "reload" /\ work' # None
    BY <2>3, WorkFacts
  <2>6. ASSUME ~excused' PROVE ListSound'
    <3>1. ~excused /\ WorkCurrent
      BY <1>1, <2>6 DEF PartsInv, ListSound
    <3>2. WorkParts' = WorkParts
      BY <1>1, <2>3, <2>5 DEF WorkParts
    <3>3. CASE work.kind = "bulk_set"
      <4>1. WorkParts = work.ids
        BY <1>1, <3>3 DEF WorkParts
      <4>2. \A p \in PartIds \ WorkParts : partsList'[p] = partsList[p] /\ catalog'[p] = catalog[p]
        BY <1>1, <2>2, <3>3, <4>1
      <4>3. \A p \in work.ids : partsList'[p] # Gone
        BY <1>1, <2>2, <3>1, <3>3 DEF WorkCurrent, InSync
      <4>4. WorkCurrent'
        BY <2>3, <3>3, <4>3 DEF WorkCurrent
      <4>5. QED
        BY <1>1, <3>1, <3>2, <4>2, <4>4, WorkMoves
    <3>4. CASE work.kind # "bulk_set"
      <4>1. WorkParts = PartIds
        BY <1>1, <3>4 DEF WorkParts
      <4>2. WorkCurrent'
        BY <2>3, <3>4 DEF WorkCurrent
      <4>3. QED
        BY <1>1, <3>1, <3>2, <4>1, <4>2, WorkMoves
    <3>5. QED
      BY <3>3, <3>4
  <2>7. QED
    BY <1>1, <1>4, <2>4, <2>5, <2>6 DEF PartsInv
<1>7. QED
  BY <1>5, <1>6

LEMMA ServeListKeeps ==
    ASSUME PartsInv, ServeList
    PROVE  PartsInv'
<1>1. /\ work # None /\ work.stage = "list"
      /\ work' = [work EXCEPT !.stage = "reload", !.answer = catalog]
      /\ UNCHANGED <<catalog, partsList, shownList, unrendered, overlay, cellErrors, cellEditor, activeEdit, saves,
                     works, excused>>
  BY DEF ServeList
<1>2. work \in AllWorks /\ catalog \in PartLists /\ PartsTyped
  BY <1>1 DEF PartsInv, PartsTyped
<1>3. /\ work' \in AllWorks /\ work'.kind = work.kind /\ work'.ids = work.ids
      /\ work'.stage = "reload" /\ work'.answer = catalog
  <2>1. PICK cells \in SUBSET GridCells, parts \in SUBSET PartIds : work \in Works(cells, parts)
    BY <1>2 DEF AllWorks
  <2>2. catalog \in PartRows(PartIds)
    BY <1>2 DEF PartRows, PartLists, GridRow
  <2>3. /\ work'.kind = work.kind /\ work'.ids = work.ids /\ work'.stage = "reload" /\ work'.answer = catalog
        /\ work' \in Works(cells, PartIds)
    BY <1>1, <2>1, <2>2 DEF Works
  <2>4. work' \in AllWorks
    BY <2>3 DEF AllWorks
  <2>5. QED
    BY <2>3, <2>4
<1>4. PartsTyped'
  BY <1>1, <1>2, <1>3 DEF PartsTyped
<1>5. /\ OverlaySound' /\ LastsPend'
      /\ \A n \in DOMAIN saves' : SaveSound(saves'[n])
  BY <1>1, SavesUnmoved
<1>6. ASSUME ~excused' PROVE ListSound'
  <2>1. ~excused /\ WorkCurrent
    BY <1>1, <1>6 DEF PartsInv, ListSound
  <2>2. work.kind # "bulk_set"
    BY <1>1, <2>1 DEF WorkCurrent
  <2>3. WorkParts = PartIds /\ WorkParts' = PartIds
    BY <1>1, <1>3, <2>2, WorkFacts DEF WorkParts
  <2>4. WorkCurrent'
    BY <1>1, <1>3, <2>2 DEF WorkCurrent
  <2>5. QED
    BY <1>1, <2>1, <2>3, <2>4, WorkMoves
<1>7. QED
  BY <1>1, <1>2, <1>3, <1>4, <1>5, <1>6 DEF PartsInv

LEMMA WorkDoneKeeps ==
    ASSUME PartsInv, WorkDone
    PROVE  PartsInv'
<1>1. /\ work # None /\ work' = None
      /\ UNCHANGED <<catalog, shownList, overlay, cellErrors, cellEditor, activeEdit, saves, works>>
  BY DEF WorkDone
<1>2. work \in AllWorks /\ catalog \in PartLists /\ PartsTyped /\ (~unrendered => shownList = partsList)
  BY <1>1 DEF PartsInv, PartsTyped
<1>3. work.answer \in RowSets /\ work.ids \in SUBSET PartIds
  BY <1>2, WorkFacts
<1>4. /\ partsList' \in PartLists
      /\ excused => excused'
      /\ unrendered => unrendered'
      /\ ~unrendered' => shownList' = partsList'
      /\ \/ /\ work.stage = "merge"
            /\ ~excused' => \A p \in PartIds : partsList'[p] = IF p \in DOMAIN work.answer /\ partsList[p] # Gone
                                                               THEN work.answer[p] ELSE partsList[p]
         \/ work.stage = "reload" /\ partsList' = work.answer
  <2>1. CASE work.stage = "merge" /\ MergeParts(work.answer)
    <3>1. /\ partsList' \in PartLists
          /\ excused => excused'
          /\ unrendered => unrendered'
          /\ ~unrendered' => partsList' = partsList
          /\ ~excused' => \A p \in PartIds : partsList'[p] = IF p \in DOMAIN work.answer /\ partsList[p] # Gone
                                                             THEN work.answer[p] ELSE partsList[p]
      BY <1>2, <1>3, <2>1, MergeFacts
    <3>2. QED
      BY <1>1, <1>2, <2>1, <3>1
  <2>2. CASE work.stage = "reload" /\ partsList' = work.answer /\ unrendered' = TRUE /\ UNCHANGED excused
    BY <1>1, <2>2 DEF PartsInv
  <2>3. QED
    BY <2>1, <2>2 DEF WorkDone
<1>5. PartsTyped'
  BY <1>1, <1>2, <1>4 DEF PartsTyped
<1>6. /\ OverlaySound' /\ LastsPend'
      /\ \A n \in DOMAIN saves' : SaveSound(saves'[n])
  BY <1>1, <1>4, SavesUnmoved
<1>7. ASSUME ~excused' PROVE ListSound'
  <2>1. ~excused /\ WorkCurrent
    BY <1>1, <1>4, <1>7 DEF PartsInv, ListSound
  <2>2. WorkParts' = {}
    BY <1>1 DEF WorkParts
  <2>3. CASE work.kind = "bulk_set"
    <3>1. WorkParts = work.ids
      BY <1>1, <2>3 DEF WorkParts
    <3>2. /\ work.stage = "merge" /\ DOMAIN work.answer = work.ids
          /\ \A p \in work.ids : work.answer[p] = catalog[p] /\ partsList[p] # Gone
      BY <1>4, <2>1, <2>3 DEF WorkCurrent
    <3>3. \A p \in PartIds : partsList'[p] = IF p \in work.ids THEN catalog[p] ELSE partsList[p]
      BY <1>4, <1>7, <3>2
    <3>4. \A p \in PartIds \ WorkParts : partsList'[p] = partsList[p] /\ catalog'[p] = catalog[p]
      BY <1>1, <3>1, <3>3
    <3>5. \A p \in WorkParts \ WorkParts' : InSync(p)'
      BY <1>1, <1>3, <3>1, <3>3 DEF InSync
    <3>6. QED
      BY <1>1, <2>1, <2>2, <3>4, <3>5, WorkMoves
  <2>4. CASE work.kind # "bulk_set"
    <3>1. WorkParts = PartIds
      BY <1>1, <2>4 DEF WorkParts
    <3>2. partsList' = catalog'
      BY <1>1, <1>4, <2>1, <2>4 DEF WorkCurrent
    <3>3. \A p \in WorkParts \ WorkParts' : InSync(p)'
      BY <3>2 DEF InSync
    <3>4. QED
      BY <1>1, <2>1, <2>2, <3>1, <3>3, WorkMoves
  <2>5. QED
    BY <2>3, <2>4
<1>8. QED
  BY <1>1, <1>4, <1>5, <1>6, <1>7 DEF PartsInv

LEMMA WorkFailsKeeps ==
    ASSUME PartsInv, WorkFails
    PROVE  PartsInv'
<1>1. /\ work' = None /\ excused' = TRUE
      /\ UNCHANGED <<catalog, partsList, shownList, unrendered, overlay, cellErrors, cellEditor, activeEdit, saves,
                     works>>
  BY DEF WorkFails
<1>2. PartsTyped'
  BY <1>1 DEF PartsInv, PartsTyped
<1>3. /\ OverlaySound' /\ LastsPend'
      /\ \A n \in DOMAIN saves' : SaveSound(saves'[n])
  BY <1>1, SavesUnmoved
<1>4. QED
  BY <1>1, <1>2, <1>3 DEF PartsInv

-----------------------------------------------------------------------------
(* Every step, and what follows.                                           *)

LEMMA PartsStep ==
    ASSUME PartsInv, [PartsNext]_partsVars
    PROVE  PartsInv'
<1>t. /\ cellEditor \in CellEditors \cup {None} /\ activeEdit \in Nat
      /\ \A cell \in GridCells : [c \in {cell} |-> ~ShownValue(cell)] \in EditSets
  <2>1. \A cell \in GridCells : (~ShownValue(cell)) \in BOOLEAN
    OBVIOUS
  <2>2. \A cell \in GridCells : (~ShownValue(cell)) \in CellValues
    BY <2>1, ValueFacts, Zenon
  <2>3. \A cell \in GridCells : [c \in {cell} |-> ~ShownValue(cell)] \in EditSets
    <3>1. TAKE cell \in GridCells
    <3>2. {cell} \in SUBSET GridCells
      OBVIOUS
    <3>3. PICK v \in CellValues : v = ~ShownValue(cell)
      BY <2>2, Zenon
    <3>4. [c \in {cell} |-> v] \in [{cell} -> CellValues]
      BY <3>3
    <3>5. [c \in {cell} |-> v] \in EditSets
      BY <3>2, <3>4, EditSetIntro
    <3>6. QED
      BY <3>3, <3>5
  <2>4. QED
    BY <2>3 DEF PartsInv, PartsTyped
<1>1. CASE Render
  BY <1>1, RenderKeeps
<1>2. CASE CancelEditor
  <2>1. [cellEditor EXCEPT !.open = FALSE] \in CellEditors
    BY <1>2, <1>t DEF CancelEditor, CellEditors
  <2>2. cellEditor' \in CellEditors /\ activeEdit' \in Nat
    BY <1>2, <2>1 DEF CancelEditor
  <2>3. QED
    BY <1>2, <2>2, EditorKeeps DEF CancelEditor
<1>3. ASSUME NEW n \in DOMAIN saves, ServeSave(n) \/ SaveDone(n) \/ \E p \in PartIds : SaveNext(n, p) PROVE PartsInv'
  BY <1>3, ServeSaveKeeps, SaveDoneKeeps, SaveNextKeeps
<1>4. ASSUME NEW cell \in GridCells, StartEdit(cell) PROVE PartsInv'
  <2>1. cellEditor' \in CellEditors /\ activeEdit' \in Nat
    BY <1>4, <1>t DEF StartEdit, CellEditors
  <2>2. QED
    BY <1>4, <2>1, EditorKeeps DEF StartEdit
<1>5. ASSUME NEW cell \in GridCells, ToggleFlag(cell) PROVE PartsInv'
  <2>1. RunCommit([c \in {cell} |-> ~ShownValue(cell)])
    BY <1>5 DEF ToggleFlag
  <2>2. [c \in {cell} |-> ~ShownValue(cell)] \in EditSets
    BY <1>t
  <2>3. UNCHANGED <<catalog, partsList, shownList, unrendered, cellEditor, activeEdit, work, works>>
    BY <1>5 DEF ToggleFlag
  <2>4. QED
    BY <1>t, <2>1, <2>2, <2>3, RunCommitKeeps
<1>6. ASSUME NEW text \in CellTexts, NEW fromBlur \in BOOLEAN, CommitEditor(text, fromBlur) PROVE PartsInv'
  <2> DEFINE requests == [c \in {cellEditor.cell} |-> text]
             edits == IF BadCells(requests) # {} THEN << >> ELSE PrepareEdits(requests)
  <2>1. cellEditor \in CellEditors
    BY <1>6, <1>t DEF CommitEditor
  <2>2. cellEditor.cell \in GridCells
    BY <2>1 DEF CellEditors
  <2>3. PrepareEdits(requests) \in EditSets
    BY <2>2, PrepareTyped
  <2>4. edits \in EditSets
    BY <2>3, EmptyRows
  <2>5. RunCommit(edits)
    BY <1>6 DEF CommitEditor
  <2>6. cellEditor' \in CellEditors /\ activeEdit' \in Nat
    BY <1>6, <2>1 DEF CommitEditor, CellEditors
  <2>7. UNCHANGED <<catalog, partsList, shownList, unrendered, work>>
    BY <1>6 DEF CommitEditor
  <2> HIDE DEF edits
  <2>8. QED
    BY <2>4, <2>5, <2>6, <2>7, RunCommitKeeps
<1>7. ASSUME NEW cells \in Ranges, NEW text,
             CommitRequests([cell \in cells |-> text]),
             UNCHANGED <<catalog, partsList, shownList, unrendered, cellEditor, activeEdit, work, works>>
      PROVE  PartsInv'
  <2> DEFINE requests == [cell \in cells |-> text]
  <2>1. DOMAIN requests \subseteq GridCells
    BY PartsAssumption
  <2>2. PrepareEdits(requests) \in EditSets
    BY <2>1, PrepareTyped
  <2>3. RunCommit(PrepareEdits(requests))
    BY <1>7 DEF CommitRequests
  <2> HIDE DEF requests
  <2>4. QED
    BY <1>7, <1>t, <2>2, <2>3, RunCommitKeeps
<1>8. ASSUME NEW cells \in Ranges, ClearRange(cells) \/ \E text \in CellTexts \ {Blank} : PasteRange(cells, text)
      PROVE  PartsInv'
  BY <1>7, <1>8 DEF ClearRange, PasteRange
<1>9. ASSUME NEW ids \in SUBSET PartIds, BulkDelete(ids) PROVE PartsInv'
  BY <1>9, EmptyRows, StartWorkKeeps DEF BulkDelete
<1>10. ASSUME NEW ids \in SUBSET PartIds, NEW field \in BulkFields, NEW text \in DOMAIN Readings,
              BulkSet(ids, field, Readings[text])
       PROVE  PartsInv'
  <2> DEFINE edits == [cell \in ids \X {field} |-> Readings[text]]
  <2>1. ids \X {field} \in SUBSET GridCells
    BY PartsAssumption, GridCellsFacts
  <2>2. edits \in [ids \X {field} -> CellValues]
    BY ValueFacts
  <2>3. edits \in EditSets
    BY <2>1, <2>2, EditSetIntro
  <2>4. StartWork("bulk_set", ids, edits)
    BY <1>10 DEF BulkSet
  <2> HIDE DEF edits
  <2>5. QED
    BY <2>3, <2>4, StartWorkKeeps
<1>11. ASSUME NEW p \in PartIds, NEW field \in NumberFields, NEW text \in DOMAIN Readings,
              SubmitPart(p, field, Readings[text])
       PROVE  PartsInv'
  <2> DEFINE edits == [cell \in {<<p, field>>} |-> Readings[text]]
  <2>1. {<<p, field>>} \in SUBSET GridCells
    BY GridCellsFacts DEF FieldIds
  <2>2. edits \in [{<<p, field>>} -> CellValues]
    BY ValueFacts
  <2>3. edits \in EditSets
    BY <2>1, <2>2, EditSetIntro
  <2>4. StartWork("update", {p}, edits)
    BY <1>11 DEF SubmitPart
  <2> HIDE DEF edits
  <2>5. QED
    BY <2>3, <2>4, StartWorkKeeps
<1>12. ASSUME NEW p \in PartIds, CreatePart(p) PROVE PartsInv'
  BY <1>12, EmptyRows, StartWorkKeeps DEF CreatePart
<1>13. CASE ServeWork \/ ServeList \/ WorkDone \/ WorkFails
  BY <1>13, ServeWorkKeeps, ServeListKeeps, WorkDoneKeeps, WorkFailsKeeps
<1>14. CASE UNCHANGED partsVars
  BY <1>14, <1>t, EditorKeeps DEF partsVars
<1>15. Loaded \subseteq PartIds
  BY DEF Loaded
<1>16. QED
  BY <1>1, <1>2, <1>3, <1>4, <1>5, <1>6, <1>8, <1>9, <1>10, <1>11, <1>12, <1>13, <1>14, <1>15 DEF PartsNext

\* While the save of what was last typed into a cell is under way, the cell shows that.
LEMMA PendingFromInv == PartsInv => PendingShowsLastTyped
<1> SUFFICES ASSUME PartsInv, NEW cell \in GridCells, NEW n \in DOMAIN saves, cell \in DOMAIN saves[n].edits,
                    saves[LastSave(cell)].stage # "done"
             PROVE  overlay[cell] # None /\ overlay[cell].value = saves[LastSave(cell)].edits[cell]
  BY DEF PendingShowsLastTyped
<1>1. \E k \in DOMAIN saves : IsLast(k, cell)
  BY DEF PartsInv, LastsPend
<1>2. LastSave(cell) \in DOMAIN saves /\ IsLast(LastSave(cell), cell)
  BY <1>1 DEF LastSave, IsLast
<1>3. QED
  BY <1>2 DEF PartsInv, LastsPend

\* When every answer is in and shows, the grid shows what the server holds.
LEMMA QuietFromInv == PartsInv => QuietGridShowsCatalog
<1> SUFFICES ASSUME PartsInv, UnderWay = {}, ~unrendered, ~excused
             PROVE  /\ shownList = catalog
                    /\ \A cell \in GridCells : catalog[cell[1]] # Gone => ShownValue(cell) = catalog[cell[1]][cell[2]]
  BY DEF QuietGridShowsCatalog
<1>1. \A p \in PartIds : partsList[p] = catalog[p]
  BY DEF PartsInv, ListSound, InSync
<1>2. shownList = catalog
  BY <1>1 DEF PartsInv, PartsTyped, PartLists
<1>3. \A n \in DOMAIN saves : saves[n].stage = "done"
  BY UnderWaySomewhere
<1>4. \A cell \in GridCells : ~OverlayShows(cell)
  <2>1. SUFFICES ASSUME NEW cell \in GridCells, overlay[cell] # None
                 PROVE  overlay[cell].status # "pending" /\ overlay[cell].fresh # TRUE
    BY DEF OverlayShows, PartsInv, PartsTyped, OverlayEntries
  <2>2. QED
    BY <1>3, <2>1 DEF PartsInv, OverlaySound
<1>5. QED
  BY <1>2, <1>4 DEF ShownValue

\* However calls overlap and whichever fail, a cell shows what was last typed into it for as
\* long as the save of that is under way, for any parts, columns, readings and ranges.
THEOREM PendingShows == PartsSpec => []PendingShowsLastTyped
<1>1. PartsInv /\ [PartsNext]_partsVars => PartsInv'
  BY PartsStep
<1>2. QED
  BY PartsInitial, <1>1, PendingFromInv, PTL DEF PartsSpec

\* With nothing under way the grid shows what the server holds, unless calls of one part
\* overlapped, a reload ran beside a save, merges crossed or an answer was lost.
THEOREM QuietGrid == PartsSpec => []QuietGridShowsCatalog
<1>1. PartsInv /\ [PartsNext]_partsVars => PartsInv'
  BY PartsStep
<1>2. QED
  BY PartsInitial, <1>1, QuietFromInv, PTL DEF PartsSpec

-----------------------------------------------------------------------------
(* The panels of the pages and what they ask for.                          *)

PanelNames == DOMAIN PanelOf

\* What the shapes of the panels have in common.
PanelShape(name, pane) ==
    /\ pane.name = name
    /\ pane.pick \in PickNames /\ pane.pick \in pane.deps
    /\ pane.cleared \in BOOLEAN
    /\ ~pane.cleared => pane.asked /\ pane.guard # "ref"
    /\ pane.guard \in {"cancel", "ref", "none"}
    /\ pane.guard = "none" => pane.pick = "page" \/ pane = TagScheme
    /\ pane.pick = "page" => name \in {"catalogSettings", "users"}
    /\ \/ pane.leads = "none"
       \/ pane.leads \in {"requirement", "drawing"} /\ pane.pick = "project"
       \/ pane.leads = "bom" /\ pane.pick = "drawing"
    /\ pane.asked \in BOOLEAN /\ (~pane.asked => name \in {"diff", "drc"})
    /\ pane.next = "none" \/ (pane.next = "drc" /\ pane.guard = "cancel" /\ pane.pick = "project")

LEMMA PanelNamesFacts ==
    PanelNames = {"requirements", "traceLinks", "verification", "bomDrawings", "legacy", "snapshots", "readiness", "diff",
                  "usage", "documents", "drawings", "drc", "matrix", "lineClasses", "tagScheme",
                  "catalogSettings", "users", "released", "projectList"}
BY DEF PanelNames, PanelOf

LEMMA ShapesHold == \A name \in PanelNames : PanelShape(name, PanelOf[name])
<1>1. PanelShape("requirements", Requirements)
  BY DEF PanelShape, PickNames, Panel, Requirements
<1>2. PanelShape("traceLinks", TraceLinks)
  BY DEF PanelShape, PickNames, Panel, TraceLinks
<1>3. PanelShape("verification", Verification)
  BY DEF PanelShape, PickNames, Panel, Verification
<1>4. PanelShape("bomDrawings", BomDrawings)
  BY DEF PanelShape, PickNames, Panel, BomDrawings
<1>5. PanelShape("legacy", LegacyBoms)
  BY DEF PanelShape, PickNames, Panel, LegacyBoms
<1>6. PanelShape("snapshots", Snapshots)
  BY DEF PanelShape, PickNames, Panel, Snapshots
<1>7. PanelShape("readiness", BomReadiness)
  BY DEF PanelShape, PickNames, Panel, BomReadiness
<1>8. PanelShape("diff", BomDiff)
  BY DEF PanelShape, PickNames, Panel, BomDiff
<1>9. PanelShape("usage", PartUsage)
  BY DEF PanelShape, PickNames, Panel, PartUsage
<1>10. PanelShape("documents", PartDocuments)
  BY DEF PanelShape, PickNames, Panel, PartDocuments
<1>11. PanelShape("drawings", ProjectDrawings)
  BY DEF PanelShape, PickNames, Panel, ProjectDrawings
<1>12. PanelShape("drc", DrcSummary)
  BY DEF PanelShape, PickNames, Panel, DrcSummary
<1>13. PanelShape("matrix", Matrix)
  BY DEF PanelShape, PickNames, Panel, Matrix
<1>14. PanelShape("lineClasses", LineClasses)
  BY DEF PanelShape, PickNames, Panel, LineClasses
<1>15. PanelShape("tagScheme", TagScheme)
  BY DEF PanelShape, PickNames, Panel, TagScheme
<1>16. PanelShape("catalogSettings", CatalogSettings)
  BY DEF PanelShape, PickNames, Panel, CatalogSettings
<1>17. PanelShape("users", UserAccounts)
  BY DEF PanelShape, PickNames, Panel, UserAccounts
<1>18. PanelShape("released", ReleasedSnapshot)
  BY DEF PanelShape, PickNames, Panel, ReleasedSnapshot
<1>19. PanelShape("projectList", ProjectList)
  BY DEF PanelShape, PickNames, Panel, ProjectList
<1>20. QED
  BY <1>1, <1>2, <1>3, <1>4, <1>5, <1>6, <1>7, <1>8, <1>9, <1>10, <1>11, <1>12, <1>13, <1>14, <1>15, <1>16, <1>17, <1>18, <1>19, PanelNamesFacts DEF PanelOf

LEMMA DrcFacts ==
    /\ "drc" \in PanelNames /\ "none" \notin PanelNames
    /\ PanelOf["drc"].cleared /\ ~PanelOf["drc"].asked /\ PanelOf["drc"].pick = "project"
BY PanelNamesFacts DEF PanelOf, DrcSummary, Panel

LEMMA PagePanelFacts ==
    ASSUME NEW page \in PageNames, NEW pane \in PanelsOn[page]
    PROVE  pane.name \in PanelNames /\ pane = PanelOf[pane.name]
<1>1. \E name \in PanelNames : pane = PanelOf[name]
  BY PanelNamesFacts DEF PageNames, PanelsOn, PanelOf
<1>2. QED
  BY <1>1, ShapesHold DEF PanelShape

LEMMA NextFacts ==
    ASSUME NEW page \in PageNames, NEW pane \in PanelsOn[page], pane.next # "none"
    PROVE  pane.next = "drc" /\ pane.guard = "cancel" /\ pane.pick = "project" /\ PanelOf["drc"] \in PanelsOn[page]
<1>1. pane.name \in PanelNames /\ pane = PanelOf[pane.name] /\ PanelShape(pane.name, pane)
  BY PagePanelFacts, ShapesHold
<1>2. \A p \in PanelsOn[page] : p.next # "none" => page = "dashboard"
  <2> USE DEF PageNames, PanelsOn, Panel
  <2>1. /\ Requirements.next = "none" /\ TraceLinks.next = "none" /\ Verification.next = "none"
        /\ BomDrawings.next = "none" /\ LegacyBoms.next = "none" /\ Snapshots.next = "none"
        /\ BomReadiness.next = "none" /\ BomDiff.next = "none"
    BY DEF Requirements, TraceLinks, Verification, BomDrawings, LegacyBoms, Snapshots, BomReadiness, BomDiff
  <2>2. /\ PartUsage.next = "none" /\ PartDocuments.next = "none" /\ LineClasses.next = "none"
        /\ TagScheme.next = "none" /\ CatalogSettings.next = "none" /\ UserAccounts.next = "none"
        /\ ReleasedSnapshot.next = "none" /\ ProjectList.next = "none"
    BY DEF PartUsage, PartDocuments, LineClasses, TagScheme, CatalogSettings, UserAccounts, ReleasedSnapshot, ProjectList
  <2>3. QED
    BY <2>1, <2>2
<1>3. PanelOf["drc"] \in PanelsOn["dashboard"]
  BY DEF PanelOf, PanelsOn
<1>4. QED
  BY <1>1, <1>2, <1>3 DEF PanelShape

\* What each button reads again, and that only the catalog's and the users' belong to the page.
ButtonShape(button) ==
    /\ button.reloads \in Seq(PanelNames) /\ Len(button.reloads) > 0
    /\ \A i \in DOMAIN button.reloads :
          /\ PanelOf[button.reloads[i]].pick = "page" => button.pick = "page"
          /\ button.rows = "answer" => PanelOf[button.reloads[i]].guard = "none"

LEMMA PagePanelNames == \A name \in PanelNames \ {"catalogSettings", "users"} : PanelOf[name].pick # "page"
BY ShapesHold DEF PanelShape

LEMMA AnswerPanels == PanelOf["tagScheme"].guard = "none" /\ PanelOf["catalogSettings"].guard = "none"
BY DEF PanelOf, Panel, TagScheme, CatalogSettings

LEMMA ButtonsHold == \A page \in PageNames : \A button \in ButtonsOn[page] : ButtonShape(button)
<1> USE PanelNamesFacts, PagePanelNames, AnswerPanels
<1>1. ButtonShape(SubmitRequirement)
  BY DEF ButtonShape, Button, SubmitRequirement
<1>2. ButtonShape(UpdateRequirement)
  BY DEF ButtonShape, Button, UpdateRequirement
<1>3. ButtonShape(DeleteRequirement)
  BY DEF ButtonShape, Button, DeleteRequirement
<1>4. ButtonShape(CommitRequirements)
  BY DEF ButtonShape, Button, CommitRequirements
<1>5. ButtonShape(BulkSetRequirements)
  BY DEF ButtonShape, Button, BulkSetRequirements
<1>6. ButtonShape(BulkDeleteRequirements)
  BY DEF ButtonShape, Button, BulkDeleteRequirements
<1>7. ButtonShape(LinkToItem)
  BY DEF ButtonShape, Button, LinkToItem
<1>8. ButtonShape(LinkToDrawing)
  BY DEF ButtonShape, Button, LinkToItem, LinkToDrawing
<1>9. ButtonShape(RemoveTraceLink)
  BY DEF ButtonShape, Button, RemoveTraceLink
<1>10. ButtonShape(GenerateBom)
  BY DEF ButtonShape, Button, GenerateBom
<1>11. ButtonShape(ReleaseBom)
  BY DEF ButtonShape, Button, ReleaseBom
<1>12. ButtonShape(CompareBoms)
  BY DEF ButtonShape, Button, CompareBoms
<1>13. ButtonShape(UploadDocument)
  BY DEF ButtonShape, Button, UploadDocument
<1>14. ButtonShape(DeleteDocument)
  BY DEF ButtonShape, Button, DeleteDocument
<1>15. ButtonShape(CommitLineClasses)
  BY DEF ButtonShape, Button, CommitLineClasses
<1>16. ButtonShape(AddLineClass)
  BY DEF ButtonShape, Button, AddLineClass
<1>17. ButtonShape(CreatePasted)
  BY DEF ButtonShape, Button, CreatePasted
<1>18. ButtonShape(RemoveLineClasses)
  BY DEF ButtonShape, Button, RemoveLineClasses
<1>19. ButtonShape(ImportLineClassFile)
  BY DEF ButtonShape, Button, ImportLineClassFile
<1>20. ButtonShape(ImportLineClassText)
  BY DEF ButtonShape, Button, ImportLineClassText
<1>21. ButtonShape(SaveTagScheme)
  BY DEF ButtonShape, Button, SaveTagScheme
<1>22. ButtonShape(SaveCatalogSettings)
  BY DEF ButtonShape, Button, SaveCatalogSettings
<1>23. ButtonShape(SubmitUser)
  BY DEF ButtonShape, Button, SubmitUser
<1>24. ButtonShape(UpdateUser)
  BY DEF ButtonShape, Button, UpdateUser
<1>25. QED
  BY <1>1, <1>2, <1>3, <1>4, <1>5, <1>6, <1>7, <1>8, <1>9, <1>10, <1>11, <1>12, <1>13, <1>14, <1>15, <1>16, <1>17, <1>18, <1>19, <1>20, <1>21, <1>22, <1>23, <1>24 DEF ButtonsOn, PageNames, PanelsOn

Picked == DOMAIN picked = PickNames /\ DOMAIN lastPicked = PickNames /\ picked["page"] = 1 /\ lastPicked["page"] = 1

\* What was set since the last effects is touched.
TouchedTells == \A pick \in PickNames \ touched : lastPicked[pick] = picked[pick]

AskOf(ask, ofs, panes) ==
    /\ DOMAIN ask = {"name", "of", "n", "answer"} /\ ask.name \in PanelNames /\ PanelOf[ask.name] \in panes
    /\ PanelOf[ask.name].guard = "cancel" => ask.of = ofs[PanelOf[ask.name].pick]
    /\ PanelOf[ask.name].pick = "page" => ask.of = 1

WorkOf(job, page) ==
    /\ DOMAIN job = {"button", "at", "n", "gone", "new", "step", "answer"}
    /\ job.button \in ButtonsOn[page]
    /\ job.button.pick = "page" => job.at = 1
    /\ job.step \in 0..Len(job.button.reloads)
    /\ job.answer # NoAnswer => job.step > 0

PanelHolds(pane, data, ofs, open, lost) ==
    \/ data = NoData
    \/ data.of = ofs[pane.pick]
    \/ ~pane.cleared /\ (lost \/ \E ask \in open : ask.name = pane.name)
    \/ pane = TagScheme

LoadsInv ==
    /\ mounted \in PageNames
    /\ Picked /\ TouchedTells
    /\ DOMAIN shown = {pane.name : pane \in PagePanels}
    /\ \A name \in DOMAIN shown : DOMAIN shown[name] = {"of", "version", "ids"}
    /\ \A ask \in asks : AskOf(ask, lastPicked, PagePanels)
    /\ \A job \in running : WorkOf(job, mounted)
    /\ \A pane \in PagePanels : PanelHolds(pane, shown[pane.name], lastPicked, asks, loadFailed)

-----------------------------------------------------------------------------
(* What is shown between renders.                                          *)

LEMMA PaneFacts ==
    ASSUME mounted \in PageNames, NEW pane \in PagePanels
    PROVE  /\ pane.name \in PanelNames /\ pane = PanelOf[pane.name]
           /\ PanelShape(pane.name, pane)
<1>1. pane.name \in PanelNames /\ pane = PanelOf[pane.name]
  BY PagePanelFacts DEF PagePanels
<1>2. QED
  BY <1>1, ShapesHold

LEMMA InitialLoads == LoadsInit => LoadsInv
<1> SUFFICES ASSUME LoadsInit PROVE LoadsInv
  OBVIOUS
<1>1. Picked /\ TouchedTells
  BY DEF LoadsInit, Picked, TouchedTells, PickNames
<1>2. /\ DOMAIN shown = {pane.name : pane \in PagePanels}
      /\ \A name \in DOMAIN shown : shown[name] = NoData /\ DOMAIN shown[name] = {"of", "version", "ids"}
  BY DEF LoadsInit, NoData
<1>3. QED
  BY <1>1, <1>2 DEF LoadsInv, LoadsInit, PanelHolds

\* A pick that is set is touched, unless it stays as it is.
LEMMA PickMoves ==
    ASSUME Picked, TouchedTells, lastPicked' = lastPicked,
           NEW pick \in PickNames \ {"page"}, NEW id, picked' = [picked EXCEPT ![pick] = id],
           touched \subseteq touched', picked[pick] = id \/ pick \in touched'
    PROVE  Picked' /\ TouchedTells'
BY DEF Picked, TouchedTells

LEMMA PicksStay ==
    ASSUME Picked, TouchedTells, lastPicked' = lastPicked, picked' = picked, touched \subseteq touched'
    PROVE  Picked' /\ TouchedTells'
BY DEF Picked, TouchedTells

\* Data that land are of the pick their panel last ran for, or the tag scheme's.
LEMMA Landing ==
    ASSUME LoadsInv, mounted' = mounted, lastPicked' = lastPicked, loadFailed' = loadFailed,
           NEW name \in PanelNames, NEW of, NEW answer, Show(name, of, answer),
           of = lastPicked[PanelOf[name].pick] \/ PanelOf[name] = TagScheme,
           \A ask \in asks : ask.name # name => \E other \in asks' : other.name = ask.name
    PROVE  /\ DOMAIN shown' = {pane.name : pane \in PagePanels'}
           /\ \A key \in DOMAIN shown' : DOMAIN shown'[key] = {"of", "version", "ids"}
           /\ \A pane \in PagePanels' : PanelHolds(pane, shown'[pane.name], lastPicked', asks', loadFailed')
<1> DEFINE data == [of |-> of, version |-> answer.version, ids |-> answer.ids]
<1>1. shown' = [shown EXCEPT ![name] = data] /\ PagePanels' = PagePanels
  BY DEF Show, PagePanels
<1>2. DOMAIN data = {"of", "version", "ids"} /\ data.of = of
  OBVIOUS
<1> HIDE DEF data
<1>3. ASSUME NEW pane \in PagePanels
      PROVE  PanelHolds(pane, shown'[pane.name], lastPicked', asks', loadFailed')
  <2>1. pane.name \in DOMAIN shown /\ pane = PanelOf[pane.name]
    BY PaneFacts DEF LoadsInv
  <2>2. CASE pane.name = name
    BY <1>1, <1>2, <2>1, <2>2 DEF PanelHolds
  <2>3. CASE pane.name # name
    <3>1. shown'[pane.name] = shown[pane.name]
      BY <1>1, <2>1, <2>3
    <3>2. PanelHolds(pane, shown[pane.name], lastPicked, asks, loadFailed)
      BY DEF LoadsInv
    <3>3. QED
      BY <2>3, <3>1, <3>2 DEF PanelHolds
  <2>4. QED
    BY <2>2, <2>3
<1>4. QED
  BY <1>1, <1>2, <1>3 DEF LoadsInv

\* What leaves the panels and their picks alone, and loses no ask.
LEMMA ShownStays ==
    ASSUME LoadsInv, mounted' = mounted, lastPicked' = lastPicked, loadFailed => loadFailed', shown' = shown,
           \A ask \in asks : \/ loadFailed' \/ PanelOf[ask.name].guard = "ref"
                            \/ \E other \in asks' : other.name = ask.name
    PROVE  /\ DOMAIN shown' = {pane.name : pane \in PagePanels'}
           /\ \A key \in DOMAIN shown' : DOMAIN shown'[key] = {"of", "version", "ids"}
           /\ \A pane \in PagePanels' : PanelHolds(pane, shown'[pane.name], lastPicked', asks', loadFailed')
<1>1. PagePanels' = PagePanels
  BY DEF PagePanels
<1>2. ASSUME NEW pane \in PagePanels
      PROVE  PanelHolds(pane, shown'[pane.name], lastPicked', asks', loadFailed')
  <2>1. PanelHolds(pane, shown[pane.name], lastPicked, asks, loadFailed)
    BY DEF LoadsInv
  <2>2. pane = PanelOf[pane.name] /\ (~pane.cleared => pane.guard # "ref")
    BY PaneFacts DEF PanelShape, LoadsInv
  <2>3. QED
    BY <2>1, <2>2 DEF PanelHolds
<1>3. QED
  BY <1>1, <1>2 DEF LoadsInv

LEMMA EffectsKeep == ASSUME LoadsInv, Effects PROVE LoadsInv'
<1> DEFINE due == Due
           cancelled == {pane.name : pane \in {p \in due : p.guard = "cancel"}}
           led == {pane.leads : pane \in {p \in due : p.cleared /\ p.leads # "none"}}
           emptied == {pane.name : pane \in {p \in due : p.cleared \/ picked[p.pick] = NoPick}}
           new == {AskFor(pane.name, picked[pane.pick], Later) : pane \in {p \in due : p.asked /\ picked[p.pick] # NoPick}}
<1>1. /\ lastPicked' = picked
      /\ asks' = {ask \in asks : /\ ask.name \notin cancelled
                                 /\ \A pane \in due : pane.next = ask.name => pane.guard # "cancel"} \cup new
      /\ shown' = [name \in DOMAIN shown |-> IF name \in emptied THEN NoData ELSE shown[name]]
      /\ picked' = [pick \in PickNames |-> IF pick \in led THEN NoPick ELSE picked[pick]]
      /\ touched' = {pick \in led : picked[pick] # NoPick}
      /\ mounted' = mounted /\ running' = running /\ loadFailed' = loadFailed
  BY DEF Effects, flags
<1>2. PagePanels' = PagePanels /\ due \subseteq PagePanels
  BY <1>1 DEF PagePanels, Due
<1>3. \A pane \in PagePanels :
         /\ pane.name \in PanelNames /\ pane = PanelOf[pane.name] /\ PanelShape(pane.name, pane)
         /\ pane.name \in DOMAIN shown
  BY PaneFacts DEF LoadsInv
<1>4. led \subseteq PickNames \ {"page"}
  BY <1>2, <1>3 DEF PanelShape, PickNames
<1>5. \A pane \in PagePanels \ due : pane.pick \in PickNames \ touched /\ lastPicked[pane.pick] = picked[pane.pick]
  BY <1>3 DEF Due, PanelShape, LoadsInv, TouchedTells
<1>a. \A pane \in PagePanels :
         /\ pane.name \in cancelled <=> pane \in due /\ pane.guard = "cancel"
         /\ pane.name \in emptied <=> pane \in due /\ (pane.cleared \/ picked[pane.pick] = NoPick)
         /\ pane \in due /\ pane.asked /\ picked[pane.pick] # NoPick =>
               AskFor(pane.name, picked[pane.pick], Later) \in new
  BY <1>2, <1>3
<1>b. \A ask \in new : \E pane \in due : ask = AskFor(pane.name, picked[pane.pick], Later)
  OBVIOUS
<1> HIDE DEF due, cancelled, led, emptied, new
<1>6. Picked' /\ TouchedTells'
  <2>1. Picked'
    BY <1>1, <1>4 DEF LoadsInv, Picked, PickNames
  <2>2. ASSUME NEW pick \in PickNames, pick \notin touched'
        PROVE  lastPicked'[pick] = picked'[pick]
    <3>1. pick \in led => picked[pick] = NoPick
      BY <1>1, <2>2
    <3>2. QED
      BY <1>1, <3>1
  <2>3. QED
    BY <2>1, <2>2 DEF TouchedTells
<1>7. ASSUME NEW ask \in asks'
      PROVE  AskOf(ask, lastPicked', PagePanels')
  <2>1. CASE ask \in new
    <3>1. PICK pane \in due : ask = AskFor(pane.name, picked[pane.pick], Later)
      BY <1>b, <2>1
    <3>2. DOMAIN ask = {"name", "of", "n", "answer"} /\ ask.name = pane.name /\ ask.of = picked[pane.pick]
      BY <3>1 DEF AskFor
    <3>3. QED
      BY <1>1, <1>2, <1>3, <3>2 DEF AskOf, LoadsInv, Picked
  <2>2. CASE ask \notin new
    <3>1. ask \in asks /\ ask.name \notin cancelled
      BY <1>1, <2>2
    <3>2. AskOf(ask, lastPicked, PagePanels)
      BY <3>1 DEF LoadsInv
    <3>3. PanelOf[ask.name].guard = "cancel" =>
            lastPicked[PanelOf[ask.name].pick] = picked[PanelOf[ask.name].pick]
      <4>1. PanelOf[ask.name] \in PagePanels /\ PanelOf[ask.name].name = ask.name
        BY <3>2, ShapesHold DEF AskOf, PanelShape
      <4>2. QED
        BY <1>3, <1>5, <1>a, <3>1, <4>1
    <3>4. QED
      BY <1>1, <1>2, <3>2, <3>3 DEF AskOf
  <2>3. QED
    BY <2>1, <2>2
<1>8. ASSUME NEW pane \in PagePanels
      PROVE  PanelHolds(pane, shown'[pane.name], lastPicked', asks', loadFailed')
  <2>1. pane.name \in DOMAIN shown /\ PanelShape(pane.name, pane) /\ PanelHolds(pane, shown[pane.name], lastPicked, asks, loadFailed)
    BY <1>3 DEF LoadsInv
  <2>2. CASE pane \notin due
    <3>1. shown'[pane.name] = shown[pane.name] /\ lastPicked'[pane.pick] = lastPicked[pane.pick]
      BY <1>1, <1>5, <1>a, <2>1, <2>2
    <3>2. ASSUME ~pane.cleared, NEW ask \in asks, ask.name = pane.name
          PROVE  ask \in asks'
      <4>1. \A p \in due : p.next # pane.name
        BY <1>2, <1>3, <3>2, DrcFacts, PanelNamesFacts DEF PanelShape
      <4>2. QED
        BY <1>1, <1>a, <2>2, <3>2, <4>1
    <3>3. QED
      BY <1>1, <2>1, <3>1, <3>2 DEF PanelHolds
  <2>3. CASE pane \in due /\ pane.name \in emptied
    BY <1>1, <2>1, <2>3 DEF PanelHolds
  <2>4. CASE pane \in due /\ pane.name \notin emptied
    <3>1. ~pane.cleared /\ AskFor(pane.name, picked[pane.pick], Later) \in asks'
      BY <1>1, <1>a, <2>1, <2>4 DEF PanelShape
    <3>2. AskFor(pane.name, picked[pane.pick], Later).name = pane.name
      BY DEF AskFor
    <3>3. QED
      BY <3>1, <3>2 DEF PanelHolds
  <2>5. QED
    BY <2>2, <2>3, <2>4
<1>9. /\ DOMAIN shown' = {pane.name : pane \in PagePanels'}
      /\ \A key \in DOMAIN shown' : DOMAIN shown'[key] = {"of", "version", "ids"}
  BY <1>1, <1>2 DEF LoadsInv, NoData
<1>10. QED
  BY <1>1, <1>2, <1>6, <1>7, <1>8, <1>9 DEF LoadsInv, WorkOf

LEMMA ServeAskKeeps == ASSUME LoadsInv, NEW ask \in asks, ServeAsk(ask) PROVE LoadsInv'
<1> DEFINE served == [ask EXCEPT !.answer = facts[<<ask.name, ask.of>>]]
<1>1. /\ mounted' = mounted /\ picked' = picked /\ lastPicked' = lastPicked /\ touched' = touched
      /\ shown' = shown /\ running' = running /\ loadFailed' = loadFailed
      /\ asks' = (asks \ {ask}) \cup {served} /\ PagePanels' = PagePanels
  BY DEF ServeAsk, flags, PagePanels
<1>2. DOMAIN served = {"name", "of", "n", "answer"} /\ served.name = ask.name /\ served.of = ask.of
  BY DEF LoadsInv, AskOf
<1> HIDE DEF served
<1>3. Picked' /\ TouchedTells'
  BY <1>1, PicksStay DEF LoadsInv
<1>4. \A other \in asks' : AskOf(other, lastPicked', PagePanels')
  BY <1>1, <1>2 DEF LoadsInv, AskOf
<1>5. /\ DOMAIN shown' = {pane.name : pane \in PagePanels'}
      /\ \A key \in DOMAIN shown' : DOMAIN shown'[key] = {"of", "version", "ids"}
      /\ \A pane \in PagePanels' : PanelHolds(pane, shown'[pane.name], lastPicked', asks', loadFailed')
  <2>1. \A a \in asks : \E other \in asks' : other.name = a.name
    BY <1>1, <1>2
  <2>2. QED
    BY <1>1, <2>1, ShownStays
<1>6. QED
  BY <1>1, <1>3, <1>4, <1>5 DEF LoadsInv

LEMMA AskLandsKeeps == ASSUME LoadsInv, NEW ask \in asks, AskLands(ask) PROVE LoadsInv'
<1> DEFINE pane == PanelOf[ask.name]
           taken == pane.guard = "cancel" \/ Accepted(ask.name, ask.of)
           id == PickAfter(ask.name, ask.answer.ids, NoPick)
           next == IF pane.next = "none" THEN {} ELSE {AskFor(pane.next, ask.of, ask.n)}
<1>1. /\ mounted' = mounted /\ lastPicked' = lastPicked /\ running' = running /\ loadFailed' = loadFailed
      /\ asks' = (asks \ {ask}) \cup next /\ PagePanels' = PagePanels
      /\ ~taken => shown' = shown /\ picked' = picked /\ touched' = touched
      /\ taken => Show(ask.name, ask.of, ask.answer)
      /\ taken /\ pane.leads = "none" => picked' = picked /\ touched' = touched \cup ({ask.name} \cap Watched)
      /\ taken /\ pane.leads # "none" =>
            /\ picked' = [picked EXCEPT ![pane.leads] = id]
            /\ touched' = touched \cup ({ask.name} \cap Watched) \cup (IF picked[pane.leads] = id THEN {} ELSE {pane.leads})
  BY DEF AskLands, PagePanels, AndTouch
<1>2. /\ ask.name \in PanelNames /\ pane \in PagePanels /\ PanelShape(ask.name, pane)
      /\ pane.guard = "cancel" => ask.of = lastPicked[pane.pick]
      /\ pane.pick = "page" => ask.of = lastPicked[pane.pick] /\ ask.of = 1
  BY ShapesHold DEF LoadsInv, AskOf, Picked
<1>3. \A new \in next : /\ DOMAIN new = {"name", "of", "n", "answer"} /\ new.of = ask.of /\ new.name = pane.next
                       /\ pane.next # "none"
  BY DEF AskFor
<1> HIDE DEF id, next
<1>4. Picked' /\ TouchedTells'
  <2>1. CASE taken /\ pane.leads # "none"
    <3>1. pane.leads \in PickNames \ {"page"}
      BY <1>2, <2>1 DEF PanelShape, PickNames
    <3>2. QED
      BY <1>1, <2>1, <3>1, PickMoves DEF LoadsInv
  <2>2. CASE ~(taken /\ pane.leads # "none")
    <3>1. picked' = picked /\ touched \subseteq touched'
      BY <1>1, <2>2
    <3>2. QED
      BY <1>1, <3>1, PicksStay DEF LoadsInv
  <2>3. QED
    BY <2>1, <2>2
<1>5. ASSUME NEW other \in asks'
      PROVE  AskOf(other, lastPicked', PagePanels')
  <2>1. CASE other \in asks
    BY <1>1, <2>1 DEF LoadsInv
  <2>2. CASE other \in next
    <3>1. pane.next = "drc" /\ pane.guard = "cancel" /\ pane.pick = "project" /\ PanelOf["drc"] \in PagePanels
      BY <1>2, <1>3, <2>2, NextFacts DEF PagePanels, LoadsInv
    <3>2. QED
      BY <1>1, <1>2, <1>3, <2>2, <3>1, DrcFacts DEF AskOf
  <2>3. QED
    BY <1>1, <2>1, <2>2
<1>6. /\ DOMAIN shown' = {p.name : p \in PagePanels'}
      /\ \A key \in DOMAIN shown' : DOMAIN shown'[key] = {"of", "version", "ids"}
      /\ \A p \in PagePanels' : PanelHolds(p, shown'[p.name], lastPicked', asks', loadFailed')
  <2>1. CASE taken
    <3>1. ask.of = lastPicked[PanelOf[ask.name].pick] \/ PanelOf[ask.name] = TagScheme
      BY <1>2, <2>1 DEF Accepted, PanelShape
    <3>2. \A a \in asks : a.name # ask.name => \E other \in asks' : other.name = a.name
      BY <1>1
    <3>3. QED
      BY <1>1, <1>2, <2>1, <3>1, <3>2, Landing
  <2>2. CASE ~taken
    <3>1. pane.guard = "ref"
      BY <1>2, <2>2 DEF Accepted, PanelShape
    <3>2. \A a \in asks : PanelOf[a.name].guard = "ref" \/ \E other \in asks' : other.name = a.name
      BY <1>1, <3>1
    <3>3. QED
      BY <1>1, <2>2, <3>2, ShownStays
  <2>3. QED
    BY <2>1, <2>2
<1>7. QED
  BY <1>1, <1>4, <1>5, <1>6 DEF LoadsInv

LEMMA AskFailsKeeps == ASSUME LoadsInv, NEW ask \in asks, AskFails(ask) PROVE LoadsInv'
<1>1. /\ mounted' = mounted /\ lastPicked' = lastPicked /\ running' = running /\ loadFailed' = TRUE
      /\ asks' = asks \ {ask} /\ PagePanels' = PagePanels /\ picked' = picked /\ touched \subseteq touched'
      /\ shown' = [shown EXCEPT ![ask.name] = NoData] \/ shown' = shown
  BY DEF AskFails, PagePanels, AndTouch
<1>2. Picked' /\ TouchedTells'
  BY <1>1, PicksStay DEF LoadsInv
<1>3. \A other \in asks' : AskOf(other, lastPicked', PagePanels')
  BY <1>1 DEF LoadsInv
<1>4. DOMAIN NoData = {"of", "version", "ids"}
  BY DEF NoData
<1>5. /\ DOMAIN shown' = {pane.name : pane \in PagePanels'}
      /\ \A key \in DOMAIN shown' : DOMAIN shown'[key] = {"of", "version", "ids"}
  BY <1>1, <1>4 DEF LoadsInv
<1>6. ASSUME NEW pane \in PagePanels
      PROVE  PanelHolds(pane, shown'[pane.name], lastPicked', asks', loadFailed')
  <2>1. pane.name \in DOMAIN shown /\ PanelHolds(pane, shown[pane.name], lastPicked, asks, loadFailed)
    BY DEF LoadsInv
  <2>2. shown'[pane.name] = NoData \/ shown'[pane.name] = shown[pane.name]
    BY <1>1, <2>1
  <2>3. QED
    BY <1>1, <2>1, <2>2 DEF PanelHolds
<1>7. QED
  BY <1>1, <1>2, <1>3, <1>5, <1>6 DEF LoadsInv

\* The steps that ask for nothing and show nothing: picks of the user, and the works of buttons but their answers.
LEMMA PicksAndWorksKeep ==
    ASSUME LoadsInv, mounted' = mounted, lastPicked' = lastPicked, shown' = shown, asks' = asks,
           loadFailed => loadFailed', Picked' /\ TouchedTells', \A job \in running' : WorkOf(job, mounted)
    PROVE  LoadsInv'
<1>1. PagePanels' = PagePanels
  BY DEF PagePanels
<1>2. /\ DOMAIN shown' = {pane.name : pane \in PagePanels'}
      /\ \A key \in DOMAIN shown' : DOMAIN shown'[key] = {"of", "version", "ids"}
      /\ \A pane \in PagePanels' : PanelHolds(pane, shown'[pane.name], lastPicked', asks', loadFailed')
  <2>1. \A ask \in asks : \E other \in asks' : other.name = ask.name
    OBVIOUS
  <2>2. QED
    BY <2>1, ShownStays
<1>3. QED
  BY <1>1, <1>2 DEF LoadsInv

LEMMA PickTopKeeps ==
    ASSUME LoadsInv, NEW pick \in {"project", "part", "revision"}, NEW id \in Tops, PickTop(pick, id)
    PROVE  LoadsInv'
<1>1. Picked' /\ TouchedTells'
  <2>1. pick \in PickNames \ {"page"}
    BY DEF PickNames
  <2>2. /\ lastPicked' = lastPicked /\ picked' = [picked EXCEPT ![pick] = id]
        /\ touched \subseteq touched' /\ (picked[pick] = id \/ pick \in touched')
    BY DEF PickTop, Pick
  <2>3. QED
    BY <2>1, <2>2, PickMoves DEF LoadsInv
<1>2. QED
  BY <1>1, PicksAndWorksKeep DEF PickTop, flags, LoadsInv

LEMMA PickRowKeeps ==
    ASSUME LoadsInv, NEW pane \in PagePanels, NEW id \in shown[pane.name].ids, PickRow(pane, id)
    PROVE  LoadsInv'
<1>1. Picked' /\ TouchedTells'
  <2>1. pane.leads \in PickNames \ {"page"}
    BY PaneFacts DEF PanelShape, PickNames, PickRow, LoadsInv
  <2>2. /\ lastPicked' = lastPicked /\ picked' = [picked EXCEPT ![pane.leads] = id]
        /\ touched \subseteq touched' /\ (picked[pane.leads] = id \/ pane.leads \in touched')
    BY DEF PickRow, Pick
  <2>3. QED
    BY <2>1, <2>2, PickMoves DEF LoadsInv
<1>2. QED
  BY <1>1, PicksAndWorksKeep DEF PickRow, flags, LoadsInv

LEMMA PressKeeps ==
    ASSUME LoadsInv, NEW button \in ButtonsOn[mounted], NEW gone, Press(button, gone)
    PROVE  LoadsInv'
<1> DEFINE new == [button |-> button, at |-> picked[button.pick], n |-> presses, gone |-> gone,
                   new |-> NoPick, step |-> 0, answer |-> NoAnswer]
<1>1. /\ mounted' = mounted /\ lastPicked' = lastPicked /\ shown' = shown /\ asks' = asks
      /\ loadFailed' = loadFailed /\ picked' = picked /\ touched' = touched /\ running' = running \cup {new}
  BY DEF Press, flags
<1>2. WorkOf(new, mounted)
  BY ButtonsHold DEF WorkOf, LoadsInv, Picked, ButtonShape
<1> HIDE DEF new
<1>3. Picked' /\ TouchedTells'
  BY <1>1, PicksStay DEF LoadsInv
<1>4. QED
  BY <1>1, <1>2, <1>3, PicksAndWorksKeep DEF LoadsInv

LEMMA ServeChangeKeeps == ASSUME LoadsInv, NEW job \in running, ServeChange(job) PROVE LoadsInv'
<1> DEFINE list == job.button.reloads[1]
           reply(n) == IF job.button.rows \in {"merge", "answer"}
                       THEN AfterChange(job, n)[<<list, OwnerFor(job, list)>>] ELSE NoAnswer
<1>a. PICK new \in NewRows(job) :
         running' = (running \ {job}) \cup {[job EXCEPT !.step = 1, !.new = new, !.answer = reply(new)]}
  BY DEF ServeChange
<1>1. PICK answer : running' = (running \ {job}) \cup {[job EXCEPT !.step = 1, !.new = new, !.answer = answer]}
  BY <1>a
<1> DEFINE served == [job EXCEPT !.step = 1, !.new = new, !.answer = answer]
<1>2. /\ mounted' = mounted /\ lastPicked' = lastPicked /\ shown' = shown /\ asks' = asks
      /\ loadFailed' = loadFailed /\ picked' = picked /\ touched' = touched
  BY DEF ServeChange
<1>3. WorkOf(served, mounted)
  BY ButtonsHold DEF WorkOf, LoadsInv, ButtonShape
<1> HIDE DEF served
<1>4. Picked' /\ TouchedTells'
  BY <1>2, PicksStay DEF LoadsInv
<1>5. QED
  BY <1>1, <1>2, <1>3, <1>4, PicksAndWorksKeep DEF LoadsInv, served

LEMMA ServeReloadKeeps == ASSUME LoadsInv, NEW job \in running, ServeReload(job) PROVE LoadsInv'
<1> DEFINE served == [job EXCEPT !.answer = facts[<<Reloading(job), OwnerFor(job, Reloading(job))>>]]
<1>1. /\ mounted' = mounted /\ lastPicked' = lastPicked /\ shown' = shown /\ asks' = asks
      /\ loadFailed' = loadFailed /\ picked' = picked /\ touched' = touched
      /\ running' = (running \ {job}) \cup {served} /\ job.step > 0
  BY DEF ServeReload, flags
<1>2. WorkOf(served, mounted)
  BY <1>1 DEF WorkOf, LoadsInv
<1> HIDE DEF served
<1>3. Picked' /\ TouchedTells'
  BY <1>1, PicksStay DEF LoadsInv
<1>4. QED
  BY <1>1, <1>2, <1>3, PicksAndWorksKeep DEF LoadsInv

LEMMA ButtonFailsKeeps == ASSUME LoadsInv, NEW job \in running, ButtonFails(job) PROVE LoadsInv'
<1>1. Picked' /\ TouchedTells'
  BY PicksStay DEF LoadsInv, ButtonFails
<1>2. QED
  BY <1>1, PicksAndWorksKeep DEF LoadsInv, ButtonFails

LEMMA WorkLandsKeeps == ASSUME LoadsInv, NEW job \in running, WorkLands(job) PROVE LoadsInv'
<1> DEFINE name == Reloading(job)
           of == OwnerFor(job, name)
           leads == PanelOf[name].leads
           id == SelectedThen(job, name)
           merges == job.button.rows = "merge"
           lands == job.button.rows = "answer" \/ Accepted(name, of)
           next == [job EXCEPT !.step = @ + 1, !.answer = NoAnswer]
           data == [shown[name] EXCEPT !.version = job.answer.version]
<1>1. /\ mounted' = mounted /\ lastPicked' = lastPicked /\ asks' = asks /\ loadFailed' = loadFailed
      /\ running' = (running \ {job}) \cup (IF job.step = Len(job.button.reloads) THEN {} ELSE {next})
      /\ merges \/ ~lands \/ leads = "none" => picked' = picked /\ touched \subseteq touched'
      /\ merges => \/ shown' = [shown EXCEPT ![name] = shown[name]]
                   \/ shown[name] # NoData /\ shown[name].of = of /\ shown' = [shown EXCEPT ![name] = data]
      /\ ~merges /\ lands => Show(name, of, job.answer)
      /\ ~merges /\ lands /\ leads # "none" =>
            /\ picked' = [picked EXCEPT ![leads] = id]
            /\ touched \subseteq touched' /\ (picked[leads] = id \/ leads \in touched')
      /\ ~merges /\ ~lands => shown' = shown
  BY DEF WorkLands, Merge, AndTouch
<1>2. /\ WorkOf(job, mounted) /\ job.answer # NoAnswer /\ ButtonShape(job.button)
      /\ name \in PanelNames /\ PanelShape(name, PanelOf[name])
      /\ PanelOf[name].pick = "page" => job.button.pick = "page"
      /\ job.button.rows = "answer" => PanelOf[name].guard = "none"
  <2>1. WorkOf(job, mounted) /\ job.answer # NoAnswer /\ ButtonShape(job.button)
    BY ButtonsHold DEF LoadsInv, WorkOf, WorkLands
  <2>2. job.step \in DOMAIN job.button.reloads
    BY <2>1 DEF WorkOf, ButtonShape
  <2>3. QED
    BY <2>1, <2>2, ShapesHold DEF ButtonShape, Reloading
<1>3. WorkOf(next, mounted) \/ job.step = Len(job.button.reloads)
  BY <1>2 DEF WorkOf, ButtonShape
<1>4. DOMAIN shown[name] = {"of", "version", "ids"} => DOMAIN data = {"of", "version", "ids"} /\ data.of = shown[name].of
  OBVIOUS
<1> HIDE DEF id, next, data, name, of
<1>5. Picked' /\ TouchedTells'
  <2>1. CASE ~merges /\ lands /\ leads # "none"
    <3>1. leads \in PickNames \ {"page"}
      BY <1>2, <2>1 DEF PanelShape, PickNames
    <3>2. QED
      BY <1>1, <2>1, <3>1, PickMoves DEF LoadsInv
  <2>2. CASE ~(~merges /\ lands /\ leads # "none")
    BY <1>1, <2>2, PicksStay DEF LoadsInv
  <2>3. QED
    BY <2>1, <2>2
<1>6. \A other \in running' : WorkOf(other, mounted)
  BY <1>1, <1>3 DEF LoadsInv
<1>7. /\ PagePanels' = PagePanels
      /\ \A ask \in asks : \E other \in asks' : other.name = ask.name
  BY <1>1 DEF PagePanels
<1>8. /\ DOMAIN shown' = {p.name : p \in PagePanels'}
      /\ \A key \in DOMAIN shown' : DOMAIN shown'[key] = {"of", "version", "ids"}
      /\ \A p \in PagePanels' : PanelHolds(p, shown'[p.name], lastPicked', asks', loadFailed')
  <2>1. CASE ~merges /\ lands
    <3>1. PanelOf[name].pick = "page" => of = lastPicked[PanelOf[name].pick]
      BY <1>2 DEF of, OwnerFor, WorkOf, LoadsInv, Picked
    <3>2. of = lastPicked[PanelOf[name].pick] \/ PanelOf[name] = TagScheme
      BY <1>2, <2>1, <3>1 DEF Accepted, PanelShape
    <3>3. QED
      BY <1>1, <1>2, <1>7, <2>1, <3>2, Landing
  <2>2. CASE merges
    <3>1. DOMAIN shown' = DOMAIN shown
      BY <1>1, <2>2
    <3>2. ASSUME NEW key \in DOMAIN shown
          PROVE  /\ DOMAIN shown'[key] = {"of", "version", "ids"}
                 /\ shown'[key] = shown[key] \/ (shown[key] # NoData /\ shown'[key].of = shown[key].of)
      BY <1>1, <1>4, <2>2 DEF LoadsInv
    <3>3. ASSUME NEW p \in PagePanels
          PROVE  PanelHolds(p, shown'[p.name], lastPicked', asks', loadFailed')
      <4>1. p.name \in DOMAIN shown /\ PanelHolds(p, shown[p.name], lastPicked, asks, loadFailed)
        BY DEF LoadsInv
      <4>2. QED
        BY <1>1, <3>2, <4>1 DEF PanelHolds
    <3>4. QED
      BY <1>7, <3>1, <3>2, <3>3 DEF LoadsInv
  <2>3. CASE ~merges /\ ~lands
    BY <1>1, <1>7, <2>3, ShownStays
  <2>4. QED
    BY <2>1, <2>2, <2>3
<1>9. QED
  BY <1>1, <1>5, <1>6, <1>7, <1>8 DEF LoadsInv

LEMMA LoadsStep == LoadsInv /\ [LoadsNext]_loadsVars => LoadsInv'
<1> SUFFICES ASSUME LoadsInv, [LoadsNext]_loadsVars PROVE LoadsInv'
  OBVIOUS
<1>1. CASE Effects
  BY <1>1, EffectsKeep
<1>2. ASSUME NEW ask \in asks, ServeAsk(ask) \/ AskLands(ask) \/ AskFails(ask) PROVE LoadsInv'
  BY <1>2, ServeAskKeeps, AskLandsKeeps, AskFailsKeeps
<1>3. ASSUME NEW pick \in {"project", "part", "revision"}, NEW id \in Tops, PickTop(pick, id) PROVE LoadsInv'
  BY <1>3, PickTopKeeps
<1>4. ASSUME NEW pane \in PagePanels, NEW id \in shown[pane.name].ids, PickRow(pane, id) PROVE LoadsInv'
  BY <1>4, PickRowKeeps
<1>5. ASSUME NEW button \in ButtonsOn[mounted], NEW gone \in Deleting(button), Press(button, gone) PROVE LoadsInv'
  BY <1>5, PressKeeps
<1>6. ASSUME NEW job \in running, ServeChange(job) \/ ServeReload(job) \/ WorkLands(job) \/ ButtonFails(job)
      PROVE  LoadsInv'
  BY <1>6, ServeChangeKeeps, ServeReloadKeeps, WorkLandsKeeps, ButtonFailsKeeps
<1>7. CASE UNCHANGED loadsVars
  BY <1>7, PicksAndWorksKeep, PicksStay DEF loadsVars, LoadsInv
<1>8. QED
  BY <1>1, <1>2, <1>3, <1>4, <1>5, <1>6, <1>7 DEF LoadsNext

LEMMA PicksFromInv == LoadsInv => PanelsShowTheirPick
<1> SUFFICES ASSUME LoadsInv, touched = {}, NEW pane \in PagePanels
             PROVE  \/ shown[pane.name] = NoData \/ shown[pane.name].of = picked[pane.pick]
                    \/ ~pane.cleared /\ (loadFailed \/ \E ask \in asks : ask.name = pane.name)
                    \/ pane = TagScheme
  BY DEF PanelsShowTheirPick, Rendered
<1>1. pane.pick \in PickNames
  BY PaneFacts DEF PanelShape, LoadsInv
<1>2. lastPicked[pane.pick] = picked[pane.pick]
  BY <1>1 DEF LoadsInv, TouchedTells
<1>3. QED
  BY <1>2 DEF LoadsInv, PanelHolds

\* Whatever answers of earlier picks, reloads and buttons come in, between renders each panel of every
\* page shows the data of what is picked, for any projects, rows and number of picks and presses.
THEOREM PicksShown == LoadsSpec => []PanelsShowTheirPick
<1>1. LoadsInv /\ [LoadsNext]_loadsVars => LoadsInv'
  BY LoadsStep
<1>2. QED
  BY InitialLoads, <1>1, PicksFromInv, PTL DEF LoadsSpec

-----------------------------------------------------------------------------
(* What is loaded: its types.                                              *)

\* The picks and the data under way are what the server and its lists name.
RowsTyped(name, ids) == PanelOf[name].leads # "none" => ids \subseteq PickableIds(PanelOf[name].leads)

AnswerTyped(answer, name, of, held) ==
    /\ answer.version \in 0..held[<<name, of>>].version
    /\ RowsTyped(name, answer.ids)

LoadKeys == UNION {{pane.name} \X PickableIds(pane.pick) : pane \in PagePanels}

FactTyped(fact, name) ==
    /\ DOMAIN fact = {"version", "ids"} /\ fact.version \in Nat /\ RowsTyped(name, fact.ids)
    /\ name \notin Changing => fact.version = 0

AskTyped(ask, held) ==
    /\ ask.of \in PickableIds(PanelOf[ask.name].pick)
    /\ ask.answer # NoAnswer => AnswerTyped(ask.answer, ask.name, ask.of, held)

JobTyped(job, held) ==
    /\ job.at \in PickableIds(job.button.pick)
    /\ \A i \in DOMAIN job.button.reloads : RowsTyped(job.button.reloads[i], {job.new} \ {NoPick})
    /\ job.answer # NoAnswer => AnswerTyped(job.answer, Reloading(job), OwnerFor(job, Reloading(job)), held)

DataTyped(data, name, held) ==
    data # NoData => data.of \in PickableIds(PanelOf[name].pick) /\ AnswerTyped(data, name, data.of, held)

LoadsTyped ==
    /\ \A pick \in PickNames : {picked[pick], lastPicked[pick]} \subseteq PickableIds(pick) \cup {NoPick}
    /\ DOMAIN facts = LoadKeys
    /\ \A key \in LoadKeys : FactTyped(facts[key], key[1])
    /\ \A name \in DOMAIN shown : DataTyped(shown[name], name, facts)
    /\ \A ask \in asks : AskTyped(ask, facts)
    /\ \A job \in running : JobTyped(job, facts)

\* The picks: what nothing leads, the rows of those, and theirs.
LEMMA PickFacts ==
    /\ Tops \subseteq 1..9 /\ Mids \subseteq 11..99
    /\ \A pick \in PickNames :
          /\ PickableIds(pick) \subseteq Nat \ {0}
          /\ pick = "page" => PickableIds(pick) = {1}
          /\ pick \in {"requirement", "drawing"} => PickableIds(pick) = Mids
          /\ pick \in {"project", "part", "revision"} => PickableIds(pick) = Tops
    /\ \A id \in Mids : Above(id) \in Tops
    /\ \A id \in PickableIds("bom") : Above(id) \in Mids
<1> USE PageLoadsAssumption
<1>1. Tops \subseteq 1..9
  OBVIOUS
<1>2. \A id \in Mids : id \in 11..99 /\ Above(id) \in Tops
  <2>1. SUFFICES ASSUME NEW of \in Tops, NEW k \in 1..(FirstRows + MaxPresses)
                 PROVE  Child(of, k) \in 11..99 /\ Above(Child(of, k)) \in Tops
    BY DEF Mids
  <2>2. of \in 1..9 /\ k \in 1..9
    OBVIOUS
  <2>3. (10 * of + k) \div 10 = of
    BY <2>2
  <2>4. QED
    BY <2>2, <2>3 DEF Child, Above
<1>3. \A id \in PickableIds("bom") : id \in Nat \ {0} /\ Above(id) \in Mids
  <2>1. SUFFICES ASSUME NEW of \in Mids, NEW k \in 1..(FirstLeaves + MaxPresses)
                 PROVE  Child(of, k) \in Nat \ {0} /\ Above(Child(of, k)) \in Mids
    BY DEF PickableIds
  <2>2. of \in 11..99 /\ k \in 1..9
    BY <1>2
  <2>3. (10 * of + k) \div 10 = of
    BY <2>2
  <2>4. QED
    BY <2>2, <2>3 DEF Child, Above
<1>4. QED
  BY <1>1, <1>2, <1>3 DEF PickNames, PickableIds

LEMMA LeadFacts ==
    \A name \in PanelNames :
       PanelOf[name].leads # "none" =>
          \/ PanelOf[name].pick = "project" /\ PanelOf[name].leads \in {"requirement", "drawing"}
          \/ PanelOf[name].pick = "drawing" /\ PanelOf[name].leads = "bom"
BY ShapesHold DEF PanelShape

\* A list begins with rows its pick may take.
LEMMA FirstRowsFacts ==
    ASSUME NEW name \in PanelNames, PanelOf[name].leads # "none", NEW of \in PickableIds(PanelOf[name].pick)
    PROVE  Rows(of) \subseteq PickableIds(PanelOf[name].leads)
<1>1. \/ PanelOf[name].pick = "project" /\ PanelOf[name].leads \in {"requirement", "drawing"}
      \/ PanelOf[name].pick = "drawing" /\ PanelOf[name].leads = "bom"
  BY LeadFacts
<1>2. CASE PanelOf[name].pick = "project" /\ PanelOf[name].leads \in {"requirement", "drawing"}
  <2>1. of \in Tops /\ PickableIds(PanelOf[name].leads) = Mids
    BY <1>2 DEF PickableIds
  <2>2. \A k \in 1..FirstRows : k \in 1..(FirstRows + MaxPresses)
    BY PageLoadsAssumption
  <2>3. QED
    BY <2>1, <2>2 DEF Rows, Mids
<1>3. CASE PanelOf[name].pick = "drawing" /\ PanelOf[name].leads = "bom"
  <2>1. of \in Mids /\ of \notin Tops
    BY <1>3, PickFacts DEF PickableIds
  <2>2. \A k \in 1..FirstLeaves : k \in 1..(FirstLeaves + MaxPresses)
    BY PageLoadsAssumption
  <2>3. QED
    BY <1>3, <2>1, <2>2 DEF Rows, PickableIds
<1>4. QED
  BY <1>1, <1>2, <1>3

\* Which panels a button reads again, changes and fills, by the page it is on.
ButtonPlace(button, page) ==
    /\ button.pick \in PickNames
    /\ \A i \in DOMAIN button.reloads :
          /\ PanelOf[button.reloads[i]] \in PanelsOn[page]
          /\ \/ PanelOf[button.reloads[i]].pick = button.pick
             \/ button.pick = "requirement" /\ PanelOf[button.reloads[i]].pick = "project"
             \/ button.pick = "bom" /\ PanelOf[button.reloads[i]].pick = "drawing"
    /\ button.rows \in {"add", "merge", "answer"} => Len(button.reloads) = 1

LEMMA PlacedPicks ==
    /\ PanelOf["requirements"].pick = "project" /\ PanelOf["traceLinks"].pick = "requirement"
    /\ PanelOf["verification"].pick = "project" /\ PanelOf["snapshots"].pick = "drawing"
    /\ PanelOf["diff"].pick = "bom" /\ PanelOf["documents"].pick = "part"
    /\ PanelOf["lineClasses"].pick = "project" /\ PanelOf["tagScheme"].pick = "project"
    /\ PanelOf["catalogSettings"].pick = "page" /\ PanelOf["users"].pick = "page"
BY DEF PanelOf, Panel, Requirements, TraceLinks, Verification, Snapshots, BomDiff, PartDocuments, LineClasses, TagScheme,
       CatalogSettings, UserAccounts

LEMMA PlacedPanels ==
    /\ {PanelOf["requirements"], PanelOf["traceLinks"], PanelOf["verification"]} \subseteq PanelsOn["requirements"]
    /\ {PanelOf["snapshots"], PanelOf["diff"]} \subseteq PanelsOn["bom"]
    /\ PanelOf["documents"] \in PanelsOn["parts"]
    /\ {PanelOf["lineClasses"], PanelOf["tagScheme"], PanelOf["catalogSettings"], PanelOf["users"]}
          \subseteq PanelsOn["settings"]
BY DEF PanelOf, PanelsOn

LEMMA ButtonPlaces == \A page \in PageNames : \A button \in ButtonsOn[page] : ButtonPlace(button, page)
<1> USE PlacedPicks, PlacedPanels DEF PickNames
<1>1. ButtonPlace(SubmitRequirement, "requirements")
  BY DEF ButtonPlace, Button, SubmitRequirement
<1>2. ButtonPlace(UpdateRequirement, "requirements")
  BY DEF ButtonPlace, Button, UpdateRequirement
<1>3. ButtonPlace(DeleteRequirement, "requirements")
  BY DEF ButtonPlace, Button, DeleteRequirement
<1>4. ButtonPlace(CommitRequirements, "requirements")
  BY DEF ButtonPlace, Button, CommitRequirements
<1>5. ButtonPlace(BulkSetRequirements, "requirements")
  BY DEF ButtonPlace, Button, BulkSetRequirements
<1>6. ButtonPlace(BulkDeleteRequirements, "requirements")
  BY DEF ButtonPlace, Button, BulkDeleteRequirements
<1>7. ButtonPlace(LinkToItem, "requirements")
  BY DEF ButtonPlace, Button, LinkToItem
<1>8. ButtonPlace(LinkToDrawing, "requirements")
  BY DEF ButtonPlace, Button, LinkToItem, LinkToDrawing
<1>9. ButtonPlace(RemoveTraceLink, "requirements")
  BY DEF ButtonPlace, Button, RemoveTraceLink
<1>10. ButtonPlace(GenerateBom, "bom")
  BY DEF ButtonPlace, Button, GenerateBom
<1>11. ButtonPlace(ReleaseBom, "bom")
  BY DEF ButtonPlace, Button, ReleaseBom
<1>12. ButtonPlace(CompareBoms, "bom")
  BY DEF ButtonPlace, Button, CompareBoms
<1>13. ButtonPlace(UploadDocument, "parts")
  BY DEF ButtonPlace, Button, UploadDocument
<1>14. ButtonPlace(DeleteDocument, "parts")
  BY DEF ButtonPlace, Button, DeleteDocument
<1>15. ButtonPlace(CommitLineClasses, "settings")
  BY DEF ButtonPlace, Button, CommitLineClasses
<1>16. ButtonPlace(AddLineClass, "settings")
  BY DEF ButtonPlace, Button, AddLineClass
<1>17. ButtonPlace(CreatePasted, "settings")
  BY DEF ButtonPlace, Button, CreatePasted
<1>18. ButtonPlace(RemoveLineClasses, "settings")
  BY DEF ButtonPlace, Button, RemoveLineClasses
<1>19. ButtonPlace(ImportLineClassFile, "settings")
  BY DEF ButtonPlace, Button, ImportLineClassFile
<1>20. ButtonPlace(ImportLineClassText, "settings")
  BY DEF ButtonPlace, Button, ImportLineClassText
<1>21. ButtonPlace(SaveTagScheme, "settings")
  BY DEF ButtonPlace, Button, SaveTagScheme
<1>22. ButtonPlace(SaveCatalogSettings, "settings")
  BY DEF ButtonPlace, Button, SaveCatalogSettings
<1>23. ButtonPlace(SubmitUser, "settings")
  BY DEF ButtonPlace, Button, SubmitUser
<1>24. ButtonPlace(UpdateUser, "settings")
  BY DEF ButtonPlace, Button, UpdateUser
<1>25. QED
  BY <1>1, <1>2, <1>3, <1>4, <1>5, <1>6, <1>7, <1>8, <1>9, <1>10, <1>11, <1>12, <1>13, <1>14, <1>15,
     <1>16, <1>17, <1>18, <1>19, <1>20, <1>21, <1>22, <1>23, <1>24 DEF ButtonsOn, PageNames, PanelsOn

LEMMA KeyFacts ==
    ASSUME mounted \in PageNames
    PROVE  /\ \A name \in PanelNames : PanelOf[name] \in PagePanels =>
                 \A x \in PickableIds(PanelOf[name].pick) : <<name, x>> \in LoadKeys
           /\ \A key \in LoadKeys :
                 /\ key = <<key[1], key[2]>> /\ key[1] \in PanelNames
                 /\ PanelOf[key[1]] \in PagePanels /\ key[2] \in PickableIds(PanelOf[key[1]].pick)
<1>1. ASSUME NEW name \in PanelNames, PanelOf[name] \in PagePanels, NEW x \in PickableIds(PanelOf[name].pick)
      PROVE  <<name, x>> \in LoadKeys
  <2>1. PanelOf[name].name = name
    BY ShapesHold DEF PanelShape
  <2>2. <<name, x>> \in {PanelOf[name].name} \X PickableIds(PanelOf[name].pick)
    BY <2>1
  <2>3. QED
    BY <1>1, <2>2 DEF LoadKeys
<1>2. ASSUME NEW key \in LoadKeys
      PROVE  /\ key = <<key[1], key[2]>> /\ key[1] \in PanelNames
             /\ PanelOf[key[1]] \in PagePanels /\ key[2] \in PickableIds(PanelOf[key[1]].pick)
  <2>1. PICK pane \in PagePanels : key \in {pane.name} \X PickableIds(pane.pick)
    BY DEF LoadKeys
  <2>2. QED
    BY <2>1, PaneFacts
<1>3. QED
  BY <1>1, <1>2

LEMMA OwnerTyped ==
    ASSUME NEW page \in PageNames, NEW job, job.button \in ButtonsOn[page], job.at \in PickableIds(job.button.pick),
           NEW i \in DOMAIN job.button.reloads
    PROVE  OwnerFor(job, job.button.reloads[i]) \in PickableIds(PanelOf[job.button.reloads[i]].pick)
<1>1. ButtonPlace(job.button, page)
  BY ButtonPlaces
<1>2. /\ job.button.pick = "requirement" /\ PanelOf[job.button.reloads[i]].pick = "project" =>
            Above(job.at) \in PickableIds("project")
      /\ job.button.pick = "bom" /\ PanelOf[job.button.reloads[i]].pick = "drawing" =>
            Above(job.at) \in PickableIds("drawing")
  BY PickFacts DEF PickNames
<1>3. QED
  BY <1>1, <1>2 DEF ButtonPlace, OwnerFor

LEMMA FirstTyped ==
    ASSUME NEW ids \in SUBSET (Nat \ {0})
    PROVE  First(ids) \in ids \cup {NoPick}
<1>1. CASE ids # {}
  <2>1. PICK x \in ids : \A y \in ids : x <= y
    BY <1>1, LeastNatural
  <2>2. Min(ids) \in ids
    BY <2>1 DEF Min
  <2>3. QED
    BY <1>1, <2>2 DEF First
<1>2. QED
  BY <1>1 DEF First

LEMMA RowsFacts ==
    ASSUME NEW name \in PanelNames, PanelOf[name].leads # "none", NEW ids, RowsTyped(name, ids)
    PROVE  /\ PanelOf[name].leads \in PickNames \ {"page"}
           /\ First(ids) \in PickableIds(PanelOf[name].leads) \cup {NoPick}
           /\ \A told : told \in PickableIds(PanelOf[name].leads) \cup {NoPick} =>
                 PickAfter(name, ids, told) \in PickableIds(PanelOf[name].leads) \cup {NoPick}
<1>1. PanelOf[name].leads \in PickNames \ {"page"}
  BY LeadFacts DEF PickNames
<1>2. ids \subseteq PickableIds(PanelOf[name].leads) /\ ids \in SUBSET (Nat \ {0})
  BY <1>1, PickFacts DEF RowsTyped
<1>3. First(ids) \in ids \cup {NoPick}
  BY <1>2, FirstTyped
<1>4. QED
  BY <1>1, <1>2, <1>3 DEF PickAfter

LEMMA InitialTypes == LoadsInit => LoadsTyped
<1> SUFFICES ASSUME LoadsInit PROVE LoadsTyped
  OBVIOUS
<1>1. mounted \in PageNames /\ DOMAIN facts = LoadKeys
  BY DEF LoadsInit, LoadKeys
<1>2. ASSUME NEW key \in LoadKeys
      PROVE  FactTyped(facts[key], key[1])
  <2>1. facts[key] = [version |-> 0, ids |-> IF PanelOf[key[1]].leads = "none" THEN {} ELSE Rows(key[2])]
    BY DEF LoadsInit, LoadKeys
  <2>2. QED
    BY <1>1, <2>1, KeyFacts, FirstRowsFacts DEF FactTyped, RowsTyped
<1>3. ASSUME NEW pick \in PickNames
      PROVE  picked[pick] \in PickableIds(pick) \cup {NoPick}
  <2>1. Tops \in SUBSET Nat /\ Tops # {}
    BY PageLoadsAssumption
  <2>2. Min(Tops) \in Tops
    <3>1. PICK x \in Tops : \A y \in Tops : x <= y
      BY <2>1, LeastNatural
    <3>2. QED
      BY <3>1 DEF Min
  <2>3. QED
    BY <2>2, PickFacts DEF LoadsInit
<1>4. QED
  BY <1>1, <1>2, <1>3 DEF LoadsInit, LoadsTyped, DataTyped

\* The parts of the types that most steps leave alone.
LEMMA TypesStay ==
    ASSUME LoadsInv, LoadsTyped, mounted' = mounted, facts' = facts,
           \A pick \in PickNames : {picked'[pick], lastPicked'[pick]} \subseteq PickableIds(pick) \cup {NoPick},
           \A name \in DOMAIN shown' : DataTyped(shown'[name], name, facts),
           \A ask \in asks' : AskTyped(ask, facts),
           \A job \in running' : JobTyped(job, facts)
    PROVE  LoadsTyped'
BY DEF LoadsTyped, LoadKeys, PagePanels

LEMMA ReadTyped ==
    ASSUME LoadsInv, LoadsTyped, NEW name \in PanelNames, PanelOf[name] \in PagePanels,
           NEW of \in PickableIds(PanelOf[name].pick)
    PROVE  /\ AnswerTyped(facts[<<name, of>>], name, of, facts)
           /\ facts[<<name, of>>] # NoAnswer /\ facts[<<name, of>>].version \in Nat
<1>1. <<name, of>> \in LoadKeys
  BY KeyFacts DEF LoadsInv
<1>2. FactTyped(facts[<<name, of>>], name)
  BY <1>1 DEF LoadsTyped
<1>3. QED
  BY <1>2 DEF FactTyped, AnswerTyped, NoAnswer

LEMMA AskForTyped ==
    ASSUME LoadsInv, LoadsTyped, NEW name \in PanelNames, PanelOf[name] \in PagePanels,
           NEW of \in PickableIds(PanelOf[name].pick), NEW n
    PROVE  AskTyped(AskFor(name, of, n), facts)
<1>1. AnswerTyped(facts[<<name, of>>], name, of, facts)
  BY ReadTyped
<1>2. /\ AskFor(name, of, n).of = of /\ AskFor(name, of, n).name = name
      /\ AskFor(name, of, n).answer \in {NoAnswer, facts[<<name, of>>]}
  BY DEF AskFor
<1> QED
  BY <1>1, <1>2 DEF AskTyped

LEMMA EffectsTypes == ASSUME LoadsInv, LoadsTyped, Effects PROVE LoadsTyped'
<1> DEFINE new == {AskFor(pane.name, picked[pane.pick], Later) :
                      pane \in {p \in Due : p.asked /\ picked[p.pick] # NoPick}}
<1>1. /\ mounted' = mounted /\ facts' = facts /\ running' = running /\ lastPicked' = picked
      /\ \A pick \in PickNames : picked'[pick] \in {picked[pick], NoPick}
      /\ DOMAIN shown' = DOMAIN shown /\ \A name \in DOMAIN shown : shown'[name] \in {shown[name], NoData}
      /\ \A ask \in asks' : ask \in asks \/ ask \in new
  BY DEF Effects
<1>2. ASSUME NEW ask \in new
      PROVE  AskTyped(ask, facts)
  <2>1. PICK pane \in Due : ask = AskFor(pane.name, picked[pane.pick], Later) /\ picked[pane.pick] # NoPick
    OBVIOUS
  <2>2. pane \in PagePanels /\ pane.name \in PanelNames /\ pane = PanelOf[pane.name] /\ pane.pick \in PickNames
    BY PaneFacts DEF Due, LoadsInv, PanelShape
  <2>3. picked[pane.pick] \in PickableIds(pane.pick)
    BY <2>1, <2>2 DEF LoadsTyped
  <2>4. QED
    BY <2>1, <2>2, <2>3, AskForTyped
<1> HIDE DEF new
<1>3. \A name \in DOMAIN shown' : DataTyped(shown'[name], name, facts)
  BY <1>1 DEF LoadsTyped, DataTyped
<1>4. QED
  BY <1>1, <1>2, <1>3, TypesStay DEF LoadsTyped

LEMMA ServeAskTypes == ASSUME LoadsInv, LoadsTyped, NEW ask \in asks, ServeAsk(ask) PROVE LoadsTyped'
<1> DEFINE answer == facts[<<ask.name, ask.of>>]
           served == [ask EXCEPT !.answer = answer]
<1>1. /\ mounted' = mounted /\ facts' = facts /\ running' = running /\ lastPicked' = lastPicked
      /\ picked' = picked /\ shown' = shown /\ asks' = (asks \ {ask}) \cup {served}
  BY DEF ServeAsk, flags
<1>2. AnswerTyped(answer, ask.name, ask.of, facts)
  BY ReadTyped DEF LoadsInv, LoadsTyped, AskOf, AskTyped
<1>3. served.answer = answer /\ served.name = ask.name /\ served.of = ask.of
  BY DEF LoadsInv, AskOf
<1> HIDE DEF answer, served
<1>4. AskTyped(served, facts)
  BY <1>2, <1>3 DEF LoadsTyped, AskTyped
<1>5. QED
  BY <1>1, <1>4, TypesStay DEF LoadsTyped

\* Data that land have the types of their answer.
LEMMA LandingTypes ==
    ASSUME LoadsInv, LoadsTyped, NEW name \in PanelNames, NEW of \in PickableIds(PanelOf[name].pick),
           NEW answer, AnswerTyped(answer, name, of, facts), Show(name, of, answer)
    PROVE  \A key \in DOMAIN shown' : DataTyped(shown'[key], key, facts)
<1> DEFINE data == [of |-> of, version |-> answer.version, ids |-> answer.ids]
<1>1. shown' = [shown EXCEPT ![name] = data]
  BY DEF Show
<1>2. DataTyped(data, name, facts)
  BY DEF DataTyped, AnswerTyped
<1> HIDE DEF data
<1>3. QED
  BY <1>1, <1>2 DEF LoadsTyped

LEMMA AskLandsTypes == ASSUME LoadsInv, LoadsTyped, NEW ask \in asks, AskLands(ask) PROVE LoadsTyped'
<1> DEFINE pane == PanelOf[ask.name]
           taken == pane.guard = "cancel" \/ Accepted(ask.name, ask.of)
           id == PickAfter(ask.name, ask.answer.ids, NoPick)
           next == IF pane.next = "none" THEN {} ELSE {AskFor(pane.next, ask.of, ask.n)}
<1>1. /\ mounted' = mounted /\ facts' = facts /\ lastPicked' = lastPicked /\ running' = running
      /\ asks' = (asks \ {ask}) \cup next
      /\ ~taken => shown' = shown
      /\ taken => Show(ask.name, ask.of, ask.answer)
      /\ picked' = picked \/ (pane.leads # "none" /\ picked' = [picked EXCEPT ![pane.leads] = id])
  BY DEF AskLands, AndTouch
<1>2. /\ ask.name \in PanelNames /\ pane \in PagePanels /\ PanelShape(ask.name, pane) /\ mounted \in PageNames
      /\ ask.of \in PickableIds(pane.pick) /\ AnswerTyped(ask.answer, ask.name, ask.of, facts)
  BY ShapesHold DEF LoadsInv, AskOf, LoadsTyped, AskTyped, AskLands
<1>3. pane.leads # "none" => id \in PickableIds(pane.leads) \cup {NoPick}
  BY <1>2, RowsFacts DEF AnswerTyped
<1>4. \A new \in next : AskTyped(new, facts)
  <2>1. pane.next # "none" => /\ pane.next = "drc" /\ PanelOf["drc"] \in PagePanels /\ ask.of \in PickableIds(PanelOf["drc"].pick)
    BY <1>2, NextFacts, DrcFacts DEF PagePanels
  <2>2. pane.next # "none" => AskTyped(AskFor("drc", ask.of, ask.n), facts)
    BY <2>1, AskForTyped, DrcFacts
  <2>3. QED
    BY <2>1, <2>2
<1> HIDE DEF id, next
<1>5. \A pick \in PickNames : {picked'[pick], lastPicked'[pick]} \subseteq PickableIds(pick) \cup {NoPick}
  BY <1>1, <1>3 DEF LoadsTyped, LoadsInv, Picked
<1>6. \A name \in DOMAIN shown' : DataTyped(shown'[name], name, facts)
  BY <1>1, <1>2, LandingTypes DEF LoadsTyped
<1>7. \A other \in asks' : AskTyped(other, facts)
  BY <1>1, <1>4 DEF LoadsTyped
<1>8. QED
  BY <1>1, <1>5, <1>6, <1>7, TypesStay DEF LoadsTyped

LEMMA AskFailsTypes == ASSUME LoadsInv, LoadsTyped, NEW ask \in asks, AskFails(ask) PROVE LoadsTyped'
<1>1. /\ mounted' = mounted /\ facts' = facts /\ lastPicked' = lastPicked /\ running' = running
      /\ asks' = asks \ {ask} /\ picked' = picked
      /\ shown' = [shown EXCEPT ![ask.name] = NoData] \/ shown' = shown
  BY DEF AskFails, AndTouch
<1>2. \A name \in DOMAIN shown' : DataTyped(shown'[name], name, facts)
  BY <1>1 DEF LoadsTyped, DataTyped
<1>3. QED
  BY <1>1, <1>2, TypesStay DEF LoadsTyped

LEMMA PickTypes ==
    ASSUME LoadsInv, LoadsTyped,
           \/ \E pick \in {"project", "part", "revision"}, id \in Tops : PickTop(pick, id)
           \/ \E pane \in PagePanels : \E id \in shown[pane.name].ids : PickRow(pane, id)
    PROVE  LoadsTyped'
<1>1. /\ mounted' = mounted /\ facts' = facts /\ lastPicked' = lastPicked /\ running' = running /\ asks' = asks /\ shown' = shown
  BY DEF PickTop, PickRow, flags
<1>2. \E pick \in PickNames : \E id \in PickableIds(pick) : picked' = [picked EXCEPT ![pick] = id]
  <2>1. ASSUME NEW pick \in {"project", "part", "revision"}, NEW id \in Tops, PickTop(pick, id)
        PROVE  pick \in PickNames /\ id \in PickableIds(pick) /\ picked' = [picked EXCEPT ![pick] = id]
    BY <2>1, PickFacts DEF PickTop, Pick, PickNames
  <2>2. ASSUME NEW pane \in PagePanels, NEW id \in shown[pane.name].ids, PickRow(pane, id)
        PROVE  pane.leads \in PickNames /\ id \in PickableIds(pane.leads) /\ picked' = [picked EXCEPT ![pane.leads] = id]
    <3>1. pane.name \in PanelNames /\ pane = PanelOf[pane.name] /\ pane.leads # "none" /\ pane.name \in DOMAIN shown
      BY <2>2, PaneFacts DEF LoadsInv, PickRow
    <3>2. RowsTyped(pane.name, shown[pane.name].ids)
      <4>1. NoData.ids = {}
        BY DEF NoData
      <4>2. DataTyped(shown[pane.name], pane.name, facts)
        BY <3>1 DEF LoadsTyped
      <4>3. QED
        BY <4>1, <4>2 DEF DataTyped, AnswerTyped, RowsTyped
    <3>3. QED
      BY <2>2, <3>1, <3>2, RowsFacts DEF RowsTyped, PickRow, Pick
  <2>3. QED
    BY <2>1, <2>2
<1>3. \A pick \in PickNames : {picked'[pick], lastPicked'[pick]} \subseteq PickableIds(pick) \cup {NoPick}
  BY <1>1, <1>2 DEF LoadsTyped, LoadsInv, Picked
<1>4. QED
  BY <1>1, <1>3, TypesStay DEF LoadsTyped

LEMMA PressTypes ==
    ASSUME LoadsInv, LoadsTyped, NEW button \in ButtonsOn[mounted], NEW gone, Press(button, gone)
    PROVE  LoadsTyped'
<1> DEFINE new == [button |-> button, at |-> picked[button.pick], n |-> presses, gone |-> gone,
                   new |-> NoPick, step |-> 0, answer |-> NoAnswer]
<1>1. /\ mounted' = mounted /\ facts' = facts /\ lastPicked' = lastPicked /\ shown' = shown /\ asks' = asks
      /\ picked' = picked /\ running' = running \cup {new} /\ picked[button.pick] # NoPick
  BY DEF Press, flags, Selected
<1>2. JobTyped(new, facts)
  BY <1>1, ButtonPlaces DEF JobTyped, LoadsInv, ButtonPlace, LoadsTyped, RowsTyped
<1> HIDE DEF new
<1>3. QED
  BY <1>1, <1>2, TypesStay DEF LoadsTyped

LEMMA JobReads ==
    ASSUME LoadsInv, LoadsTyped, NEW job \in running, job.step > 0
    PROVE  /\ job.step \in DOMAIN job.button.reloads
           /\ Reloading(job) \in PanelNames /\ PanelOf[Reloading(job)] \in PagePanels
           /\ OwnerFor(job, Reloading(job)) \in PickableIds(PanelOf[Reloading(job)].pick)
<1>1. WorkOf(job, mounted) /\ ButtonShape(job.button) /\ ButtonPlace(job.button, mounted) /\ JobTyped(job, facts)
      /\ mounted \in PageNames
  BY ButtonsHold, ButtonPlaces DEF LoadsInv, WorkOf, LoadsTyped
<1>2. job.step \in DOMAIN job.button.reloads
  BY <1>1 DEF WorkOf, ButtonShape
<1>3. QED
  BY <1>1, <1>2, OwnerTyped DEF WorkOf, ButtonShape, ButtonPlace, JobTyped, Reloading, PagePanels

LEMMA ServeReloadTypes == ASSUME LoadsInv, LoadsTyped, NEW job \in running, ServeReload(job) PROVE LoadsTyped'
<1> DEFINE answer == facts[<<Reloading(job), OwnerFor(job, Reloading(job))>>]
           served == [job EXCEPT !.answer = answer]
<1>1. /\ mounted' = mounted /\ facts' = facts /\ lastPicked' = lastPicked /\ shown' = shown /\ asks' = asks
      /\ picked' = picked /\ running' = (running \ {job}) \cup {served} /\ job.step > 0
  BY DEF ServeReload, flags
<1>2. AnswerTyped(answer, Reloading(job), OwnerFor(job, Reloading(job)), facts)
  BY <1>1, JobReads, ReadTyped
<1>3. /\ served.answer = answer /\ served.button = job.button /\ served.at = job.at /\ served.new = job.new
      /\ served.step = job.step
  BY DEF LoadsInv, WorkOf
<1> HIDE DEF answer, served
<1>4. JobTyped(served, facts)
  <2>1. Reloading(served) = Reloading(job) /\ OwnerFor(served, Reloading(served)) = OwnerFor(job, Reloading(job))
    BY <1>3 DEF Reloading, OwnerFor
  <2>2. QED
    BY <1>2, <1>3, <2>1 DEF LoadsTyped, JobTyped
<1>5. QED
  BY <1>1, <1>4, TypesStay DEF LoadsTyped

LEMMA ButtonFailsTypes == ASSUME LoadsInv, LoadsTyped, NEW job \in running, ButtonFails(job) PROVE LoadsTyped'
BY TypesStay DEF LoadsTyped, ButtonFails

\* A call counts the versions of what it changes up, and adds and removes rows of its list.
LEMMA ChangeFacts ==
    ASSUME LoadsInv, LoadsTyped, NEW job \in running, NEW new \in NewRows(job)
    PROVE  /\ DOMAIN AfterChange(job, new) = LoadKeys
           /\ \A key \in LoadKeys :
                 /\ FactTyped(AfterChange(job, new)[key], key[1])
                 /\ IF key[1] \in job.button.changes /\ key[2] = OwnerFor(job, key[1])
                    THEN AfterChange(job, new)[key].version = facts[key].version + 1
                    ELSE AfterChange(job, new)[key] = facts[key]
           /\ \A i \in DOMAIN job.button.reloads : RowsTyped(job.button.reloads[i], {new} \ {NoPick})
<1> DEFINE list == job.button.reloads[1]
           of == OwnerFor(job, list)
           changed == {<<name, OwnerFor(job, name)>> : name \in job.button.changes}
           ids == (facts[<<list, of>>].ids \ job.gone) \cup ({new} \ {NoPick})
<1>1. /\ mounted \in PageNames /\ job.button \in ButtonsOn[mounted] /\ JobTyped(job, facts)
      /\ ButtonShape(job.button) /\ ButtonPlace(job.button, mounted)
  BY ButtonsHold, ButtonPlaces DEF LoadsInv, WorkOf, LoadsTyped
<1>2. \A i \in DOMAIN job.button.reloads : RowsTyped(job.button.reloads[i], {new} \ {NoPick})
  <2>1. CASE job.button.rows # "add"
    BY <2>1 DEF NewRows, RowsTyped
  <2>2. CASE job.button.rows = "add"
    <3>1. \A i \in DOMAIN job.button.reloads : i = 1
      BY <1>1, <2>2 DEF ButtonPlace, ButtonShape
    <3>2. QED
      BY <2>2, <3>1 DEF NewRows, RowsTyped
  <2>3. QED
    BY <2>1, <2>2
<1>3. AfterChange(job, new) =
        [key \in DOMAIN facts |->
           IF key \notin changed THEN facts[key]
           ELSE [version |-> facts[key].version + 1, ids |-> IF key # <<list, of>> THEN facts[key].ids ELSE ids]]
  BY DEF AfterChange
<1>4. RowsTyped(list, facts[<<list, of>>].ids) /\ RowsTyped(list, {new} \ {NoPick}) => RowsTyped(list, ids)
  BY DEF RowsTyped
<1>5. 1 \in DOMAIN job.button.reloads /\ list \in PanelNames
  BY <1>1 DEF ButtonShape
<1>6. \A key \in LoadKeys :
         /\ key = <<key[1], key[2]>>
         /\ key \in changed <=> key[1] \in job.button.changes /\ key[2] = OwnerFor(job, key[1])
         /\ key[1] \in job.button.changes => key[1] \in Changing
         /\ FactTyped(facts[key], key[1])
  BY <1>1, KeyFacts DEF Changing, LoadsTyped
<1> HIDE DEF list, of, changed, ids
<1>7. ASSUME NEW key \in LoadKeys
      PROVE  /\ FactTyped(AfterChange(job, new)[key], key[1])
             /\ IF key[1] \in job.button.changes /\ key[2] = OwnerFor(job, key[1])
                THEN AfterChange(job, new)[key].version = facts[key].version + 1
                ELSE AfterChange(job, new)[key] = facts[key]
  <2>1. CASE key \notin changed
    BY <1>3, <1>6, <2>1 DEF LoadsTyped
  <2>2. CASE key \in changed
    <3> DEFINE rows == IF key # <<list, of>> THEN facts[key].ids ELSE ids
    <3>1. AfterChange(job, new)[key] = [version |-> facts[key].version + 1, ids |-> rows]
      BY <1>3, <2>2 DEF LoadsTyped
    <3>2. RowsTyped(key[1], rows)
      BY <1>2, <1>4, <1>5, <1>6 DEF FactTyped, list
    <3> HIDE DEF rows
    <3>3. QED
      BY <1>6, <2>2, <3>1, <3>2 DEF FactTyped
  <2>3. QED
    BY <2>1, <2>2
<1>8. QED
  BY <1>2, <1>3, <1>7 DEF LoadsTyped

LEMMA ServeChangeSays ==
    ASSUME LoadsInv, LoadsTyped, NEW job \in running, ServeChange(job)
    PROVE  \E new \in NewRows(job), served \in running' :
              /\ facts' = AfterChange(job, new) /\ running' = (running \ {job}) \cup {served}
              /\ served.step = 1 /\ served.button = job.button /\ served.at = job.at /\ served.new = new
              /\ IF job.button.rows \in {"merge", "answer"}
                 THEN served.answer = AfterChange(job, new)[<<Reloading(served), OwnerFor(job, Reloading(served))>>]
                 ELSE served.answer = NoAnswer
<1> DEFINE list == job.button.reloads[1]
           reply(n) == IF job.button.rows \in {"merge", "answer"}
                       THEN AfterChange(job, n)[<<list, OwnerFor(job, list)>>] ELSE NoAnswer
<1>1. PICK new \in NewRows(job) :
         /\ facts' = AfterChange(job, new)
         /\ running' = (running \ {job}) \cup {[job EXCEPT !.step = 1, !.new = new, !.answer = reply(new)]}
  BY DEF ServeChange
<1> DEFINE served == [job EXCEPT !.step = 1, !.new = new, !.answer = reply(new)]
<1>2. /\ served.step = 1 /\ served.button = job.button /\ served.at = job.at /\ served.new = new
      /\ served.answer = reply(new)
  BY DEF LoadsInv, WorkOf
<1>3. Reloading(served) = list
  BY <1>2 DEF Reloading
<1>4. running' = (running \ {job}) \cup {served} /\ served \in running'
  BY <1>1
<1> HIDE DEF served, list
<1>5. IF job.button.rows \in {"merge", "answer"}
      THEN served.answer = AfterChange(job, new)[<<Reloading(served), OwnerFor(job, Reloading(served))>>]
      ELSE served.answer = NoAnswer
  BY <1>2, <1>3
<1> HIDE DEF reply
<1>6. QED
  BY <1>1, <1>2, <1>4, <1>5

LEMMA TypesGrow ==
    ASSUME NEW name \in PanelNames, NEW of, NEW answer, NEW held, NEW later, AnswerTyped(answer, name, of, held),
           held[<<name, of>>].version \in Nat, later[<<name, of>>].version \in Nat,
           held[<<name, of>>].version <= later[<<name, of>>].version
    PROVE  AnswerTyped(answer, name, of, later)
BY DEF AnswerTyped

LEMMA ServeChangeTypes == ASSUME LoadsInv, LoadsTyped, NEW job \in running, ServeChange(job) PROVE LoadsTyped'
<1>1. PICK new \in NewRows(job), served \in running' :
         /\ facts' = AfterChange(job, new) /\ running' = (running \ {job}) \cup {served}
         /\ served.step = 1 /\ served.button = job.button /\ served.at = job.at /\ served.new = new
         /\ IF job.button.rows \in {"merge", "answer"}
            THEN served.answer = AfterChange(job, new)[<<Reloading(served), OwnerFor(job, Reloading(served))>>]
            ELSE served.answer = NoAnswer
  BY ServeChangeSays
<1>2. /\ mounted' = mounted /\ lastPicked' = lastPicked /\ shown' = shown /\ asks' = asks /\ picked' = picked
      /\ LoadKeys' = LoadKeys /\ mounted \in PageNames
  BY DEF ServeChange, LoadKeys, PagePanels, LoadsInv
<1>3. /\ DOMAIN facts' = LoadKeys
      /\ \A key \in LoadKeys : /\ FactTyped(facts'[key], key[1]) /\ facts[key].version \in Nat /\ facts'[key].version \in Nat
                               /\ facts[key].version <= facts'[key].version
  <2>1. /\ DOMAIN AfterChange(job, new) = LoadKeys
        /\ \A key \in LoadKeys :
              /\ FactTyped(AfterChange(job, new)[key], key[1])
              /\ \/ AfterChange(job, new)[key].version = facts[key].version + 1
                 \/ AfterChange(job, new)[key] = facts[key]
    BY ChangeFacts
  <2>2. \A key \in LoadKeys : facts[key].version \in Nat /\ AfterChange(job, new)[key].version \in Nat
    BY <2>1 DEF FactTyped, LoadsTyped
  <2>3. QED
    BY <1>1, <2>1, <2>2
<1>4. \A name \in PanelNames : PanelOf[name] \in PagePanels =>
         \A of \in PickableIds(PanelOf[name].pick) :
            \A answer : AnswerTyped(answer, name, of, facts) => AnswerTyped(answer, name, of, facts')
  <2>1. SUFFICES ASSUME NEW name \in PanelNames, PanelOf[name] \in PagePanels, NEW of \in PickableIds(PanelOf[name].pick),
                        NEW answer, AnswerTyped(answer, name, of, facts)
                 PROVE  AnswerTyped(answer, name, of, facts')
    OBVIOUS
  <2>2. <<name, of>> \in LoadKeys
    BY <1>2, <2>1, KeyFacts
  <2>3. QED
    BY <1>3, <2>1, <2>2, TypesGrow
<1>5. ASSUME NEW name \in DOMAIN shown'
      PROVE  DataTyped(shown'[name], name, facts')
  <2>1. name \in PanelNames /\ PanelOf[name] \in PagePanels /\ DataTyped(shown[name], name, facts)
    BY <1>2, PaneFacts DEF LoadsInv, LoadsTyped
  <2>2. QED
    BY <1>2, <1>4, <2>1 DEF DataTyped
<1>6. ASSUME NEW ask \in asks'
      PROVE  AskTyped(ask, facts')
  BY <1>2, <1>4 DEF LoadsInv, LoadsTyped, AskOf, AskTyped
<1>7. ASSUME NEW other \in running, other # job
      PROVE  JobTyped(other, facts')
  <2>1. JobTyped(other, facts) /\ (other.answer # NoAnswer => other.step > 0)
    BY DEF LoadsInv, LoadsTyped, WorkOf
  <2>2. other.answer # NoAnswer =>
          AnswerTyped(other.answer, Reloading(other), OwnerFor(other, Reloading(other)), facts')
    BY <1>4, <2>1, JobReads DEF JobTyped
  <2>3. QED
    BY <2>1, <2>2 DEF JobTyped
<1>8. JobTyped(served, facts')
  <2>1. /\ mounted \in PageNames /\ job.button \in ButtonsOn[mounted] /\ JobTyped(job, facts)
        /\ ButtonShape(job.button) /\ ButtonPlace(job.button, mounted)
    BY ButtonsHold, ButtonPlaces DEF LoadsInv, WorkOf, LoadsTyped
  <2>2. 1 \in DOMAIN job.button.reloads /\ Reloading(served) = job.button.reloads[1]
        /\ OwnerFor(served, Reloading(served)) = OwnerFor(job, Reloading(served))
    BY <1>1, <2>1 DEF ButtonShape, Reloading, OwnerFor
  <2>3. <<Reloading(served), OwnerFor(job, Reloading(served))>> \in LoadKeys
    <3>1. OwnerFor(job, Reloading(served)) \in PickableIds(PanelOf[Reloading(served)].pick)
      BY <2>1, <2>2, OwnerTyped DEF JobTyped
    <3>2. Reloading(served) \in PanelNames /\ PanelOf[Reloading(served)] \in PagePanels
      BY <2>1, <2>2 DEF ButtonShape, ButtonPlace, PagePanels
    <3>3. QED
      BY <2>1, <3>1, <3>2, KeyFacts
  <2>4. served.answer # NoAnswer => AnswerTyped(served.answer, Reloading(served), OwnerFor(served, Reloading(served)), facts')
    <3>1. FactTyped(facts'[<<Reloading(served), OwnerFor(job, Reloading(served))>>], Reloading(served))
      BY <1>3, <2>3
    <3>2. QED
      BY <1>1, <2>2, <3>1 DEF FactTyped, AnswerTyped
  <2>5. \A i \in DOMAIN job.button.reloads : RowsTyped(job.button.reloads[i], {new} \ {NoPick})
    BY ChangeFacts
  <2>6. QED
    BY <1>1, <2>1, <2>4, <2>5 DEF JobTyped
<1>9. QED
  BY <1>1, <1>2, <1>3, <1>5, <1>6, <1>7, <1>8 DEF LoadsTyped

LEMMA WorkLandsTypes == ASSUME LoadsInv, LoadsTyped, NEW job \in running, WorkLands(job) PROVE LoadsTyped'
<1> DEFINE name == Reloading(job)
           of == OwnerFor(job, name)
           leads == PanelOf[name].leads
           id == SelectedThen(job, name)
           next == [job EXCEPT !.step = @ + 1, !.answer = NoAnswer]
           data == [shown[name] EXCEPT !.version = job.answer.version]
<1>1. /\ mounted' = mounted /\ lastPicked' = lastPicked /\ asks' = asks /\ facts' = facts
      /\ running' = (running \ {job}) \cup (IF job.step = Len(job.button.reloads) THEN {} ELSE {next})
      /\ picked' = picked \/ (leads # "none" /\ picked' = [picked EXCEPT ![leads] = id])
      /\ \/ shown' = shown
         \/ shown' = [shown EXCEPT ![name] = shown[name]]
         \/ shown[name] # NoData /\ shown[name].of = of /\ shown' = [shown EXCEPT ![name] = data]
         \/ Show(name, of, job.answer)
  BY DEF WorkLands, Merge, AndTouch
<1>2. /\ WorkOf(job, mounted) /\ JobTyped(job, facts) /\ job.answer # NoAnswer /\ job.step > 0
  BY DEF LoadsInv, WorkOf, LoadsTyped, WorkLands
<1>3. /\ name \in PanelNames /\ PanelOf[name] \in PagePanels /\ of \in PickableIds(PanelOf[name].pick)
      /\ AnswerTyped(job.answer, name, of, facts) /\ job.step \in DOMAIN job.button.reloads
      /\ RowsTyped(name, {job.new} \ {NoPick})
  BY <1>2, JobReads DEF JobTyped, Reloading
<1>4. leads # "none" => leads \in PickNames /\ id \in PickableIds(leads) \cup {NoPick}
  <2>1. SUFFICES ASSUME leads # "none" PROVE leads \in PickNames /\ id \in PickableIds(leads) \cup {NoPick}
    OBVIOUS
  <2>2. RowsTyped(name, job.answer.ids) /\ job.new \in PickableIds(leads) \cup {NoPick}
    BY <1>3, <2>1 DEF AnswerTyped, RowsTyped
  <2>3. /\ leads \in PickNames /\ First(job.answer.ids) \in PickableIds(leads) \cup {NoPick}
        /\ PickAfter(name, job.answer.ids, job.new) \in PickableIds(leads) \cup {NoPick}
    BY <1>3, <2>1, <2>2, RowsFacts
  <2>4. picked[leads] \in PickableIds(leads) \cup {NoPick}
    BY <2>3 DEF LoadsTyped
  <2>5. QED
    BY <2>2, <2>3, <2>4 DEF SelectedThen
<1>5. JobTyped(next, facts)
  <2>1. next.button = job.button /\ next.at = job.at /\ next.new = job.new /\ next.answer = NoAnswer
    BY <1>2 DEF WorkOf
  <2>2. QED
    BY <1>2, <2>1 DEF JobTyped
<1>6. /\ DOMAIN shown[name] = {"of", "version", "ids"} =>
            data.of = shown[name].of /\ data.version = job.answer.version /\ data.ids = shown[name].ids
  OBVIOUS
<1> HIDE DEF id, next, data, name, of
<1>7. \A pick \in PickNames : {picked'[pick], lastPicked'[pick]} \subseteq PickableIds(pick) \cup {NoPick}
  BY <1>1, <1>4 DEF LoadsTyped, LoadsInv, Picked
<1>8. \A key \in DOMAIN shown' : DataTyped(shown'[key], key, facts)
  <2>1. CASE Show(name, of, job.answer)
    BY <1>3, <2>1, LandingTypes
  <2>2. CASE shown' = shown \/ shown' = [shown EXCEPT ![name] = shown[name]]
    BY <2>2 DEF LoadsTyped
  <2>3. CASE shown[name] # NoData /\ shown[name].of = of /\ shown' = [shown EXCEPT ![name] = data]
    <3>1. ASSUME name \in DOMAIN shown
          PROVE  DataTyped(data, name, facts)
      BY <1>3, <1>6, <2>3, <3>1 DEF LoadsInv, LoadsTyped, DataTyped, AnswerTyped
    <3>2. QED
      BY <2>3, <3>1 DEF LoadsTyped
  <2>4. QED
    BY <1>1, <2>1, <2>2, <2>3
<1>9. QED
  BY <1>1, <1>5, <1>7, <1>8, TypesStay DEF LoadsTyped

-----------------------------------------------------------------------------
(* What is shown once all is quiet.                                        *)

\* What is under way that will show the current data of a panel, or make its effect ask again.
WillRead(job, name, x) ==
    /\ job.step > 0 /\ OwnerFor(job, name) = x
    /\ \E j \in job.step..Len(job.button.reloads) : job.button.reloads[j] = name

Brings(job, name, x, current) ==
    /\ job.step > 0 /\ OwnerFor(job, name) = x
    /\ \E j \in job.step..Len(job.button.reloads) :
          /\ job.button.reloads[j] = name
          /\ j > job.step \/ job.answer = NoAnswer \/ job.answer.version = current

Coming(pane, x, current, open, jobs) ==
    \/ \E ask \in open : ask.name = pane.name /\ ask.of = x /\ (ask.answer = NoAnswer \/ ask.answer.version = current)
    \/ \E job \in jobs : Brings(job, pane.name, x, current)
    \/ pane = Verification /\ \E job \in jobs : WillRead(job, "requirements", x)

ShowsOf(data, x) == data # NoData /\ data.of = x

\* What is shown is current or about to be, and so is all that an older reading could still replace.
UpToDate(pane, x, current, data, open, jobs) ==
    /\ ShowsOf(data, x) => data.version = current \/ Coming(pane, x, current, open, jobs)
    /\ \A ask \in open :
          ask.name = pane.name /\ ask.of = x /\ ask.answer # NoAnswer /\ ask.answer.version < current =>
             Coming(pane, x, current, open, jobs) \/ (ShowsOf(data, x) /\ data.version > ask.answer.version)
    /\ \A job \in jobs :
          job.step > 0 /\ Reloading(job) = pane.name /\ OwnerFor(job, pane.name) = x /\ job.answer # NoAnswer
             /\ job.answer.version < current =>
             Coming(pane, x, current, open, jobs) \/ (ShowsOf(data, x) /\ data.version > job.answer.version)

AskedOrShown(pane, x, data, open) ==
    pane.asked => ShowsOf(data, x) \/ \E ask \in open : ask.name = pane.name /\ ask.of = x

PaneQuiet(pane, x, current, data, open, jobs, off) ==
    /\ AskedOrShown(pane, x, data, open)
    /\ UpToDate(pane, x, current, data, open, jobs) \/ (pane = Verification /\ off)

EffectsDone(pane, touches, picks) == pane.deps \cap touches = {} /\ picks[pane.pick] # NoPick

QuietLoads ==
    ~loadFailed /\ ~overtaken =>
       \A pane \in PagePanels :
          EffectsDone(pane, touched, picked) =>
             PaneQuiet(pane, picked[pane.pick], facts[<<pane.name, picked[pane.pick]>>].version, shown[pane.name],
                       asks, running, unlinked)

\* What a button changes it reads again, but for the matrix: that follows the list of requirements, or waits
\* once a trace link was removed.
ButtonReads(button) ==
    /\ button.changes \subseteq {"requirements", "verification", "traceLinks", "snapshots", "documents", "lineClasses",
                                 "tagScheme", "catalogSettings", "users"}
    /\ \A name \in button.changes :
          \/ \E i \in DOMAIN button.reloads : button.reloads[i] = name
          \/ name = "verification" /\ \E i \in DOMAIN button.reloads : button.reloads[i] = "requirements"
          \/ name = "verification" /\ button.rows = "unlink"
    /\ \A i \in DOMAIN button.reloads : button.reloads[i] = "requirements" => button.rows \notin {"merge", "answer"}

LEMMA ButtonsRead == \A page \in PageNames : \A button \in ButtonsOn[page] : ButtonReads(button)
<1>1. ButtonReads(SubmitRequirement)
  BY DEF ButtonReads, Button, SubmitRequirement
<1>2. ButtonReads(UpdateRequirement)
  BY DEF ButtonReads, Button, UpdateRequirement
<1>3. ButtonReads(DeleteRequirement)
  BY DEF ButtonReads, Button, DeleteRequirement
<1>4. ButtonReads(CommitRequirements)
  BY DEF ButtonReads, Button, CommitRequirements
<1>5. ButtonReads(BulkSetRequirements)
  BY DEF ButtonReads, Button, BulkSetRequirements
<1>6. ButtonReads(BulkDeleteRequirements)
  BY DEF ButtonReads, Button, BulkDeleteRequirements
<1>7. ButtonReads(LinkToItem)
  BY DEF ButtonReads, Button, LinkToItem
<1>8. ButtonReads(LinkToDrawing)
  BY DEF ButtonReads, Button, LinkToItem, LinkToDrawing
<1>9. ButtonReads(RemoveTraceLink)
  BY DEF ButtonReads, Button, RemoveTraceLink
<1>10. ButtonReads(GenerateBom)
  BY DEF ButtonReads, Button, GenerateBom
<1>11. ButtonReads(ReleaseBom)
  BY DEF ButtonReads, Button, ReleaseBom
<1>12. ButtonReads(CompareBoms)
  BY DEF ButtonReads, Button, CompareBoms
<1>13. ButtonReads(UploadDocument)
  BY DEF ButtonReads, Button, UploadDocument
<1>14. ButtonReads(DeleteDocument)
  BY DEF ButtonReads, Button, DeleteDocument
<1>15. ButtonReads(CommitLineClasses)
  BY DEF ButtonReads, Button, CommitLineClasses
<1>16. ButtonReads(AddLineClass)
  BY DEF ButtonReads, Button, AddLineClass
<1>17. ButtonReads(CreatePasted)
  BY DEF ButtonReads, Button, CreatePasted
<1>18. ButtonReads(RemoveLineClasses)
  BY DEF ButtonReads, Button, RemoveLineClasses
<1>19. ButtonReads(ImportLineClassFile)
  BY DEF ButtonReads, Button, ImportLineClassFile
<1>20. ButtonReads(ImportLineClassText)
  BY DEF ButtonReads, Button, ImportLineClassText
<1>21. ButtonReads(SaveTagScheme)
  BY DEF ButtonReads, Button, SaveTagScheme
<1>22. ButtonReads(SaveCatalogSettings)
  BY DEF ButtonReads, Button, SaveCatalogSettings
<1>23. ButtonReads(SubmitUser)
  BY DEF ButtonReads, Button, SubmitUser
<1>24. ButtonReads(UpdateUser)
  BY DEF ButtonReads, Button, UpdateUser
<1>25. QED
  BY <1>1, <1>2, <1>3, <1>4, <1>5, <1>6, <1>7, <1>8, <1>9, <1>10, <1>11, <1>12, <1>13, <1>14, <1>15,
     <1>16, <1>17, <1>18, <1>19, <1>20, <1>21, <1>22, <1>23, <1>24 DEF ButtonsOn, PageNames, PanelsOn

LEMMA ChangingFacts ==
    /\ Changing \subseteq {"requirements", "verification", "traceLinks", "snapshots", "documents", "lineClasses", "tagScheme",
                           "catalogSettings", "users"}
    /\ \A name \in PanelNames \cap Changing : PanelOf[name].asked
<1>1. \A page \in PageNames : \A button \in ButtonsOn[page] : ButtonReads(button)
  BY ButtonsRead
<1>2. \A name \in Changing : \E page \in PageNames : \E button \in ButtonsOn[page] : name \in button.changes
  BY DEF Changing
<1>3. Changing \subseteq {"requirements", "verification", "traceLinks", "snapshots", "documents", "lineClasses", "tagScheme",
                         "catalogSettings", "users"}
  BY <1>1, <1>2 DEF ButtonReads
<1>4. QED
  BY <1>3, ShapesHold DEF PanelShape

LEMMA ComingIsEnough ==
    ASSUME NEW pane, NEW x, NEW current, NEW data, NEW open, NEW jobs, Coming(pane, x, current, open, jobs)
    PROVE  UpToDate(pane, x, current, data, open, jobs)
BY DEF UpToDate

\* What never changes is current whenever it is read.
LEMMA UnchangingIsUpToDate ==
    ASSUME NEW name \in PanelNames \ Changing, NEW x, NEW held, NEW data, NEW open, NEW jobs,
           FactTyped(held[<<name, x>>], name), DataTyped(data, name, held),
           \A ask \in open : AskTyped(ask, held), \A job \in jobs : JobTyped(job, held)
    PROVE  UpToDate(PanelOf[name], x, held[<<name, x>>].version, data, open, jobs)
<1>1. held[<<name, x>>].version = 0 /\ PanelOf[name].name = name
  BY ShapesHold DEF FactTyped, PanelShape
<1>2. ShowsOf(data, x) => data.version = 0
  BY <1>1 DEF ShowsOf, DataTyped, AnswerTyped
<1>3. ASSUME NEW ask \in open, ask.name = name, ask.of = x, ask.answer # NoAnswer
      PROVE  ~(ask.answer.version < 0)
  BY <1>1, <1>3 DEF AskTyped, AnswerTyped
<1>4. ASSUME NEW job \in jobs, Reloading(job) = name, OwnerFor(job, name) = x, job.answer # NoAnswer
      PROVE  ~(job.answer.version < 0)
  <2>1. AnswerTyped(job.answer, name, x, held)
    BY <1>4 DEF JobTyped
  <2>2. QED
    BY <1>1, <2>1 DEF AnswerTyped
<1>5. QED
  BY <1>1, <1>2, <1>3, <1>4 DEF UpToDate

\* Between effects a panel that waits for none keeps its pick.
LEMMA PickStands ==
    ASSUME LoadsInv, LoadsTyped, LoadsInv', lastPicked' = lastPicked, touched \subseteq touched',
           NEW pane \in PagePanels, EffectsDone(pane, touched', picked')
    PROVE  /\ EffectsDone(pane, touched, picked)
           /\ picked'[pane.pick] = picked[pane.pick] /\ lastPicked[pane.pick] = picked[pane.pick]
           /\ picked[pane.pick] # NoPick /\ picked[pane.pick] \in PickableIds(pane.pick)
           /\ pane.name \in PanelNames /\ pane = PanelOf[pane.name] /\ PanelShape(pane.name, pane)
           /\ <<pane.name, picked[pane.pick]>> \in LoadKeys /\ pane.name \in DOMAIN shown
<1>1. pane.name \in PanelNames /\ pane = PanelOf[pane.name] /\ PanelShape(pane.name, pane) /\ mounted \in PageNames
  BY PaneFacts DEF LoadsInv
<1>2. pane.pick \in PickNames \ touched /\ pane.pick \notin touched'
  BY <1>1 DEF EffectsDone, PanelShape
<1>3. picked'[pane.pick] = picked[pane.pick] /\ lastPicked[pane.pick] = picked[pane.pick]
  BY <1>1, <1>2 DEF LoadsInv, TouchedTells
<1>4. EffectsDone(pane, touched, picked)
  BY <1>3 DEF EffectsDone
<1>5. picked[pane.pick] # NoPick /\ picked[pane.pick] \in PickableIds(pane.pick)
  BY <1>2, <1>4 DEF LoadsTyped, EffectsDone
<1>6. QED
  BY <1>1, <1>3, <1>4, <1>5, KeyFacts DEF LoadsInv

LEMMA AskForFacts ==
    \A name, of, n : AskFor(name, of, n).name = name /\ AskFor(name, of, n).of = of
BY DEF AskFor

\* After effects a panel that had its own asks for its data; the others are as before.
LEMMA EffectsQuiet ==
    ASSUME LoadsInv, LoadsTyped, QuietLoads, Effects, LoadsInv', LoadsTyped'
    PROVE  QuietLoads'
<1> DEFINE due == Due
           cancelled == {pane.name : pane \in {p \in due : p.guard = "cancel"}}
           led == {pane.leads : pane \in {p \in due : p.cleared /\ p.leads # "none"}}
           emptied == {pane.name : pane \in {p \in due : p.cleared \/ picked[p.pick] = NoPick}}
           new == {AskFor(pane.name, picked[pane.pick], Later) : pane \in {p \in due : p.asked /\ picked[p.pick] # NoPick}}
<1>1. /\ asks' = {ask \in asks : /\ ask.name \notin cancelled
                                 /\ \A pane \in due : pane.next = ask.name => pane.guard # "cancel"} \cup new
      /\ shown' = [name \in DOMAIN shown |-> IF name \in emptied THEN NoData ELSE shown[name]]
      /\ picked' = [pick \in PickNames |-> IF pick \in led THEN NoPick ELSE picked[pick]]
      /\ mounted' = mounted /\ running' = running /\ loadFailed' = loadFailed /\ overtaken' = overtaken
      /\ facts' = facts /\ unlinked' = unlinked
  BY DEF Effects, flags
<1>2. PagePanels' = PagePanels /\ due \subseteq PagePanels
  BY <1>1 DEF PagePanels, Due
<1>3. \A pane \in PagePanels :
         /\ pane.name \in PanelNames /\ pane = PanelOf[pane.name] /\ PanelShape(pane.name, pane)
         /\ pane.name \in DOMAIN shown
         /\ pane.name \in cancelled <=> pane \in due /\ pane.guard = "cancel"
         /\ pane.name \in emptied <=> pane \in due /\ (pane.cleared \/ picked[pane.pick] = NoPick)
         /\ pane \in due /\ pane.asked /\ picked[pane.pick] # NoPick =>
               AskFor(pane.name, picked[pane.pick], Later) \in new
  BY <1>2, PaneFacts DEF LoadsInv
<1>4. \A ask \in new : \E pane \in due : ask.name = pane.name
  <2>1. \A ask \in new : \E pane \in due : ask = AskFor(pane.name, picked[pane.pick], Later)
    OBVIOUS
  <2>2. ASSUME NEW ask \in new
        PROVE  \E pane \in due : ask.name = pane.name
    <3>1. PICK pane \in due : ask = AskFor(pane.name, picked[pane.pick], Later)
      BY <2>1
    <3>2. QED
      BY <3>1, AskForFacts
  <2>3. QED
    BY <2>2
<1> HIDE DEF due, cancelled, led, emptied, new
<1>5. SUFFICES ASSUME ~loadFailed, ~overtaken, NEW pane \in PagePanels, EffectsDone(pane, touched', picked')
               PROVE  PaneQuiet(pane, picked'[pane.pick], facts'[<<pane.name, picked'[pane.pick]>>].version,
                                shown'[pane.name], asks', running', unlinked')
  BY <1>1, <1>2 DEF QuietLoads
<1> DEFINE x == picked[pane.pick]
           current == facts[<<pane.name, x>>].version
<1>6. /\ picked'[pane.pick] = x /\ x # NoPick /\ x \in PickableIds(pane.pick)
      /\ <<pane.name, x>> \in LoadKeys /\ pane.pick \in PickNames
  <2>1. pane.pick \in PickNames /\ mounted \in PageNames
    BY <1>3 DEF PanelShape, LoadsInv
  <2>2. picked'[pane.pick] = x /\ x # NoPick
    BY <1>1, <1>5, <2>1 DEF EffectsDone
  <2>3. QED
    BY <1>3, <2>1, <2>2, KeyFacts DEF LoadsTyped
<1>7. CASE pane \in due /\ pane.asked
  <2> DEFINE ask == AskFor(pane.name, x, Later)
  <2>1. ask \in asks' /\ ask.name = pane.name /\ ask.of = x
    BY <1>1, <1>3, <1>6, <1>7 DEF AskFor
  <2>2. ask.answer = NoAnswer \/ ask.answer.version = current
    BY DEF AskFor
  <2> HIDE DEF ask
  <2>3. Coming(pane, x, current, asks', running') /\ AskedOrShown(pane, x, shown'[pane.name], asks')
    BY <2>1, <2>2 DEF Coming, AskedOrShown
  <2>4. QED
    BY <1>1, <1>6, <2>3, ComingIsEnough DEF PaneQuiet
<1>8. CASE ~pane.asked
  <2>1. pane.name \notin Changing
    BY <1>3, <1>8, ChangingFacts
  <2>2. /\ FactTyped(facts'[<<pane.name, x>>], pane.name) /\ DataTyped(shown'[pane.name], pane.name, facts')
        /\ \A ask \in asks' : AskTyped(ask, facts')
        /\ \A job \in running' : JobTyped(job, facts')
    BY <1>1, <1>3, <1>6 DEF LoadsTyped
  <2>3. UpToDate(pane, x, facts'[<<pane.name, x>>].version, shown'[pane.name], asks', running')
    BY <1>3, <2>1, <2>2, UnchangingIsUpToDate
  <2>4. QED
    BY <1>6, <1>8, <2>3 DEF PaneQuiet, AskedOrShown
<1>9. CASE pane \notin due /\ pane.asked
  <2>1. PaneQuiet(pane, x, current, shown[pane.name], asks, running, unlinked)
    BY <1>5, <1>6, <1>9 DEF QuietLoads, EffectsDone, Due, due
  <2>2. shown'[pane.name] = shown[pane.name]
    BY <1>1, <1>3, <1>9
  <2>3. \A ask \in asks : ask.name = pane.name => ask \in asks'
    <3>1. \A p \in due : p.next # pane.name
      BY <1>2, <1>3, <1>9, DrcFacts DEF PanelShape
    <3>2. QED
      BY <1>1, <1>3, <1>9, <3>1
  <2>4. \A ask \in asks' : ask.name = pane.name => ask \in asks
    BY <1>1, <1>2, <1>3, <1>4, <1>9
  <2>5. AskedOrShown(pane, x, shown'[pane.name], asks')
    BY <2>1, <2>2, <2>3 DEF PaneQuiet, AskedOrShown
  <2>6. Coming(pane, x, current, asks, running) => Coming(pane, x, current, asks', running')
    BY <1>1, <2>3 DEF Coming
  <2>7. UpToDate(pane, x, current, shown[pane.name], asks, running) =>
           UpToDate(pane, x, current, shown'[pane.name], asks', running')
    BY <1>1, <2>2, <2>4, <2>6 DEF UpToDate
  <2>8. QED
    BY <1>1, <1>6, <2>1, <2>5, <2>7 DEF PaneQuiet
<1>10. QED
  BY <1>7, <1>8, <1>9

\* A pane between effects: what was known of it before the step.
LEMMA QuietBefore ==
    ASSUME LoadsInv, LoadsTyped, QuietLoads, LoadsInv', lastPicked' = lastPicked, touched \subseteq touched',
           ~loadFailed, ~overtaken, NEW pane \in PagePanels, EffectsDone(pane, touched', picked')
    PROVE  \E x \in PickableIds(pane.pick) :
              /\ x = picked[pane.pick] /\ x = picked'[pane.pick] /\ x = lastPicked[pane.pick] /\ x # NoPick
              /\ pane.name \in PanelNames /\ pane = PanelOf[pane.name] /\ PanelShape(pane.name, pane)
              /\ <<pane.name, x>> \in LoadKeys /\ pane.name \in DOMAIN shown
              /\ facts[<<pane.name, x>>].version \in Nat
              /\ PaneQuiet(pane, x, facts[<<pane.name, x>>].version, shown[pane.name], asks, running, unlinked)
<1>1. /\ EffectsDone(pane, touched, picked)
      /\ picked'[pane.pick] = picked[pane.pick] /\ lastPicked[pane.pick] = picked[pane.pick]
      /\ picked[pane.pick] # NoPick /\ picked[pane.pick] \in PickableIds(pane.pick)
      /\ pane.name \in PanelNames /\ pane = PanelOf[pane.name] /\ PanelShape(pane.name, pane)
      /\ <<pane.name, picked[pane.pick]>> \in LoadKeys /\ pane.name \in DOMAIN shown
  BY PickStands
<1>2. facts[<<pane.name, picked[pane.pick]>>].version \in Nat
  BY <1>1 DEF LoadsTyped, FactTyped
<1>3. QED
  BY <1>1, <1>2 DEF QuietLoads

\* Picks of the user, and works that begin or are refused at once.
LEMMA WorksQuiet ==
    ASSUME LoadsInv, LoadsTyped, QuietLoads, LoadsInv', lastPicked' = lastPicked, touched \subseteq touched',
           mounted' = mounted, facts' = facts, shown' = shown, asks' = asks, unlinked' = unlinked,
           loadFailed => loadFailed', overtaken' = overtaken,
           \A job \in running : job.step > 0 => job \in running',
           \A job \in running' : job.step > 0 => job \in running
    PROVE  QuietLoads'
<1>1. SUFFICES ASSUME ~loadFailed, ~overtaken, NEW pane \in PagePanels, EffectsDone(pane, touched', picked')
                 PROVE  PaneQuiet(pane, picked'[pane.pick], facts'[<<pane.name, picked'[pane.pick]>>].version,
                                  shown'[pane.name], asks', running', unlinked')
  BY DEF QuietLoads, PagePanels
<1>2. PICK x \in PickableIds(pane.pick) :
         /\ x = picked'[pane.pick]
         /\ PaneQuiet(pane, x, facts[<<pane.name, x>>].version, shown[pane.name], asks, running, unlinked)
  BY <1>1, QuietBefore
<1> DEFINE current == facts[<<pane.name, x>>].version
<1> HIDE DEF current
<1>3. Coming(pane, x, current, asks, running) => Coming(pane, x, current, asks, running')
  BY DEF Coming, Brings, WillRead
<1>4. UpToDate(pane, x, current, shown[pane.name], asks, running) =>
         UpToDate(pane, x, current, shown[pane.name], asks, running')
  BY <1>3 DEF UpToDate
<1>5. QED
  BY <1>2, <1>4 DEF PaneQuiet, current

LEMMA ServeAskQuiet ==
    ASSUME LoadsInv, LoadsTyped, QuietLoads, LoadsInv', NEW ask \in asks, ServeAsk(ask)
    PROVE  QuietLoads'
<1> DEFINE served == [ask EXCEPT !.answer = facts[<<ask.name, ask.of>>]]
<1>1. /\ mounted' = mounted /\ facts' = facts /\ running' = running /\ lastPicked' = lastPicked /\ touched' = touched
      /\ picked' = picked /\ shown' = shown /\ asks' = (asks \ {ask}) \cup {served} /\ PagePanels' = PagePanels
      /\ loadFailed' = loadFailed /\ overtaken' = overtaken /\ unlinked' = unlinked
  BY DEF ServeAsk, flags, PagePanels
<1>2. served.answer = facts[<<ask.name, ask.of>>] /\ served.name = ask.name /\ served.of = ask.of
  BY DEF LoadsInv, AskOf
<1> HIDE DEF served
<1>3. SUFFICES ASSUME ~loadFailed, ~overtaken, NEW pane \in PagePanels, EffectsDone(pane, touched', picked')
                 PROVE  PaneQuiet(pane, picked'[pane.pick], facts'[<<pane.name, picked'[pane.pick]>>].version,
                                  shown'[pane.name], asks', running', unlinked')
  BY <1>1 DEF QuietLoads
<1>4. PICK x \in PickableIds(pane.pick) :
         /\ x = picked'[pane.pick] /\ facts[<<pane.name, x>>].version \in Nat
         /\ PaneQuiet(pane, x, facts[<<pane.name, x>>].version, shown[pane.name], asks, running, unlinked)
  BY <1>1, <1>3, QuietBefore
<1> DEFINE current == facts[<<pane.name, x>>].version
<1>5. ask.name = pane.name /\ ask.of = x => served.answer.version = current
  BY <1>2
<1> HIDE DEF current
<1>6. Coming(pane, x, current, asks, running) => Coming(pane, x, current, asks', running)
  BY <1>1, <1>2, <1>5 DEF Coming
<1>7. UpToDate(pane, x, current, shown[pane.name], asks, running) =>
         UpToDate(pane, x, current, shown[pane.name], asks', running)
  <2>1. current \in Nat
    BY <1>4 DEF current
  <2>2. \A other \in asks' :
           other.name = pane.name /\ other.of = x /\ other.answer.version < current => other \in asks
    BY <1>1, <1>2, <1>5, <2>1
  <2>3. QED
    BY <1>6, <2>2 DEF UpToDate
<1>8. AskedOrShown(pane, x, shown[pane.name], asks) => AskedOrShown(pane, x, shown[pane.name], asks')
  BY <1>1, <1>2 DEF AskedOrShown
<1>9. QED
  BY <1>1, <1>4, <1>7, <1>8 DEF PaneQuiet, current

LEMMA ServeReloadQuiet ==
    ASSUME LoadsInv, LoadsTyped, QuietLoads, LoadsInv', NEW job \in running, ServeReload(job)
    PROVE  QuietLoads'
<1> DEFINE served == [job EXCEPT !.answer = facts[<<Reloading(job), OwnerFor(job, Reloading(job))>>]]
<1>1. /\ mounted' = mounted /\ facts' = facts /\ asks' = asks /\ lastPicked' = lastPicked /\ touched' = touched
      /\ picked' = picked /\ shown' = shown /\ running' = (running \ {job}) \cup {served} /\ PagePanels' = PagePanels
      /\ loadFailed' = loadFailed /\ overtaken' = overtaken /\ unlinked' = unlinked
  BY DEF ServeReload, flags, PagePanels
<1>2. /\ served.answer = facts[<<Reloading(job), OwnerFor(job, Reloading(job))>>]
      /\ served.button = job.button /\ served.at = job.at /\ served.step = job.step
  BY DEF LoadsInv, WorkOf
<1> HIDE DEF served
<1>3. Reloading(served) = Reloading(job) /\ \A name : OwnerFor(served, name) = OwnerFor(job, name)
  BY <1>2 DEF Reloading, OwnerFor
<1>4. SUFFICES ASSUME ~loadFailed, ~overtaken, NEW pane \in PagePanels, EffectsDone(pane, touched', picked')
                 PROVE  PaneQuiet(pane, picked'[pane.pick], facts'[<<pane.name, picked'[pane.pick]>>].version,
                                  shown'[pane.name], asks', running', unlinked')
  BY <1>1 DEF QuietLoads
<1>5. PICK x \in PickableIds(pane.pick) :
         /\ x = picked'[pane.pick] /\ facts[<<pane.name, x>>].version \in Nat
         /\ PaneQuiet(pane, x, facts[<<pane.name, x>>].version, shown[pane.name], asks, running, unlinked)
  BY <1>1, <1>4, QuietBefore
<1> DEFINE current == facts[<<pane.name, x>>].version
<1>6. Reloading(job) = pane.name /\ OwnerFor(job, pane.name) = x => served.answer.version = current
  BY <1>2
<1> HIDE DEF current
<1>7. Coming(pane, x, current, asks, running) => Coming(pane, x, current, asks, running')
  <2>1. Brings(job, pane.name, x, current) => Brings(served, pane.name, x, current)
    <3>1. SUFFICES ASSUME Brings(job, pane.name, x, current) PROVE Brings(served, pane.name, x, current)
      OBVIOUS
    <3>2. PICK j \in job.step..Len(job.button.reloads) :
             /\ job.button.reloads[j] = pane.name /\ job.step > 0 /\ OwnerFor(job, pane.name) = x
             /\ j > job.step \/ job.answer = NoAnswer \/ job.answer.version = current
      BY <3>1 DEF Brings
    <3>3. job.step \in Nat /\ j \in Int
      BY <3>2 DEF LoadsInv, WorkOf
    <3>4. CASE j > job.step
      BY <1>2, <1>3, <3>2, <3>4 DEF Brings
    <3>5. CASE j = job.step
      <4>1. Reloading(job) = pane.name
        BY <3>2, <3>5 DEF Reloading
      <4>2. QED
        BY <1>2, <1>3, <1>6, <3>2, <4>1 DEF Brings
    <3>6. QED
      BY <3>2, <3>3, <3>4, <3>5
  <2>2. WillRead(job, "requirements", x) => WillRead(served, "requirements", x)
    BY <1>2, <1>3 DEF WillRead
  <2>3. QED
    BY <1>1, <2>1, <2>2 DEF Coming
<1>8. UpToDate(pane, x, current, shown[pane.name], asks, running) =>
         UpToDate(pane, x, current, shown[pane.name], asks, running')
  <2>1. current \in Nat
    BY <1>5 DEF current
  <2>2. \A other \in running' :
           Reloading(other) = pane.name /\ OwnerFor(other, pane.name) = x /\ other.answer.version < current =>
              other \in running
    BY <1>1, <1>3, <1>6, <2>1
  <2>3. QED
    BY <1>7, <2>2 DEF UpToDate
<1>9. QED
  BY <1>1, <1>5, <1>8 DEF PaneQuiet, current

\* An answer that lands is current, or what is current still comes after it.
LEMMA LandedIsUpToDate ==
    ASSUME NEW pane, NEW x, x # NoPick, NEW current \in Nat, NEW answer, answer.version \in 0..current, NEW data,
           data.of = x, data.version = answer.version, NEW open, NEW jobs,
           answer.version < current => Coming(pane, x, current, open, jobs)
    PROVE  UpToDate(pane, x, current, data, open, jobs) /\ AskedOrShown(pane, x, data, open)
<1>1. ShowsOf(data, x)
  <2>1. NoData.of = NoPick
    BY DEF NoData
  <2>2. QED
    BY <2>1 DEF ShowsOf
<1>2. CASE answer.version < current
  BY <1>1, <1>2, ComingIsEnough DEF AskedOrShown
<1>3. CASE answer.version = current
  BY <1>1, <1>3 DEF UpToDate, AskedOrShown
<1>4. QED
  BY <1>2, <1>3

LEMMA AskLandsQuiet ==
    ASSUME LoadsInv, LoadsTyped, QuietLoads, LoadsInv', LoadsTyped', NEW ask \in asks, AskLands(ask)
    PROVE  QuietLoads'
<1> DEFINE pan == PanelOf[ask.name]
           taken == pan.guard = "cancel" \/ Accepted(ask.name, ask.of)
           next == IF pan.next = "none" THEN {} ELSE {AskFor(pan.next, ask.of, ask.n)}
           landed == [of |-> ask.of, version |-> ask.answer.version, ids |-> ask.answer.ids]
<1>1. /\ mounted' = mounted /\ facts' = facts /\ lastPicked' = lastPicked /\ running' = running
      /\ asks' = (asks \ {ask}) \cup next /\ touched \subseteq touched' /\ ask.answer # NoAnswer
      /\ PagePanels' = PagePanels /\ loadFailed' = loadFailed /\ unlinked' = unlinked
      /\ ~taken => shown' = shown
      /\ taken => shown' = [shown EXCEPT ![ask.name] = landed]
      /\ overtaken => overtaken'
      /\ taken /\ shown[ask.name].of = ask.of /\ shown[ask.name].version > ask.answer.version => overtaken'
      /\ taken /\ pan.guard = "none" /\ ask.of # picked[pan.pick] => overtaken'
  BY DEF AskLands, AndTouch, Show, PagePanels
<1>2. /\ ask.name \in PanelNames /\ pan \in PagePanels /\ PanelShape(ask.name, pan) /\ mounted \in PageNames
      /\ pan.guard = "cancel" => ask.of = lastPicked[pan.pick]
      /\ AnswerTyped(ask.answer, ask.name, ask.of, facts)
  BY <1>1, ShapesHold DEF LoadsInv, AskOf, LoadsTyped, AskTyped
<1>3. \A new \in next : new.name = "drc"
  <2>1. pan.next # "none" => pan.next = "drc"
    BY <1>2 DEF PanelShape
  <2>2. QED
    BY <2>1, AskForFacts
<1>4. landed.of = ask.of /\ landed.version = ask.answer.version
  OBVIOUS
<1> HIDE DEF next, landed
<1>5. SUFFICES ASSUME ~loadFailed, ~overtaken, ~overtaken', NEW pane \in PagePanels, EffectsDone(pane, touched', picked')
                 PROVE  PaneQuiet(pane, picked'[pane.pick], facts'[<<pane.name, picked'[pane.pick]>>].version,
                                  shown'[pane.name], asks', running', unlinked')
  BY <1>1 DEF QuietLoads
<1>6. PICK x \in PickableIds(pane.pick) :
         /\ x = picked'[pane.pick] /\ x = picked[pane.pick] /\ x = lastPicked[pane.pick] /\ x # NoPick
         /\ pane.name \in PanelNames /\ pane = PanelOf[pane.name] /\ PanelShape(pane.name, pane)
         /\ <<pane.name, x>> \in LoadKeys /\ pane.name \in DOMAIN shown
         /\ facts[<<pane.name, x>>].version \in Nat
         /\ PaneQuiet(pane, x, facts[<<pane.name, x>>].version, shown[pane.name], asks, running, unlinked)
  BY <1>1, <1>5, QuietBefore
<1> DEFINE current == facts[<<pane.name, x>>].version
<1>7. current \in Nat /\ (ask.name = pane.name /\ ask.of = x => ask.answer.version \in 0..current)
  BY <1>2, <1>6 DEF AnswerTyped
<1> HIDE DEF current
<1>8. CASE ~pane.asked
  <2>1. pane.name \notin Changing
    BY <1>6, <1>8, ChangingFacts
  <2>2. /\ FactTyped(facts'[<<pane.name, x>>], pane.name) /\ DataTyped(shown'[pane.name], pane.name, facts')
        /\ \A a \in asks' : AskTyped(a, facts')
        /\ \A job \in running' : JobTyped(job, facts')
    BY <1>1, <1>6 DEF LoadsTyped, LoadsInv, LoadKeys
  <2>3. UpToDate(pane, x, facts'[<<pane.name, x>>].version, shown'[pane.name], asks', running')
    BY <1>6, <2>1, <2>2, UnchangingIsUpToDate
  <2>4. QED
    BY <1>6, <1>8, <2>3 DEF PaneQuiet, AskedOrShown
<1>9. CASE pane.asked /\ ~(ask.name = pane.name /\ ask.of = x)
  <2>1. shown'[pane.name] = shown[pane.name]
    <3>1. CASE ask.name # pane.name \/ ~taken
      BY <1>1, <1>6, <3>1
    <3>2. CASE ask.name = pane.name /\ taken
      <4>1. pan = pane /\ ask.of # x
        BY <1>6, <1>9, <3>2
      <4>2. pane.guard # "cancel" /\ (pane.guard # "none" => ask.of = x)
        BY <1>2, <1>6, <3>2, <4>1 DEF Accepted
      <4>3. pane.guard # "none"
        BY <1>1, <1>5, <1>6, <3>2, <4>1
      <4>4. QED
        BY <4>1, <4>2, <4>3
    <3>3. QED
      BY <3>1, <3>2
  <2>2. \A new \in next : new.name # pane.name
    BY <1>3, <1>6, <1>9, DrcFacts
  <2>3. Coming(pane, x, current, asks, running) => Coming(pane, x, current, asks', running')
    BY <1>1, <1>9 DEF Coming
  <2>4. UpToDate(pane, x, current, shown[pane.name], asks, running) =>
           UpToDate(pane, x, current, shown'[pane.name], asks', running')
    BY <1>1, <2>1, <2>2, <2>3 DEF UpToDate
  <2>5. AskedOrShown(pane, x, shown[pane.name], asks) => AskedOrShown(pane, x, shown'[pane.name], asks')
    BY <1>1, <1>9, <2>1 DEF AskedOrShown
  <2>6. QED
    BY <1>1, <1>6, <2>4, <2>5 DEF PaneQuiet, current
<1>10. CASE pane.asked /\ ask.name = pane.name /\ ask.of = x
  <2>1. taken
    BY <1>2, <1>6, <1>10 DEF Accepted
  <2>2. shown'[pane.name] = landed
    BY <1>1, <1>6, <1>10, <2>1
  <2>3. CASE UpToDate(pane, x, current, shown[pane.name], asks, running)
    <3>1. ASSUME ask.answer.version < current
          PROVE  Coming(pane, x, current, asks', running')
      <4>1. \/ Coming(pane, x, current, asks, running)
            \/ ShowsOf(shown[pane.name], x) /\ shown[pane.name].version > ask.answer.version
        BY <1>1, <1>10, <2>3, <3>1 DEF UpToDate
      <4>2. ~(ShowsOf(shown[pane.name], x) /\ shown[pane.name].version > ask.answer.version)
        BY <1>1, <1>5, <1>10, <2>1 DEF ShowsOf
      <4>3. ask.answer.version # current
        BY <1>7, <1>10, <3>1
      <4>4. QED
        BY <1>1, <4>1, <4>2, <4>3 DEF Coming
    <3>2. UpToDate(pane, x, current, landed, asks', running') /\ AskedOrShown(pane, x, landed, asks')
      BY <1>4, <1>6, <1>7, <1>10, <3>1, LandedIsUpToDate
    <3>3. QED
      BY <1>1, <1>6, <2>2, <3>2 DEF PaneQuiet, current
  <2>4. CASE pane = Verification /\ unlinked
    <3>1. NoData.of = NoPick
      BY DEF NoData
    <3>2. AskedOrShown(pane, x, landed, asks')
      BY <1>4, <1>6, <1>10, <3>1 DEF AskedOrShown, ShowsOf
    <3>3. QED
      BY <1>1, <1>6, <2>2, <2>4, <3>2 DEF PaneQuiet
  <2>5. QED
    BY <1>6, <2>3, <2>4 DEF PaneQuiet, current
<1>11. QED
  BY <1>8, <1>9, <1>10

\* What a button changes, its own reads or an effect they make due will bring.
LEMMA ServeChangeQuiet ==
    ASSUME LoadsInv, LoadsTyped, QuietLoads, LoadsInv', NEW job \in running, ServeChange(job)
    PROVE  QuietLoads'
<1>1. /\ mounted' = mounted /\ asks' = asks /\ lastPicked' = lastPicked /\ touched' = touched /\ picked' = picked
      /\ shown' = shown /\ PagePanels' = PagePanels /\ loadFailed' = loadFailed /\ overtaken' = overtaken
      /\ unlinked' = (unlinked \/ job.button.rows = "unlink") /\ job.step = 0
  BY DEF ServeChange, PagePanels
<1>2. PICK new \in NewRows(job), served \in running' :
         /\ facts' = AfterChange(job, new) /\ running' = (running \ {job}) \cup {served}
         /\ served.step = 1 /\ served.button = job.button /\ served.at = job.at /\ served.new = new
         /\ IF job.button.rows \in {"merge", "answer"}
            THEN served.answer = AfterChange(job, new)[<<Reloading(served), OwnerFor(job, Reloading(served))>>]
            ELSE served.answer = NoAnswer
  BY ServeChangeSays
<1>3. /\ Reloading(served) = job.button.reloads[1] /\ \A name : OwnerFor(served, name) = OwnerFor(job, name)
      /\ ButtonReads(job.button) /\ ButtonShape(job.button)
  BY <1>2, ButtonsRead, ButtonsHold DEF Reloading, OwnerFor, LoadsInv, WorkOf
<1>4. SUFFICES ASSUME ~loadFailed, ~overtaken, NEW pane \in PagePanels, EffectsDone(pane, touched', picked')
                 PROVE  PaneQuiet(pane, picked'[pane.pick], facts'[<<pane.name, picked'[pane.pick]>>].version,
                                  shown'[pane.name], asks', running', unlinked')
  BY <1>1 DEF QuietLoads
<1>5. PICK x \in PickableIds(pane.pick) :
         /\ x = picked'[pane.pick] /\ facts[<<pane.name, x>>].version \in Nat /\ <<pane.name, x>> \in LoadKeys
         /\ pane.name \in PanelNames /\ pane = PanelOf[pane.name]
         /\ PaneQuiet(pane, x, facts[<<pane.name, x>>].version, shown[pane.name], asks, running, unlinked)
  BY <1>1, <1>4, QuietBefore
<1> DEFINE current == facts[<<pane.name, x>>].version
           later == facts'[<<pane.name, x>>].version
<1>6. /\ later \in Nat
      /\ ~(pane.name \in job.button.changes /\ x = OwnerFor(job, pane.name)) => later = current
      /\ Reloading(served) = pane.name /\ OwnerFor(job, pane.name) = x /\ served.answer # NoAnswer =>
            served.answer.version = later
  <2>1. FactTyped(AfterChange(job, new)[<<pane.name, x>>], pane.name)
    BY <1>5, ChangeFacts
  <2>2. ~(pane.name \in job.button.changes /\ x = OwnerFor(job, pane.name)) =>
           AfterChange(job, new)[<<pane.name, x>>] = facts[<<pane.name, x>>]
    BY <1>5, ChangeFacts
  <2>3. QED
    BY <1>2, <2>1, <2>2 DEF FactTyped
<1> HIDE DEF current, later
<1>7. AskedOrShown(pane, x, shown'[pane.name], asks')
  BY <1>1, <1>5 DEF PaneQuiet
<1>8. CASE pane.name \in job.button.changes /\ x = OwnerFor(job, pane.name)
  <2>1. CASE \E i \in DOMAIN job.button.reloads : job.button.reloads[i] = pane.name
    <3>1. PICK i \in 1..Len(job.button.reloads) : job.button.reloads[i] = pane.name
      BY <1>3, <2>1 DEF ButtonShape
    <3>2. i > 1 \/ served.answer = NoAnswer \/ served.answer.version = later
      BY <1>3, <1>6, <1>8, <3>1
    <3>3. Brings(served, pane.name, x, later)
      BY <1>2, <1>3, <1>8, <3>1, <3>2 DEF Brings
    <3>4. Coming(pane, x, later, asks', running')
      BY <1>2, <3>3 DEF Coming
    <3>5. QED
      BY <1>1, <1>5, <1>7, <3>4, ComingIsEnough DEF PaneQuiet, later
  <2>2. CASE pane.name = "verification" /\ \E i \in DOMAIN job.button.reloads : job.button.reloads[i] = "requirements"
    <3>1. PICK i \in 1..Len(job.button.reloads) : job.button.reloads[i] = "requirements"
      BY <1>3, <2>2 DEF ButtonShape
    <3>2. OwnerFor(job, "requirements") = OwnerFor(job, "verification")
      BY PlacedPicks DEF OwnerFor
    <3>3. WillRead(served, "requirements", x)
      BY <1>2, <1>3, <1>8, <2>2, <3>1, <3>2 DEF WillRead
    <3>4. pane = Verification
      BY <1>5, <2>2 DEF PanelOf
    <3>5. Coming(pane, x, later, asks', running')
      BY <1>2, <3>3, <3>4 DEF Coming
    <3>6. QED
      BY <1>1, <1>5, <1>7, <3>5, ComingIsEnough DEF PaneQuiet, later
  <2>3. CASE pane.name = "verification" /\ job.button.rows = "unlink"
    <3>1. pane = Verification
      BY <1>5, <2>3 DEF PanelOf
    <3>2. QED
      BY <1>1, <1>5, <1>7, <2>3, <3>1 DEF PaneQuiet
  <2>4. QED
    BY <1>3, <1>8, <2>1, <2>2, <2>3 DEF ButtonReads
<1>9. CASE ~(pane.name \in job.button.changes /\ x = OwnerFor(job, pane.name))
  <2>1. Coming(pane, x, current, asks, running) => Coming(pane, x, current, asks, running')
    BY <1>1, <1>2 DEF Coming, Brings, WillRead
  <2>2. UpToDate(pane, x, current, shown[pane.name], asks, running) =>
           UpToDate(pane, x, current, shown[pane.name], asks, running')
    <3>1. \A other \in running' :
             Reloading(other) = pane.name /\ OwnerFor(other, pane.name) = x /\ other.answer # NoAnswer
                /\ other.answer.version < current => other \in running
      BY <1>2, <1>3, <1>6, <1>9
    <3>2. QED
      BY <2>1, <3>1 DEF UpToDate
  <2>3. QED
    BY <1>1, <1>5, <1>6, <1>7, <1>9, <2>2 DEF PaneQuiet, current, later
<1>10. QED
  BY <1>8, <1>9

\* What a work still brings once one of its answers has landed.
LEMMA NextBrings ==
    ASSUME NEW job, job.step \in Nat, Len(job.button.reloads) \in Nat, job.answer # NoAnswer, NEW next,
           next.step = job.step + 1, next.button = job.button, next.at = job.at, next.answer = NoAnswer,
           NEW name, NEW x, NEW current
    PROVE  /\ Brings(job, name, x, current)
                /\ ~(Reloading(job) = name /\ OwnerFor(job, name) = x /\ job.answer.version = current) =>
                   job.step # Len(job.button.reloads) /\ Brings(next, name, x, current)
           /\ WillRead(job, name, x) /\ Reloading(job) # name =>
                   job.step # Len(job.button.reloads) /\ WillRead(next, name, x)
<1>1. OwnerFor(next, name) = OwnerFor(job, name)
  BY DEF OwnerFor
<1>2. ASSUME NEW j \in job.step..Len(job.button.reloads), job.button.reloads[j] = name, j # job.step,
             OwnerFor(job, name) = x
      PROVE  job.step # Len(job.button.reloads) /\ Brings(next, name, x, current) /\ WillRead(next, name, x)
  <2>1. j \in next.step..Len(next.button.reloads) /\ next.step > 0 /\ job.step # Len(job.button.reloads)
    BY <1>2
  <2>2. QED
    BY <1>1, <1>2, <2>1 DEF Brings, WillRead
<1>3. ASSUME Brings(job, name, x, current),
             ~(Reloading(job) = name /\ OwnerFor(job, name) = x /\ job.answer.version = current)
      PROVE  job.step # Len(job.button.reloads) /\ Brings(next, name, x, current)
  <2>1. PICK j \in job.step..Len(job.button.reloads) :
           /\ job.button.reloads[j] = name /\ OwnerFor(job, name) = x
           /\ j > job.step \/ job.answer = NoAnswer \/ job.answer.version = current
    BY <1>3 DEF Brings
  <2>2. j # job.step
    BY <1>3, <2>1 DEF Reloading
  <2>3. QED
    BY <1>2, <2>1, <2>2
<1>4. ASSUME WillRead(job, name, x), Reloading(job) # name
      PROVE  job.step # Len(job.button.reloads) /\ WillRead(next, name, x)
  <2>1. PICK j \in job.step..Len(job.button.reloads) : job.button.reloads[j] = name /\ OwnerFor(job, name) = x
    BY <1>4 DEF WillRead
  <2>2. j # job.step
    BY <1>4, <2>1 DEF Reloading
  <2>3. QED
    BY <1>2, <2>1, <2>2
<1>5. QED
  BY <1>3, <1>4

LEMMA RequirementsWatched ==
    ASSUME NEW page \in PageNames, Verification \in PanelsOn[page]
    PROVE  "requirements" \in Verification.deps /\ Verification.pick = "project"
BY DEF Verification, Panel

LEMMA WorkLandsQuiet ==
    ASSUME LoadsInv, LoadsTyped, QuietLoads, LoadsInv', NEW job \in running, WorkLands(job)
    PROVE  QuietLoads'
<1> DEFINE name == Reloading(job)
           of == OwnerFor(job, name)
           leads == PanelOf[name].leads
           found == shown[name]
           merges == job.button.rows = "merge"
           fits == found # NoData /\ found.of = of /\ found.version = job.answer.version - 1
           lands == job.button.rows = "answer" \/ Accepted(name, of)
           next == [job EXCEPT !.step = @ + 1, !.answer = NoAnswer]
           landed == [of |-> of, version |-> job.answer.version, ids |-> job.answer.ids]
           merged == [found EXCEPT !.version = job.answer.version]
<1>1. /\ mounted' = mounted /\ lastPicked' = lastPicked /\ asks' = asks /\ facts' = facts /\ loadFailed' = loadFailed
      /\ unlinked' = unlinked /\ PagePanels' = PagePanels /\ touched \subseteq touched' /\ job.answer # NoAnswer
      /\ running' = (running \ {job}) \cup (IF job.step = Len(job.button.reloads) THEN {} ELSE {next})
      /\ overtaken => overtaken'
      /\ merges => /\ shown' = [shown EXCEPT ![name] = IF fits THEN merged ELSE found]
                   /\ found.of = of /\ ~fits => overtaken'
                   /\ OlderUnderWay(name, of, job.answer.version) => overtaken'
      /\ ~merges /\ lands => /\ shown' = [shown EXCEPT ![name] = landed]
                             /\ found.of = of /\ found.version > job.answer.version => overtaken'
                             /\ PanelOf[name].guard = "none" /\ of # picked[PanelOf[name].pick] => overtaken'
                             /\ {name} \cap Watched \subseteq touched'
      /\ ~merges /\ ~lands => shown' = shown
  BY DEF WorkLands, Merge, AndTouch, Show, PagePanels
<1>2. /\ WorkOf(job, mounted) /\ ButtonShape(job.button) /\ ButtonReads(job.button) /\ job.step > 0
      /\ mounted \in PageNames /\ JobTyped(job, facts)
  BY <1>1, ButtonsHold, ButtonsRead DEF LoadsInv, WorkOf, LoadsTyped
<1>3. /\ name \in PanelNames /\ PanelShape(name, PanelOf[name]) /\ job.step \in DOMAIN job.button.reloads
      /\ AnswerTyped(job.answer, name, of, facts)
      /\ job.button.rows = "answer" => PanelOf[name].guard = "none"
      /\ name = "requirements" => job.button.rows \notin {"merge", "answer"}
  BY <1>1, <1>2, JobReads, ShapesHold DEF JobTyped, ButtonShape, ButtonReads, Reloading
<1>4. /\ next.step = job.step + 1 /\ next.button = job.button /\ next.at = job.at /\ next.answer = NoAnswer
      /\ job.step \in Nat /\ Len(job.button.reloads) \in Nat
  BY <1>2 DEF WorkOf, ButtonShape
<1>5. /\ landed.of = of /\ landed.version = job.answer.version
      /\ name \in DOMAIN shown => merged.of = found.of /\ merged.version = job.answer.version
  BY DEF LoadsInv
<1> HIDE DEF next, landed, merged
<1>6. SUFFICES ASSUME ~loadFailed, ~overtaken, ~overtaken', NEW pane \in PagePanels, EffectsDone(pane, touched', picked')
                 PROVE  PaneQuiet(pane, picked'[pane.pick], facts'[<<pane.name, picked'[pane.pick]>>].version,
                                  shown'[pane.name], asks', running', unlinked')
  BY <1>1 DEF QuietLoads
<1>7. PICK x \in PickableIds(pane.pick) :
         /\ x = picked'[pane.pick] /\ x = picked[pane.pick] /\ x = lastPicked[pane.pick] /\ x # NoPick
         /\ pane.name \in PanelNames /\ pane = PanelOf[pane.name] /\ PanelShape(pane.name, pane)
         /\ <<pane.name, x>> \in LoadKeys /\ pane.name \in DOMAIN shown
         /\ facts[<<pane.name, x>>].version \in Nat
         /\ PaneQuiet(pane, x, facts[<<pane.name, x>>].version, shown[pane.name], asks, running, unlinked)
  BY <1>1, <1>6, QuietBefore
<1> DEFINE current == facts[<<pane.name, x>>].version
           hit == name = pane.name /\ of = x
<1>8. current \in Nat /\ (hit => job.answer.version \in 0..current)
  BY <1>3, <1>7 DEF AnswerTyped
<1> HIDE DEF current, name, of
<1>9. ASSUME ~(hit /\ job.answer.version = current), Coming(pane, x, current, asks, running)
      PROVE  Coming(pane, x, current, asks', running')
  <2>1. CASE \E ask \in asks : ask.name = pane.name /\ ask.of = x /\ (ask.answer = NoAnswer \/ ask.answer.version = current)
    BY <1>1, <2>1 DEF Coming
  <2>2. CASE \E other \in running : Brings(other, pane.name, x, current)
    <3>1. PICK other \in running : Brings(other, pane.name, x, current)
      BY <2>2
    <3>2. CASE other = job
      <4>1. job.step # Len(job.button.reloads) /\ Brings(next, pane.name, x, current)
        BY <1>1, <1>4, <1>9, <3>1, <3>2, NextBrings DEF name, of
      <4>2. QED
        BY <1>1, <4>1 DEF Coming
    <3>3. QED
      BY <1>1, <3>1, <3>2 DEF Coming
  <2>3. CASE pane = Verification /\ \E other \in running : WillRead(other, "requirements", x)
    <3>1. PICK other \in running : WillRead(other, "requirements", x)
      BY <2>3
    <3>2. CASE other = job /\ name # "requirements"
      <4>1. job.step # Len(job.button.reloads) /\ WillRead(next, "requirements", x)
        BY <1>1, <1>4, <3>1, <3>2, NextBrings DEF name
      <4>2. QED
        BY <1>1, <2>3, <4>1 DEF Coming
    <3>3. other = job /\ name = "requirements" => FALSE
      <4>1. SUFFICES ASSUME other = job, name = "requirements" PROVE FALSE
        OBVIOUS
      <4>2. of = x
        BY <3>1, <4>1 DEF WillRead, of, name
      <4>3. "requirements" \in pane.deps /\ pane.pick = "project"
        BY <1>2, <2>3, RequirementsWatched DEF PagePanels
      <4>4. lands /\ ~merges
        BY <1>3, <1>7, <4>1, <4>2, <4>3, PlacedPicks DEF Accepted
      <4>5. "requirements" \in touched'
        BY <1>1, <4>1, <4>3, <4>4 DEF Watched
      <4>6. QED
        BY <1>6, <4>3, <4>5 DEF EffectsDone
    <3>4. QED
      BY <1>1, <2>3, <3>1, <3>2, <3>3 DEF Coming
  <2>4. QED
    BY <1>9, <2>1, <2>2, <2>3 DEF Coming
<1>10. \A other \in running' : other.answer # NoAnswer => other \in running /\ other # job
  BY <1>1, <1>4
<1>11. CASE ~hit
  <2>1. /\ ShowsOf(shown'[pane.name], x) => shown'[pane.name] = shown[pane.name]
        /\ ShowsOf(shown[pane.name], x) => shown'[pane.name] = shown[pane.name]
    <3>1. CASE name # pane.name \/ (~merges /\ ~lands)
      BY <1>1, <1>7, <3>1
    <3>2. CASE name = pane.name /\ merges
      BY <1>1, <1>5, <1>7, <1>11, <3>2 DEF ShowsOf
    <3>3. ~(name = pane.name /\ ~merges /\ lands)
      <4>1. SUFFICES ASSUME name = pane.name, ~merges, lands PROVE FALSE
        OBVIOUS
      <4>2. of # x /\ PanelOf[name] = pane
        BY <1>7, <1>11, <4>1
      <4>3. pane.guard = "none"
        BY <1>3, <1>7, <4>1, <4>2 DEF Accepted
      <4>4. QED
        BY <1>1, <1>6, <1>7, <4>1, <4>2, <4>3
    <3>4. QED
      BY <3>1, <3>2, <3>3
  <2>2. UpToDate(pane, x, current, shown[pane.name], asks, running) =>
           UpToDate(pane, x, current, shown'[pane.name], asks', running')
    BY <1>1, <1>9, <1>10, <1>11, <2>1 DEF UpToDate
  <2>3. AskedOrShown(pane, x, shown[pane.name], asks) => AskedOrShown(pane, x, shown'[pane.name], asks')
    BY <1>1, <2>1 DEF AskedOrShown
  <2>4. QED
    BY <1>1, <1>7, <2>2, <2>3 DEF PaneQuiet, current
<1>12. CASE hit /\ ~merges
  <2>1. lands
    BY <1>7, <1>12 DEF Accepted
  <2>2. shown'[pane.name] = landed
    BY <1>1, <1>7, <1>12, <2>1
  <2>3. CASE UpToDate(pane, x, current, shown[pane.name], asks, running)
    <3>1. ASSUME job.answer.version < current
          PROVE  Coming(pane, x, current, asks', running')
      <4>1. \/ Coming(pane, x, current, asks, running)
            \/ ShowsOf(shown[pane.name], x) /\ shown[pane.name].version > job.answer.version
        BY <1>1, <1>2, <1>12, <2>3, <3>1 DEF UpToDate, name, of
      <4>2. ~(ShowsOf(shown[pane.name], x) /\ shown[pane.name].version > job.answer.version)
        BY <1>1, <1>6, <1>12, <2>1 DEF ShowsOf
      <4>3. job.answer.version # current
        BY <1>8, <1>12, <3>1
      <4>4. QED
        BY <1>9, <4>1, <4>2, <4>3
    <3>2. UpToDate(pane, x, current, landed, asks', running') /\ AskedOrShown(pane, x, landed, asks')
      BY <1>5, <1>7, <1>8, <1>12, <3>1, LandedIsUpToDate
    <3>3. QED
      BY <1>1, <1>7, <2>2, <3>2 DEF PaneQuiet, current
  <2>4. CASE pane = Verification /\ unlinked
    <3>1. NoData.of = NoPick
      BY DEF NoData
    <3>2. AskedOrShown(pane, x, landed, asks')
      BY <1>5, <1>7, <1>12, <3>1 DEF AskedOrShown, ShowsOf
    <3>3. QED
      BY <1>1, <1>7, <2>2, <2>4, <3>2 DEF PaneQuiet
  <2>5. QED
    BY <1>7, <2>3, <2>4 DEF PaneQuiet, current
<1>13. CASE hit /\ merges
  <2> DEFINE older(other) == /\ other.step > 0 /\ Reloading(other) = name /\ OwnerFor(other, name) = of
                             /\ other.answer # NoAnswer /\ other.answer.version < job.answer.version
  <2>1. /\ \A ask \in asks : ~(ask.name = name /\ ask.of = of /\ ask.answer # NoAnswer /\ ask.answer.version < job.answer.version)
        /\ \A other \in running : ~older(other)
    BY <1>1, <1>6, <1>13 DEF OlderUnderWay
  <2>2. CASE ShowsOf(shown[pane.name], x)
    <3>1. fits /\ shown'[pane.name] = merged /\ merged.of = x /\ merged.version = job.answer.version
          /\ shown[pane.name].version = job.answer.version - 1
      BY <1>1, <1>5, <1>6, <1>7, <1>13, <2>2 DEF ShowsOf
    <3>2. ShowsOf(merged, x)
      <4>1. NoData.of = NoPick
        BY DEF NoData
      <4>2. QED
        BY <1>7, <3>1, <4>1 DEF ShowsOf
    <3>3. AskedOrShown(pane, x, shown'[pane.name], asks')
      BY <3>1, <3>2 DEF AskedOrShown
    <3>4. CASE job.answer.version = current
      <4>1. UpToDate(pane, x, current, shown'[pane.name], asks', running')
        BY <1>1, <1>10, <1>13, <2>1, <3>1, <3>2, <3>4 DEF UpToDate
      <4>2. QED
        BY <1>1, <1>7, <3>3, <4>1 DEF PaneQuiet, current
    <3>5. CASE job.answer.version # current
      <4>1. job.answer.version - 1 # current
        BY <1>8, <1>13, <3>5
      <4>2. UpToDate(pane, x, current, shown[pane.name], asks, running) => Coming(pane, x, current, asks, running)
        BY <2>2, <3>1, <4>1 DEF UpToDate
      <4>3. QED
        BY <1>1, <1>7, <1>9, <3>3, <3>5, <4>2, ComingIsEnough DEF PaneQuiet, current
    <3>6. QED
      BY <3>4, <3>5
  <2>3. CASE ~ShowsOf(shown[pane.name], x)
    <3>1. shown'[pane.name] = shown[pane.name]
      BY <1>1, <1>7, <1>13, <2>3 DEF ShowsOf
    <3>2. UpToDate(pane, x, current, shown[pane.name], asks, running) =>
             UpToDate(pane, x, current, shown[pane.name], asks', running')
      <4>1. CASE job.answer.version # current
        BY <1>1, <1>9, <1>10, <2>3, <4>1 DEF UpToDate
      <4>2. CASE job.answer.version = current
        BY <1>1, <1>10, <1>13, <2>1, <2>3, <4>2 DEF UpToDate
      <4>3. QED
        BY <4>1, <4>2
    <3>3. QED
      BY <1>1, <1>7, <3>1, <3>2 DEF PaneQuiet, current, AskedOrShown
  <2>4. QED
    BY <2>2, <2>3
<1>14. QED
  BY <1>11, <1>12, <1>13

QuietInv == LoadsInv /\ LoadsTyped /\ QuietLoads

LEMMA InitialQuiet == LoadsInit => QuietInv
<1> SUFFICES ASSUME LoadsInit PROVE QuietInv
  OBVIOUS
<1>1. LoadsInv /\ LoadsTyped
  BY InitialLoads, InitialTypes
<1>2. \A pane \in PagePanels : pane.pick \in pane.deps /\ pane.pick \in PickNames
  BY <1>1, PaneFacts DEF LoadsInv, PanelShape
<1>3. \A pane \in PagePanels : ~EffectsDone(pane, touched, picked)
  BY <1>2 DEF LoadsInit, EffectsDone
<1>4. QED
  BY <1>1, <1>3 DEF QuietInv, QuietLoads

LEMMA OtherLoadsQuiet ==
    ASSUME QuietInv, LoadsInv',
           \/ \E ask \in asks : AskFails(ask)
           \/ \E pick \in {"project", "part", "revision"}, id \in Tops : PickTop(pick, id)
           \/ \E pane \in PagePanels : \E id \in shown[pane.name].ids : PickRow(pane, id)
           \/ \E button \in ButtonsOn[mounted] : \E gone \in Deleting(button) : Press(button, gone)
           \/ \E job \in running : ButtonFails(job)
           \/ UNCHANGED loadsVars
    PROVE  QuietLoads'
<1>1. CASE \E ask \in asks : AskFails(ask)
  BY <1>1 DEF AskFails, QuietLoads
<1>2. CASE \/ \E pick \in {"project", "part", "revision"}, id \in Tops : PickTop(pick, id)
           \/ \E pane \in PagePanels : \E id \in shown[pane.name].ids : PickRow(pane, id)
  BY <1>2, WorksQuiet DEF QuietInv, PickTop, PickRow, Pick, flags
<1>3. CASE \E button \in ButtonsOn[mounted] : \E gone \in Deleting(button) : Press(button, gone)
  <2>0. PICK button \in ButtonsOn[mounted] : \E gone \in Deleting(button) : Press(button, gone)
    BY <1>3
  <2>1. PICK gone \in Deleting(button) : Press(button, gone)
    BY <2>0
  <2> DEFINE new == [button |-> button, at |-> picked[button.pick], n |-> presses, gone |-> gone,
                     new |-> NoPick, step |-> 0, answer |-> NoAnswer]
  <2>2. running' = running \cup {new} /\ ~(new.step > 0)
    BY <2>1 DEF Press
  <2> HIDE DEF new
  <2>3. QED
    BY <2>1, <2>2, WorksQuiet DEF QuietInv, Press, flags
<1>4. CASE \E job \in running : ButtonFails(job)
  <2>1. PICK job \in running : ButtonFails(job)
    BY <1>4
  <2>2. CASE job.step > 0
    BY <2>1, <2>2 DEF ButtonFails, QuietLoads
  <2>3. CASE ~(job.step > 0)
    <3>1. ~loadFailed /\ running' = running \ {job}
      BY <2>1, <2>3 DEF ButtonFails
    <3>2. QED
      BY <2>1, <2>3, <3>1, WorksQuiet DEF QuietInv, ButtonFails
  <2>4. QED
    BY <2>2, <2>3
<1>5. CASE UNCHANGED loadsVars
  BY <1>5, WorksQuiet DEF QuietInv, loadsVars
<1>6. QED
  BY <1>1, <1>2, <1>3, <1>4, <1>5

LEMMA QuietStep == QuietInv /\ [LoadsNext]_loadsVars => QuietInv'
<1> SUFFICES ASSUME QuietInv, [LoadsNext]_loadsVars PROVE QuietInv'
  OBVIOUS
<1>1. LoadsInv /\ LoadsTyped /\ QuietLoads /\ LoadsInv'
  BY LoadsStep DEF QuietInv
<1>2. CASE Effects
  <2>1. LoadsTyped'
    BY <1>1, <1>2, EffectsTypes
  <2>2. QED
    BY <1>1, <1>2, <2>1, EffectsQuiet DEF QuietInv
<1>3. ASSUME NEW ask \in asks, ServeAsk(ask) \/ AskLands(ask) \/ AskFails(ask) PROVE QuietInv'
  <2>1. LoadsTyped'
    BY <1>1, <1>3, ServeAskTypes, AskLandsTypes, AskFailsTypes
  <2>2. QuietLoads'
    BY <1>1, <1>3, <2>1, ServeAskQuiet, AskLandsQuiet, OtherLoadsQuiet
  <2>3. QED
    BY <1>1, <2>1, <2>2 DEF QuietInv
<1>4. CASE \/ \E pick \in {"project", "part", "revision"}, id \in Tops : PickTop(pick, id)
           \/ \E pane \in PagePanels : \E id \in shown[pane.name].ids : PickRow(pane, id)
  <2>1. LoadsTyped' /\ QuietLoads'
    BY <1>1, <1>4, PickTypes, OtherLoadsQuiet
  <2>2. QED
    BY <1>1, <2>1 DEF QuietInv
<1>5. CASE \E button \in ButtonsOn[mounted] : \E gone \in Deleting(button) : Press(button, gone)
  <2>1. LoadsTyped' /\ QuietLoads'
    BY <1>1, <1>5, PressTypes, OtherLoadsQuiet
  <2>2. QED
    BY <1>1, <2>1 DEF QuietInv
<1>6. ASSUME NEW job \in running, ServeChange(job) \/ ServeReload(job) \/ WorkLands(job) \/ ButtonFails(job)
      PROVE  QuietInv'
  <2>1. LoadsTyped'
    BY <1>1, <1>6, ServeChangeTypes, ServeReloadTypes, WorkLandsTypes, ButtonFailsTypes
  <2>2. QuietLoads'
    BY <1>1, <1>6, <2>1, ServeChangeQuiet, ServeReloadQuiet, WorkLandsQuiet, OtherLoadsQuiet
  <2>3. QED
    BY <1>1, <2>1, <2>2 DEF QuietInv
<1>7. CASE UNCHANGED loadsVars
  <2>1. LoadsTyped' /\ QuietLoads'
    BY <1>1, <1>7, TypesStay, OtherLoadsQuiet DEF loadsVars, LoadsTyped
  <2>2. QED
    BY <1>1, <2>1 DEF QuietInv
<1>8. QED
  BY <1>2, <1>3, <1>4, <1>5, <1>6, <1>7 DEF LoadsNext

LEMMA QuietFromLoads == QuietInv => QuietPagesAreCurrent
<1> SUFFICES ASSUME QuietInv, touched = {}, asks = {}, running = {}, ~loadFailed, ~overtaken, NEW pane \in PagePanels
             PROVE  /\ pane.asked /\ picked[pane.pick] # NoPick => shown[pane.name] # NoData
                    /\ shown[pane.name] # NoData /\ shown[pane.name].of = picked[pane.pick]
                         => \/ shown[pane.name].version = facts[<<pane.name, picked[pane.pick]>>].version
                            \/ pane = Verification /\ unlinked
  BY DEF QuietPagesAreCurrent, Rendered
<1> DEFINE x == picked[pane.pick]
           current == facts[<<pane.name, x>>].version
<1>1. x # NoPick => PaneQuiet(pane, x, current, shown[pane.name], asks, running, unlinked)
  BY DEF QuietInv, QuietLoads, EffectsDone
<1>2. shown[pane.name] # NoData /\ shown[pane.name].of = x => x # NoPick
  <2>1. pane.name \in DOMAIN shown /\ pane = PanelOf[pane.name] /\ pane.pick \in PickNames
    BY PaneFacts DEF QuietInv, LoadsInv, PanelShape
  <2>2. shown[pane.name] # NoData => shown[pane.name].of \in Nat \ {0}
    BY <2>1, PickFacts DEF QuietInv, LoadsTyped, DataTyped
  <2>3. QED
    BY <2>2 DEF NoPick
<1>3. ~Coming(pane, x, current, asks, running)
  BY DEF Coming
<1> HIDE DEF x, current
<1>4. x # NoPick /\ pane.asked => shown[pane.name] # NoData
  BY <1>1 DEF PaneQuiet, AskedOrShown, ShowsOf
<1>5. x # NoPick /\ shown[pane.name] # NoData /\ shown[pane.name].of = x =>
        shown[pane.name].version = current \/ (pane = Verification /\ unlinked)
  BY <1>1, <1>3 DEF PaneQuiet, UpToDate, ShowsOf
<1>6. QED
  BY <1>2, <1>4, <1>5 DEF x, current

\* With nothing under way every panel of every page shows what the server holds after all that the page changed,
\* unless a call failed, an older reading came in after a newer one, or a trace link was removed (the matrix).
THEOREM QuietPages == LoadsSpec => []QuietPagesAreCurrent
<1>1. QuietInv /\ [LoadsNext]_loadsVars => QuietInv'
  BY QuietStep
<1>2. QED
  BY InitialQuiet, <1>1, QuietFromLoads, PTL DEF LoadsSpec

-----------------------------------------------------------------------------
(* The grid: sorting and filtering are rearrangements.                     *)

\* That `before` is a strict order of the places.
OrdersPlaces(places, before) ==
    /\ \A i \in places : <<i, i>> \notin before
    /\ \A i, j \in places : i # j => <<i, j>> \in before \/ <<j, i>> \in before
    /\ \A i, j, k \in places : <<i, j>> \in before /\ <<j, k>> \in before => <<i, k>> \in before

\* A strict order of finitely many places ranks them from 1 on without gaps.
LEMMA RanksFill ==
    ASSUME NEW places, IsFiniteSet(places), NEW before, OrdersPlaces(places, before),
           NEW rank, rank = [i \in places |-> 1 + Cardinality({j \in places : <<j, i>> \in before})]
    PROVE  /\ Cardinality(places) \in Nat
           /\ \A i \in places : rank[i] \in 1..Cardinality(places)
           /\ \A i, j \in places : <<i, j>> \in before <=> rank[i] < rank[j]
           /\ \A n \in 1..Cardinality(places) : \E i \in places : rank[i] = n
<1> DEFINE below(i) == {j \in places : <<j, i>> \in before}
           size == Cardinality(places)
<1>1. size \in Nat
  BY FS_CardinalityType
<1>2. ASSUME NEW i \in places
      PROVE  IsFiniteSet(below(i)) /\ Cardinality(below(i)) \in Nat /\ rank[i] = 1 + Cardinality(below(i))
             /\ rank[i] \in 1..size
  <2>1. below(i) \subseteq places \ {i}
    BY DEF OrdersPlaces
  <2>2. IsFiniteSet(places \ {i}) /\ Cardinality(places \ {i}) = size - 1
    BY FS_RemoveElement
  <2>3. rank[i] = 1 + Cardinality(below(i))
    OBVIOUS
  <2> HIDE DEF below, size
  <2>4. IsFiniteSet(below(i)) /\ Cardinality(below(i)) <= Cardinality(places \ {i})
    BY <2>1, <2>2, FS_Subset
  <2>5. Cardinality(below(i)) \in Nat
    BY <2>4, FS_CardinalityType
  <2>6. QED
    BY <1>1, <2>2, <2>3, <2>4, <2>5
<1>3. ASSUME NEW i \in places, NEW j \in places, <<i, j>> \in before
      PROVE  rank[i] < rank[j]
  <2>1. below(i) \subseteq below(j) /\ i \in below(j) /\ i \notin below(i)
    BY <1>3 DEF OrdersPlaces
  <2>2. Cardinality(below(i)) <= Cardinality(below(j)) /\ (Cardinality(below(i)) = Cardinality(below(j)) => below(i) = below(j))
    BY <1>2, <2>1, FS_Subset
  <2>3. /\ rank[i] = 1 + Cardinality(below(i)) /\ rank[j] = 1 + Cardinality(below(j))
        /\ Cardinality(below(i)) \in Nat /\ Cardinality(below(j)) \in Nat
    BY <1>2
  <2>4. Cardinality(below(i)) # Cardinality(below(j))
    BY <2>1, <2>2
  <2> HIDE DEF below
  <2>5. QED
    BY <2>2, <2>3, <2>4
<1>4. ASSUME NEW i \in places, NEW j \in places, rank[i] < rank[j]
      PROVE  <<i, j>> \in before
  <2>1. rank[i] \in 1..size /\ rank[j] \in 1..size
    BY <1>2
  <2> HIDE DEF size, below
  <2>2. i # j /\ ~(rank[j] < rank[i])
    BY <1>1, <1>4, <2>1
  <2>3. ~(<<j, i>> \in before)
    BY <1>3, <2>2
  <2>4. QED
    BY <2>2, <2>3 DEF OrdersPlaces
<1>5. ASSUME NEW n \in 1..size
      PROVE  \E i \in places : rank[i] = n
  <2>1. \A i, j \in places : rank[i] = rank[j] => i = j
    <3>1. SUFFICES ASSUME NEW i \in places, NEW j \in places, rank[i] = rank[j], i # j PROVE FALSE
      OBVIOUS
    <3>2. rank[i] < rank[j] \/ rank[j] < rank[i]
      BY <1>3, <3>1 DEF OrdersPlaces
    <3>3. rank[i] \in 1..size
      BY <1>2
    <3> HIDE DEF size
    <3>4. QED
      BY <1>1, <3>1, <3>2, <3>3
  <2>2. rank \in Injection(places, 1..size)
    BY <1>2, <2>1 DEF Injection, IsInjective
  <2>3. IsFiniteSet(1..size) /\ Cardinality(1..size) = size
    BY <1>1, FS_Interval
  <2>4. rank \in Surjection(places, 1..size)
    BY <2>2, <2>3, FS_Injection
  <2>5. QED
    BY <2>4 DEF Surjection
<1>6. QED
  BY <1>1, <1>2, <1>3, <1>4, <1>5

\* list takes the elements of seq at these places, each once: at[n] is where its n-th was.
Rearranges(list, seq, places, at) ==
    /\ at \in [1..Len(list) -> places]
    /\ \A n \in 1..Len(list) : list[n] = seq[at[n]]
    /\ \A i \in places : \E n \in 1..Len(list) : at[n] = i

InOrder(list, seq, places, before, at) ==
    Rearranges(list, seq, places, at) /\ \A m, n \in 1..Len(list) : m < n <=> <<at[m], at[n]>> \in before

LEMMA ArrangedFacts ==
    ASSUME NEW S, NEW seq \in Seq(S), NEW places \in SUBSET DOMAIN seq, NEW before, OrdersPlaces(places, before)
    PROVE  /\ Arranged(seq, places, before) \in Seq(S)
           /\ Len(Arranged(seq, places, before)) = Cardinality(places)
           /\ \E at : InOrder(Arranged(seq, places, before), seq, places, before, at)
<1> DEFINE list == Arranged(seq, places, before)
           rank == [i \in places |-> 1 + Cardinality({j \in places : <<j, i>> \in before})]
           size == Cardinality(places)
           at == [n \in 1..size |-> CHOOSE i \in places : rank[i] = n]
<1>0. IsFiniteSet(places)
  <2>1. DOMAIN seq = 1..Len(seq) /\ Len(seq) \in Nat
    OBVIOUS
  <2>2. IsFiniteSet(1..Len(seq))
    BY <2>1, FS_Interval
  <2>3. QED
    BY <2>1, <2>2, FS_Subset
<1>1. /\ size \in Nat
      /\ \A i \in places : rank[i] \in 1..size
      /\ \A i, j \in places : <<i, j>> \in before <=> rank[i] < rank[j]
      /\ \A n \in 1..size : \E i \in places : rank[i] = n
  BY <1>0, RanksFill
<1>2. list = [n \in 1..size |-> seq[at[n]]]
  BY DEF Arranged
<1> HIDE DEF rank, size, list
<1>3. \A n \in 1..size : at[n] \in places /\ rank[at[n]] = n
  BY <1>1
<1>4. at \in [1..size -> places]
  BY <1>3
<1> HIDE DEF at
<1>5. \A i \in places : \E n \in 1..size : at[n] = i
  <2>1. SUFFICES ASSUME NEW i \in places PROVE at[rank[i]] = i
    BY <1>1
  <2>2. at[rank[i]] \in places /\ rank[at[rank[i]]] = rank[i] /\ rank[i] \in Nat
    BY <1>1, <1>3
  <2>3. ~(<<i, at[rank[i]]>> \in before) /\ ~(<<at[rank[i]], i>> \in before)
    BY <1>1, <2>2
  <2>4. QED
    BY <2>2, <2>3 DEF OrdersPlaces
<1>6. ASSUME NEW m \in 1..size, NEW n \in 1..size PROVE m < n <=> <<at[m], at[n]>> \in before
  <2>1. at[m] \in places /\ rank[at[m]] = m /\ at[n] \in places /\ rank[at[n]] = n
    BY <1>3
  <2>2. <<at[m], at[n]>> \in before <=> rank[at[m]] < rank[at[n]]
    BY <1>1, <2>1
  <2>3. QED
    BY <2>1, <2>2
<1>7. list \in Seq(S) /\ Len(list) = size
  <2>1. \A n \in 1..size : seq[at[n]] \in S
    BY <1>3
  <2>2. list \in [1..size -> S]
    BY <1>2, <2>1
  <2>3. QED
    BY <1>1, <2>2, SeqDef
<1>8. \A n \in 1..size : list[n] = seq[at[n]]
  BY <1>2
<1>9. Rearranges(list, seq, places, at)
  BY <1>4, <1>5, <1>7, <1>8 DEF Rearranges
<1>10. QED
  BY <1>6, <1>7, <1>9 DEF list, InOrder, size

\* Elements taken as they come keep their order.
LEMMA ElementsFacts ==
    ASSUME NEW S, NEW seq \in Seq(S), NEW places \in SUBSET DOMAIN seq, NEW list, list = ElementsAt(seq, places)
    PROVE  /\ list \in Seq(S)
           /\ \E at : /\ Rearranges(list, seq, places, at)
                      /\ \A m, n \in 1..Len(list) : m < n <=> at[m] < at[n]
<1> DEFINE before == InPlace(places)
<1>1. OrdersPlaces(places, before)
  BY DEF OrdersPlaces, InPlace
<1>2. \A i, j \in places : <<i, j>> \in before <=> i < j
  BY DEF InPlace
<1>3. list = Arranged(seq, places, before)
  BY DEF ElementsAt
<1> HIDE DEF before
<1>4. list \in Seq(S) /\ \E at : InOrder(list, seq, places, before, at)
  BY <1>1, <1>3, ArrangedFacts
<1>5. PICK at : InOrder(list, seq, places, before, at)
  BY <1>4
<1>6. \A n \in 1..Len(list) : at[n] \in places
  BY <1>5 DEF InOrder, Rearranges
<1>7. \A m, n \in 1..Len(list) : m < n <=> at[m] < at[n]
  BY <1>2, <1>5, <1>6 DEF InOrder
<1>8. QED
  BY <1>4, <1>5, <1>7 DEF InOrder

-----------------------------------------------------------------------------
(* The grid: the order of the rows.                                        *)

\* What sorts rows is a number or blank.
Sortable(row) == \A column \in GridColumns : SortValue(row, column) \in Int \cup {NoValue}

LEMMA RowsSort ==
    ASSUME NEW rows \in GridRowLists
    PROVE  \A i \in DOMAIN rows : Sortable(rows[i])
  BY GridAssumption DEF Sortable, SortValue, CellValue

\* What comes first in a direction; blanks come last in both.
Precedes(a, b, dir) == a # NoValue /\ (b = NoValue \/ (IF dir = "desc" THEN a > b ELSE a < b))

ColumnOf(key) == CHOOSE c \in GridColumns : c.key = key

LEMMA CompareFacts ==
    ASSUME NEW a \in Int \cup {NoValue}, NEW b \in Int \cup {NoValue}, NEW dir \in SortDirections
    PROVE  LET sign == IF dir = "desc" THEN -1 ELSE 1
           IN  /\ CompareCells(a, b, sign) = 0 <=> a = b
               /\ CompareCells(a, b, sign) < 0 <=> Precedes(a, b, dir)
<1>1. CASE a = NoValue \/ b = NoValue
  BY <1>1 DEF CompareCells, Precedes
<1>2. CASE a # NoValue /\ b # NoValue
  <2>1. a \in Int /\ b \in Int
    BY <1>2
  <2>2. CASE dir = "desc"
    BY <1>2, <2>1, <2>2 DEF CompareCells, Precedes
  <2>3. CASE dir # "desc"
    BY <1>2, <2>1, <2>3 DEF CompareCells, Precedes
  <2>4. QED
    BY <2>2, <2>3
<1>3. QED
  BY <1>1, <1>2

SortEntries == [key : ColumnKeys, dir : SortDirections]

Value(keys, k, row) == SortValue(row, ColumnOf(keys[k].key))

Tied(keys, n, a, b) == \A l \in 1..n : Value(keys, l, a) = Value(keys, l, b)

\* The k-th key decides that a comes before b.
Decides(keys, k, a, b) ==
    /\ k \in 1..Len(keys)
    /\ Tied(keys, k - 1, a, b)
    /\ Precedes(Value(keys, k, a), Value(keys, k, b), keys[k].dir)

LEMMA SortValueFacts ==
    ASSUME NEW keys \in Seq(SortEntries), NEW k \in 1..Len(keys), NEW row, Sortable(row)
    PROVE  keys[k].dir \in SortDirections /\ Value(keys, k, row) \in Int \cup {NoValue}
<1>1. keys[k] \in SortEntries
  OBVIOUS
<1>2. keys[k].dir \in SortDirections /\ \E c \in GridColumns : c.key = keys[k].key
  BY <1>1 DEF SortEntries, ColumnKeys
<1>3. ColumnOf(keys[k].key) \in GridColumns
  BY <1>2 DEF ColumnOf
<1>4. QED
  BY <1>2, <1>3 DEF Value, Sortable

LEMMA BeforeFacts ==
    ASSUME NEW S, NEW rows \in Seq(S), \A i \in DOMAIN rows : Sortable(rows[i]), NEW keys \in Seq(SortEntries),
           NEW i \in DOMAIN rows, NEW j \in DOMAIN rows
    PROVE  RowBefore(rows, keys, i, j) <=> \/ Tied(keys, Len(keys), rows[i], rows[j]) /\ i < j
                                           \/ \E k \in 1..Len(keys) : Decides(keys, k, rows[i], rows[j])
<1> DEFINE a == rows[i]
           b == rows[j]
           by(k) == CompareCells(SortValue(a, ColumnOf(keys[k].key)), SortValue(b, ColumnOf(keys[k].key)),
                                 IF keys[k].dir = "desc" THEN -1 ELSE 1)
           differ == {k \in DOMAIN keys : by(k) # 0}
<1>1. Sortable(a) /\ Sortable(b) /\ DOMAIN keys = 1..Len(keys) /\ Len(keys) \in Nat
  OBVIOUS
<1>2. RowBefore(rows, keys, i, j) <=> IF differ = {} THEN i < j
                                      ELSE by(CHOOSE k \in differ : \A l \in differ : k <= l) < 0
  BY DEF RowBefore, ColumnOf
<1> HIDE DEF a, b
<1>3. ASSUME NEW k \in 1..Len(keys)
      PROVE  /\ by(k) = 0 <=> Value(keys, k, a) = Value(keys, k, b)
             /\ by(k) < 0 <=> Precedes(Value(keys, k, a), Value(keys, k, b), keys[k].dir)
  <2>1. /\ keys[k].dir \in SortDirections
        /\ Value(keys, k, a) \in Int \cup {NoValue} /\ Value(keys, k, b) \in Int \cup {NoValue}
    BY <1>1, SortValueFacts
  <2>2. QED
    BY <2>1, CompareFacts DEF Value
<1>a. \A k \in 1..Len(keys) :
         Precedes(Value(keys, k, a), Value(keys, k, b), keys[k].dir) => Value(keys, k, a) # Value(keys, k, b)
  <2>1. SUFFICES ASSUME NEW k \in 1..Len(keys)
                 PROVE  Precedes(Value(keys, k, a), Value(keys, k, b), keys[k].dir) => Value(keys, k, a) # Value(keys, k, b)
    OBVIOUS
  <2>2. Value(keys, k, a) \in Int \cup {NoValue} /\ Value(keys, k, b) \in Int \cup {NoValue}
    BY <1>1, SortValueFacts
  <2>3. QED
    BY <2>2 DEF Precedes
<1> HIDE DEF by
<1>4. CASE differ = {}
  <2>1. \A k \in 1..Len(keys) : Value(keys, k, a) = Value(keys, k, b)
    BY <1>1, <1>3, <1>4
  <2>2. \A k \in 1..Len(keys) : ~Decides(keys, k, a, b)
    BY <1>a, <2>1 DEF Decides
  <2>3. QED
    BY <1>2, <1>4, <2>1, <2>2 DEF Tied, a, b
<1>5. CASE differ # {}
  <2> DEFINE first == CHOOSE k \in differ : \A l \in differ : k <= l
  <2>1. differ \subseteq Nat
    BY <1>1
  <2>2. first \in differ /\ \A l \in differ : first <= l
    <3>1. \E k \in differ : \A l \in differ : k <= l
      BY <1>5, <2>1, LeastNatural
    <3>2. QED
      BY <3>1
  <2>3. RowBefore(rows, keys, i, j) <=> by(first) < 0
    BY <1>2, <1>5
  <2> HIDE DEF first
  <2>4. first \in 1..Len(keys) /\ Value(keys, first, a) # Value(keys, first, b)
    BY <1>1, <1>3, <2>2
  <2>5. Tied(keys, first - 1, a, b)
    <3>1. \A l \in 1..first - 1 : l \in 1..Len(keys) /\ l \notin differ
      BY <1>1, <2>2, <2>4
    <3>2. \A l \in 1..first - 1 : by(l) = 0
      BY <1>1, <3>1
    <3>3. QED
      BY <1>3, <3>1, <3>2 DEF Tied
  <2>6. ~Tied(keys, Len(keys), a, b)
    BY <2>4 DEF Tied
  <2>7. \A k \in 1..Len(keys) : Decides(keys, k, a, b) => k = first
    <3>1. SUFFICES ASSUME NEW k \in 1..Len(keys), Decides(keys, k, a, b) PROVE k = first
      OBVIOUS
    <3>2. Tied(keys, k - 1, a, b) /\ Value(keys, k, a) # Value(keys, k, b)
      BY <1>a, <3>1 DEF Decides
    <3>3. k \in differ
      BY <1>1, <1>3, <3>2
    <3>4. ~(first < k)
      BY <1>1, <2>4, <3>2 DEF Tied
    <3>5. QED
      BY <1>1, <2>2, <2>4, <3>3, <3>4
  <2>8. by(first) < 0 <=> Decides(keys, first, a, b)
    BY <1>3, <2>4, <2>5 DEF Decides
  <2>9. QED
    BY <2>3, <2>4, <2>6, <2>7, <2>8 DEF a, b
<1>6. QED
  BY <1>4, <1>5

LEMMA RowsOrdered ==
    ASSUME NEW S, NEW rows \in Seq(S), \A i \in DOMAIN rows : Sortable(rows[i]), NEW keys \in Seq(SortEntries)
    PROVE  OrdersPlaces(DOMAIN rows, {p \in (DOMAIN rows) \X (DOMAIN rows) : RowBefore(rows, keys, p[1], p[2])})
<1> DEFINE before == {p \in (DOMAIN rows) \X (DOMAIN rows) : RowBefore(rows, keys, p[1], p[2])}
           tied(n, i, j) == Tied(keys, n, rows[i], rows[j])
           decides(k, i, j) == Decides(keys, k, rows[i], rows[j])
<1>1. \A i, j \in DOMAIN rows : <<i, j>> \in before <=> \/ tied(Len(keys), i, j) /\ i < j
                                                       \/ \E k \in 1..Len(keys) : decides(k, i, j)
  BY BeforeFacts
<1>2. DOMAIN rows \subseteq Nat /\ Len(keys) \in Nat
  OBVIOUS
<1> HIDE DEF before
<1>3. ASSUME NEW k \in 1..Len(keys), NEW i \in DOMAIN rows, NEW j \in DOMAIN rows, decides(k, i, j)
      PROVE  ~tied(k, i, j) /\ tied(k - 1, i, j) /\ ~decides(k, j, i)
  <2>1. /\ keys[k].dir \in SortDirections
        /\ Value(keys, k, rows[i]) \in Int \cup {NoValue} /\ Value(keys, k, rows[j]) \in Int \cup {NoValue}
    BY SortValueFacts
  <2>2. Value(keys, k, rows[i]) # Value(keys, k, rows[j])
    BY <1>3, <2>1 DEF Decides, Precedes
  <2>3. QED
    BY <1>3, <2>1, <2>2 DEF Decides, Precedes, Tied
<1>4. ASSUME NEW n \in 0..Len(keys), NEW i \in DOMAIN rows, NEW j \in DOMAIN rows, tied(n, i, j), NEW m \in 0..n
      PROVE  tied(m, i, j) /\ tied(m, j, i)
  BY <1>4 DEF Tied
<1>5. ASSUME NEW n \in 0..Len(keys), NEW i \in DOMAIN rows, NEW j \in DOMAIN rows, NEW k \in DOMAIN rows,
             tied(n, i, j), tied(n, j, k)
      PROVE  tied(n, i, k)
  BY <1>5 DEF Tied
<1>6. ASSUME NEW i \in DOMAIN rows PROVE <<i, i>> \notin before
  BY <1>1, <1>2, <1>3 DEF Tied
<1>7. ASSUME NEW i \in DOMAIN rows, NEW j \in DOMAIN rows, i # j PROVE <<i, j>> \in before \/ <<j, i>> \in before
  <2>1. CASE tied(Len(keys), i, j)
    BY <1>1, <1>2, <1>4, <1>7, <2>1
  <2>2. CASE ~tied(Len(keys), i, j)
    <3> DEFINE differ == {k \in 1..Len(keys) : Value(keys, k, rows[i]) # Value(keys, k, rows[j])}
    <3>1. PICK k \in differ : \A l \in differ : k <= l
      <4>1. differ # {} /\ differ \subseteq Nat
        BY <2>2 DEF Tied
      <4>2. QED
        BY <4>1, LeastNatural
    <3>2. \A l \in 1..k - 1 : Value(keys, l, rows[i]) = Value(keys, l, rows[j])
      BY <1>2, <3>1
    <3>3. tied(k - 1, i, j) /\ tied(k - 1, j, i)
      BY <3>2 DEF Tied
    <3>4. /\ keys[k].dir \in SortDirections
          /\ Value(keys, k, rows[i]) \in Int \cup {NoValue} /\ Value(keys, k, rows[j]) \in Int \cup {NoValue}
      BY <3>1, SortValueFacts
    <3>5. \/ Precedes(Value(keys, k, rows[i]), Value(keys, k, rows[j]), keys[k].dir)
          \/ Precedes(Value(keys, k, rows[j]), Value(keys, k, rows[i]), keys[k].dir)
      BY <3>1, <3>4 DEF Precedes
    <3>6. decides(k, i, j) \/ decides(k, j, i)
      BY <3>1, <3>3, <3>5 DEF Decides
    <3>7. QED
      BY <1>1, <3>1, <3>6
  <2>3. QED
    BY <2>1, <2>2
<1>8. ASSUME NEW i \in DOMAIN rows, NEW j \in DOMAIN rows, NEW k \in DOMAIN rows,
             <<i, j>> \in before, <<j, k>> \in before
      PROVE  <<i, k>> \in before
  <2>1. CASE tied(Len(keys), i, j) /\ tied(Len(keys), j, k)
    <3>1. i < j /\ j < k
      BY <1>1, <1>2, <1>3, <1>4, <1>8, <2>1
    <3>2. QED
      BY <1>1, <1>2, <1>5, <2>1, <3>1
  <2>2. ASSUME NEW m \in 1..Len(keys), decides(m, i, j), tied(m, j, k)
        PROVE  <<i, k>> \in before
    <3>1. tied(m - 1, i, k) /\ Value(keys, m, rows[j]) = Value(keys, m, rows[k])
      BY <2>2 DEF Tied, Decides
    <3>2. decides(m, i, k)
      BY <2>2, <3>1 DEF Decides
    <3>3. QED
      BY <1>1, <3>2
  <2>3. ASSUME NEW m \in 1..Len(keys), tied(m, i, j), decides(m, j, k)
        PROVE  <<i, k>> \in before
    <3>1. tied(m - 1, i, k) /\ Value(keys, m, rows[i]) = Value(keys, m, rows[j])
      BY <2>3 DEF Tied, Decides
    <3>2. decides(m, i, k)
      BY <2>3, <3>1 DEF Decides
    <3>3. QED
      BY <1>1, <3>2
  <2>4. ASSUME NEW m \in 1..Len(keys), decides(m, i, j), decides(m, j, k)
        PROVE  <<i, k>> \in before
    <3>1. /\ keys[m].dir \in SortDirections
          /\ Value(keys, m, rows[i]) \in Int \cup {NoValue} /\ Value(keys, m, rows[j]) \in Int \cup {NoValue}
          /\ Value(keys, m, rows[k]) \in Int \cup {NoValue}
      BY SortValueFacts
    <3>2. tied(m - 1, i, k)
      BY <2>4 DEF Tied, Decides
    <3>3. Precedes(Value(keys, m, rows[i]), Value(keys, m, rows[k]), keys[m].dir)
      BY <2>4, <3>1 DEF Decides, Precedes
    <3>4. QED
      BY <1>1, <3>2, <3>3 DEF Decides
  <2>5. ASSUME NEW m \in 1..Len(keys), decides(m, i, j), tied(Len(keys), j, k)
        PROVE  <<i, k>> \in before
    <3>1. tied(m, j, k)
      BY <1>2, <2>5 DEF Tied
    <3>2. QED
      BY <2>2, <2>5, <3>1
  <2>6. ASSUME NEW m \in 1..Len(keys), tied(Len(keys), i, j), decides(m, j, k)
        PROVE  <<i, k>> \in before
    <3>1. tied(m, i, j)
      BY <1>2, <2>6 DEF Tied
    <3>2. QED
      BY <2>3, <2>6, <3>1
  <2>7. ASSUME NEW m \in 1..Len(keys), NEW n \in 1..Len(keys), decides(m, i, j), decides(n, j, k)
        PROVE  <<i, k>> \in before
    <3>1. CASE m < n
      <4>1. tied(m, j, k)
        BY <2>7, <3>1 DEF Tied, Decides
      <4>2. QED
        BY <2>2, <2>7, <4>1
    <3>2. CASE n < m
      <4>1. tied(n, i, j)
        BY <2>7, <3>2 DEF Tied, Decides
      <4>2. QED
        BY <2>3, <2>7, <4>1
    <3>3. CASE m = n
      BY <2>4, <2>7, <3>3
    <3>4. QED
      BY <3>1, <3>2, <3>3
  <2>8. QED
    BY <1>1, <1>8, <2>1, <2>5, <2>6, <2>7
<1>9. QED
  BY <1>6, <1>7, <1>8 DEF OrdersPlaces, before

-----------------------------------------------------------------------------
(* The grid: its types, and its view.                                      *)

CellRanges == [anchor : Int \X Int, cursor : Int \X Int]

GridTyped ==
    /\ gridRows \in GridRowLists
    /\ gridSort \in Seq(SortEntries)
    /\ cellRange \in {NoValue} \cup CellRanges
    /\ rowChecks = [ids |-> rowChecks.ids, anchor |-> rowChecks.anchor]

LEMMA KeysTyped ==
    ASSUME GridTyped
    PROVE  SortKeys(VisibleColumns) \in Seq(SortEntries)
<1> DEFINE places == {n \in DOMAIN gridSort : \E c \in VisibleColumns : c.key = gridSort[n].key}
<1>1. gridSort \in Seq(SortEntries) /\ places \subseteq DOMAIN gridSort
  BY DEF GridTyped
<1>2. SortKeys(VisibleColumns) = ElementsAt(gridSort, places)
  BY DEF SortKeys
<1> HIDE DEF places
<1>3. QED
  BY <1>1, <1>2, ElementsFacts

LEMMA KeptFacts ==
    ASSUME GridTyped
    PROVE  /\ gridRows \in Seq(ToSet(gridRows))
           /\ KeptRows \in Seq(ToSet(gridRows))
           /\ \A i \in DOMAIN KeptRows : Sortable(KeptRows[i])
           /\ \E at : /\ Rearranges(KeptRows, gridRows, {i \in DOMAIN gridRows : RowKept(gridRows[i], VisibleColumns)}, at)
                      /\ \A m, n \in 1..Len(KeptRows) : m < n <=> at[m] < at[n]
<1> DEFINE places == {i \in DOMAIN gridRows : RowKept(gridRows[i], VisibleColumns)}
<1>1. gridRows \in Seq(ToSet(gridRows)) /\ places \subseteq DOMAIN gridRows
  BY GridAssumption DEF GridTyped
<1>2. KeptRows = ElementsAt(gridRows, places)
  BY DEF KeptRows, FilterRows
<1> HIDE DEF places
<1>3. /\ KeptRows \in Seq(ToSet(gridRows))
      /\ \E at : /\ Rearranges(KeptRows, gridRows, places, at)
                 /\ \A m, n \in 1..Len(KeptRows) : m < n <=> at[m] < at[n]
  BY <1>1, <1>2, ElementsFacts
<1>4. ASSUME NEW i \in DOMAIN KeptRows PROVE Sortable(KeptRows[i])
  <2>1. KeptRows[i] \in ToSet(gridRows)
    BY <1>3
  <2>2. PICK n \in DOMAIN gridRows : KeptRows[i] = gridRows[n]
    BY <2>1 DEF ToSet
  <2>3. QED
    BY <2>2, RowsSort DEF GridTyped
<1>5. QED
  BY <1>1, <1>3, <1>4 DEF places

\* What makes a row of the view come before another.
ViewBefore(keys, kept, i, j) ==
    \/ Tied(keys, Len(keys), kept[i], kept[j]) /\ i < j
    \/ \E k \in 1..Len(keys) : Decides(keys, k, kept[i], kept[j])

LEMMA ViewFacts ==
    ASSUME GridTyped
    PROVE  /\ ViewRows \in Seq(ToSet(gridRows)) /\ Len(ViewRows) = Len(KeptRows)
           /\ \E at : /\ Rearranges(ViewRows, KeptRows, DOMAIN KeptRows, at)
                      /\ \A m, n \in 1..Len(ViewRows) :
                            m < n <=> ViewBefore(SortKeys(VisibleColumns), KeptRows, at[m], at[n])
<1> DEFINE keys == SortKeys(VisibleColumns)
           kept == KeptRows
           view == ViewRows
           before == {p \in (DOMAIN kept) \X (DOMAIN kept) : RowBefore(kept, keys, p[1], p[2])}
<1>1. /\ keys \in Seq(SortEntries) /\ kept \in Seq(ToSet(gridRows)) /\ \A i \in DOMAIN kept : Sortable(kept[i])
      /\ DOMAIN kept = 1..Len(kept) /\ Len(kept) \in Nat
  BY KeysTyped, KeptFacts
<1>2. view = IF keys = << >> THEN kept ELSE Arranged(kept, DOMAIN kept, before)
  BY DEF ViewRows, SortRows
<1> HIDE DEF keys, kept, view
<1>3. CASE keys = << >>
  <2> DEFINE at == [n \in 1..Len(kept) |-> n]
  <2>1. Len(keys) = 0 /\ view = kept
    BY <1>2, <1>3
  <2>2. Rearranges(view, kept, DOMAIN kept, at)
    BY <1>1, <2>1 DEF Rearranges
  <2>3. \A m, n \in 1..Len(view) : m < n <=> ViewBefore(keys, kept, at[m], at[n])
    BY <2>1 DEF ViewBefore, Tied
  <2>4. QED
    BY <1>1, <2>1, <2>2, <2>3 DEF keys, kept, view
<1>4. CASE keys # << >>
  <2>1. OrdersPlaces(DOMAIN kept, before)
    BY <1>1, RowsOrdered
  <2>2. ASSUME NEW i \in DOMAIN kept, NEW j \in DOMAIN kept
        PROVE  <<i, j>> \in before <=> ViewBefore(keys, kept, i, j)
    BY <1>1, BeforeFacts DEF ViewBefore
  <2>3. view = Arranged(kept, DOMAIN kept, before)
    BY <1>2, <1>4
  <2> HIDE DEF before
  <2>4. /\ view \in Seq(ToSet(gridRows)) /\ Len(view) = Cardinality(DOMAIN kept)
        /\ \E at : InOrder(view, kept, DOMAIN kept, before, at)
    BY <1>1, <2>1, <2>3, ArrangedFacts
  <2>5. Len(view) = Len(kept)
    <3>1. ASSUME NEW n \in Nat PROVE Cardinality(1..n) = n
      BY FS_Interval
    <3>2. Cardinality(DOMAIN kept) = Len(kept)
      BY <1>1, <3>1
    <3>3. QED
      BY <2>4, <3>2
  <2>6. PICK at : InOrder(view, kept, DOMAIN kept, before, at)
    BY <2>4
  <2>7. Rearranges(view, kept, DOMAIN kept, at) /\ \A n \in 1..Len(view) : at[n] \in DOMAIN kept
    BY <2>6 DEF InOrder, Rearranges
  <2>8. \A m, n \in 1..Len(view) : m < n <=> ViewBefore(keys, kept, at[m], at[n])
    BY <2>2, <2>6, <2>7 DEF InOrder
  <2>9. QED
    BY <2>4, <2>5, <2>7, <2>8 DEF keys, kept, view
<1>5. QED
  BY <1>3, <1>4

LEMMA ViewIds ==
    ASSUME GridTyped
    PROVE  /\ IdsOf(ViewRows) = IdsOf(KeptRows)
           /\ DOMAIN ViewRows = DOMAIN KeptRows /\ DOMAIN KeptRows = 1..Len(KeptRows) /\ Len(KeptRows) \in Nat
           /\ \A n \in DOMAIN KeptRows : ViewRows[n].id \in IdsOf(KeptRows)
<1> DEFINE kept == KeptRows
           view == ViewRows
<1>1. /\ view \in Seq(ToSet(gridRows)) /\ kept \in Seq(ToSet(gridRows)) /\ Len(view) = Len(kept)
      /\ \E at : Rearranges(view, kept, DOMAIN kept, at)
  BY KeptFacts, ViewFacts
<1>2. PICK at : Rearranges(view, kept, DOMAIN kept, at)
  BY <1>1
<1> HIDE DEF kept, view
<1>3. DOMAIN view = 1..Len(view) /\ DOMAIN kept = 1..Len(kept) /\ Len(kept) \in Nat
  BY <1>1
<1>4. ToSet(view) = ToSet(kept)
  <2>1. \A n \in DOMAIN view : at[n] \in DOMAIN kept /\ view[n] = kept[at[n]]
    BY <1>2, <1>3 DEF Rearranges
  <2>2. \A i \in DOMAIN kept : \E n \in DOMAIN view : view[n] = kept[i]
    BY <1>2, <1>3 DEF Rearranges
  <2>3. QED
    BY <2>1, <2>2 DEF ToSet
<1>5. \A n \in DOMAIN view : view[n] \in ToSet(view)
  BY DEF ToSet
<1>6. QED
  BY <1>1, <1>3, <1>4, <1>5 DEF IdsOf, kept, view

-----------------------------------------------------------------------------
(* The grid: its gestures keep the types and check no hidden row.          *)

LEMMA SizesTyped ==
    ASSUME GridTyped
    PROVE  /\ Len(KeptRows) \in Nat /\ Cardinality(VisibleColumns) \in Nat
           /\ HasCells => Len(KeptRows) >= 1 /\ Cardinality(VisibleColumns) >= 1
<1>1. KeptRows \in Seq(ToSet(gridRows))
  BY KeptFacts
<1>2. IsFiniteSet(VisibleColumns)
  <2>1. VisibleColumns \subseteq GridColumns
    BY DEF VisibleColumns
  <2>2. QED
    BY <2>1, GridAssumption, FS_Subset
<1>3. Cardinality(VisibleColumns) \in Nat /\ (Cardinality(VisibleColumns) = 0 <=> VisibleColumns = {})
  BY <1>2, FS_CardinalityType, FS_EmptySet
<1>4. Len(KeptRows) \in Nat /\ (KeptRows # << >> => Len(KeptRows) >= 1)
  BY <1>1
<1>5. QED
  BY <1>3, <1>4 DEF HasCells

LEMMA ClampFacts ==
    ASSUME GridTyped, NEW cell \in Int \X Int
    PROVE  /\ ClampCell(cell) \in Int \X Int
           /\ HasCells => ClampCell(cell)[1] \in 1..Len(KeptRows)
  BY SizesTyped DEF ClampCell, Clamped

LEMMA ActiveTyped ==
    ASSUME GridTyped, ActiveRange # NoValue
    PROVE  HasCells /\ ActiveRange \in CellRanges /\ ActiveRange.cursor[1] \in DOMAIN KeptRows
<1>1. HasCells /\ cellRange # NoValue
  BY DEF ActiveRange
<1>2. cellRange.anchor \in Int \X Int /\ cellRange.cursor \in Int \X Int
  BY <1>1 DEF GridTyped, CellRanges
<1>3. ActiveRange = [anchor |-> ClampCell(cellRange.anchor), cursor |-> ClampCell(cellRange.cursor)]
  BY <1>1 DEF ActiveRange
<1>4. /\ ClampCell(cellRange.anchor) \in Int \X Int /\ ClampCell(cellRange.cursor) \in Int \X Int
      /\ ClampCell(cellRange.cursor)[1] \in 1..Len(KeptRows)
  BY <1>1, <1>2, ClampFacts
<1>5. DOMAIN KeptRows = 1..Len(KeptRows)
  BY ViewIds
<1>6. QED
  BY <1>1, <1>3, <1>4, <1>5 DEF CellRanges

LEMMA MoveTyped ==
    ASSUME GridTyped, NEW cell \in Int \X Int, NEW extend, MoveTo(cell, extend)
    PROVE  cellRange' \in CellRanges
<1>1. ClampCell(cell) \in Int \X Int
  BY ClampFacts
<1>2. ActiveRange # NoValue => ActiveRange.anchor \in Int \X Int
  BY ActiveTyped DEF CellRanges
<1>3. QED
  BY <1>1, <1>2 DEF MoveTo, CellRanges, SingleCell

LEMMA TargetTyped ==
    ASSUME GridTyped, NEW key \in KeyNames \ {"Escape", "a", "Space"}, NEW ctrl \in BOOLEAN, NEW shift \in BOOLEAN,
           NEW r \in Int, NEW c \in Int
    PROVE  KeyTarget(key, ctrl, shift, r, c) \in Int \X Int
<1> DEFINE rows == Len(KeptRows)
           cols == Cardinality(VisibleColumns)
<1>1. rows \in Int /\ cols \in Int /\ PageRows \in Int
  BY SizesTyped, GridAssumption
<1>2. CASE key \in {"ArrowUp", "ArrowDown", "ArrowLeft", "ArrowRight"}
  BY <1>1, <1>2 DEF KeyTarget
<1>3. CASE key \in {"Home", "End", "PageUp", "PageDown"}
  BY <1>1, <1>3 DEF KeyTarget
<1>4. CASE key = "Tab"
  BY <1>1, <1>4 DEF KeyTarget
<1>5. QED
  BY <1>2, <1>3, <1>4 DEF KeyNames, MoveKeys

\* Checking the row, or the rows from the anchor, checks rows of the view alone.
LEMMA ChecksKept ==
    ASSUME GridTyped, NEW r \in DOMAIN KeptRows
    PROVE  /\ ToggledRow(rowChecks, ViewRows[r].id).ids \ rowChecks.ids \subseteq IdsOf(KeptRows)
           /\ RowRangeTo(r).ids \ rowChecks.ids \subseteq IdsOf(KeptRows)
<1>1. ToggledRow(rowChecks, ViewRows[r].id).ids \ rowChecks.ids \subseteq {ViewRows[r].id}
  BY DEF ToggledRow
<1>2. ViewRows[r].id \in IdsOf(KeptRows)
  BY ViewIds
<1>3. ASSUME NEW from PROVE RowRange(from, r) \subseteq IdsOf(KeptRows)
  <2>1. \A i \in DOMAIN ViewRows : ViewRows[i].id \in IdsOf(KeptRows)
    BY ViewIds
  <2>2. QED
    BY <2>1 DEF RowRange
<1>4. RowRangeTo(r).ids \ rowChecks.ids \subseteq IdsOf(KeptRows)
  <2> DEFINE at == {i \in DOMAIN ViewRows : ViewRows[i].id = rowChecks.anchor}
  <2>1. CASE at = {}
    <3>1. RowRangeTo(r) = ToggledRow(rowChecks, ViewRows[r].id)
      BY <2>1 DEF RowRangeTo
    <3>2. QED
      BY <1>1, <1>2, <3>1
  <2>2. CASE at # {}
    <3>1. RowRangeTo(r).ids = rowChecks.ids \cup RowRange(CHOOSE i \in at : TRUE, r)
      BY <2>2 DEF RowRangeTo, GridTyped
    <3>2. QED
      BY <1>3, <3>1
  <2>3. QED
    BY <2>1, <2>2
<1>5. QED
  BY <1>1, <1>2, <1>4


\* Which rows a gesture leaves checked, and the types of the rest.
GestureKeeps == GridTyped' /\ rowChecks'.ids \ rowChecks.ids \subseteq IdsOf(KeptRows)

ChecksTyped(checks) == checks = [ids |-> checks.ids, anchor |-> checks.anchor]

LEMMA ChecksShape ==
    ASSUME GridTyped
    PROVE  /\ \A id : ChecksTyped(ToggledRow(rowChecks, id))
           /\ \A r : ChecksTyped(RowRangeTo(r))
           /\ \A ids : ChecksTyped([rowChecks EXCEPT !.ids = ids])
<1>1. rowChecks = [ids |-> rowChecks.ids, anchor |-> rowChecks.anchor]
  BY DEF GridTyped
<1>2. ASSUME NEW ids PROVE [rowChecks EXCEPT !.ids = ids] = [ids |-> ids, anchor |-> rowChecks.anchor]
  BY <1>1
<1>3. \A ids : ChecksTyped([rowChecks EXCEPT !.ids = ids])
  BY <1>2 DEF ChecksTyped
<1>4. \A id : ChecksTyped(ToggledRow(rowChecks, id))
  BY DEF ChecksTyped, ToggledRow
<1>5. ASSUME NEW r PROVE ChecksTyped(RowRangeTo(r))
  BY <1>3, <1>4 DEF RowRangeTo
<1>6. QED
  BY <1>3, <1>4, <1>5

LEMMA RowsArriveKeeps == ASSUME GridTyped, RowsArrive PROVE GestureKeeps
  BY DEF GridTyped, RowsArrive, GestureKeeps

LEMMA PrefsKeep ==
    ASSUME GridTyped, UNCHANGED <<gridRows, gridSort, cellRange, rowChecks>>
    PROVE  GestureKeeps
  BY DEF GridTyped, GestureKeeps

LEMMA RemountKeeps == ASSUME GridTyped, Remount PROVE GestureKeeps
<1>1. gridSort' \in Seq(SortEntries) /\ cellRange' = NoValue /\ gridRows' = gridRows
  BY DEF Remount
<1>2. rowChecks' = [ids |-> {}, anchor |-> NoValue]
  BY DEF Remount
<1>3. QED
  BY <1>1, <1>2 DEF GestureKeeps, GridTyped

LEMMA ToggleSortKeeps ==
    ASSUME GridTyped, NEW key \in ColumnKeys, NEW additive \in BOOLEAN, ToggleSort(key, additive)
    PROVE  GestureKeeps
<1> DEFINE at   == {i \in DOMAIN gridSort : gridSort[i].key = key}
           i    == CHOOSE k \in at : TRUE
           asc  == [key |-> key, dir |-> "asc"]
           desc == [key |-> key, dir |-> "desc"]
<1>1. gridSort \in Seq(SortEntries) /\ asc \in SortEntries /\ desc \in SortEntries
  BY DEF GridTyped, SortEntries, SortDirections
<1>2. at # {} => i \in DOMAIN gridSort
  OBVIOUS
<1>3. \/ gridSort' \in {<<asc>>, <<desc>>, << >>}
      \/ gridSort' = Append(gridSort, asc)
      \/ at # {} /\ gridSort' = [gridSort EXCEPT ![i] = desc]
      \/ at # {} /\ gridSort' = RemoveAt(gridSort, i)
  BY DEF ToggleSort
<1> HIDE DEF at, i, asc, desc
<1>4. at # {} => RemoveAt(gridSort, i) \in Seq(SortEntries)
  <2>1. ASSUME at # {}
        PROVE  i \in 1..Len(gridSort) /\ Len(gridSort) \in Nat
    BY <1>1, <1>2, <2>1
  <2>2. ASSUME at # {}
        PROVE  SubSeq(gridSort, 1, i - 1) \in Seq(SortEntries) /\ SubSeq(gridSort, i + 1, Len(gridSort)) \in Seq(SortEntries)
    BY <1>1, <2>1, <2>2, SubSeqProperties
  <2>3. QED
    BY <2>2 DEF RemoveAt
<1>5. gridSort' \in Seq(SortEntries)
  <2>1. CASE gridSort' \in {<<asc>>, <<desc>>, << >>}
    <3>1. <<asc>> \in Seq(SortEntries) /\ <<desc>> \in Seq(SortEntries) /\ << >> \in Seq(SortEntries)
      BY <1>1
    <3>2. QED
      BY <2>1, <3>1
  <2>2. CASE gridSort' = Append(gridSort, asc)
    BY <1>1, <2>2
  <2>3. CASE at # {} /\ gridSort' = [gridSort EXCEPT ![i] = desc]
    BY <1>1, <1>2, <2>3, ExceptSeq
  <2>4. QED
    BY <1>3, <1>4, <2>1, <2>2, <2>3
<1>6. QED
  BY <1>5 DEF ToggleSort, GridTyped, GestureKeeps

LEMMA PressKeyKeeps ==
    ASSUME GridTyped, NEW k \in GridKeys, PressKey(k)
    PROVE  GestureKeeps
<1>1. k.key \in KeyNames /\ k.ctrl \in BOOLEAN /\ k.shift \in BOOLEAN
  BY GridAssumption
<1>2. UNCHANGED <<gridRows, gridSort>> /\ HasCells
  BY DEF PressKey
<1>3. CASE ActiveRange = NoValue
  <2>1. MoveTo(<<1, 1>>, FALSE) /\ rowChecks' = rowChecks
    BY <1>3 DEF PressKey
  <2>2. <<1, 1>> \in Int \X Int
    OBVIOUS
  <2>3. cellRange' \in CellRanges
    BY <2>1, <2>2, MoveTyped
  <2>4. QED
    BY <1>2, <2>1, <2>3 DEF GridTyped, GestureKeeps
<1>4. CASE ActiveRange # NoValue
  <2> DEFINE cursor == ActiveRange.cursor
  <2>1. ActiveRange \in CellRanges /\ cursor[1] \in DOMAIN KeptRows /\ cursor \in Int \X Int
    BY <1>4, ActiveTyped DEF CellRanges
  <2>2. CASE k.key = "Escape"
    <3>1. cellRange' = SingleCell(cursor) /\ rowChecks' = rowChecks
      BY <1>4, <2>2 DEF PressKey
    <3>2. QED
      BY <1>2, <2>1, <3>1 DEF GridTyped, GestureKeeps, SingleCell, CellRanges
  <2>3. CASE k.key = "a"
    <3>1. /\ cellRange' = [anchor |-> <<1, 1>>, cursor |-> <<Len(KeptRows), Cardinality(VisibleColumns)>>]
          /\ rowChecks' = rowChecks
      BY <1>4, <2>3 DEF PressKey
    <3>2. <<1, 1>> \in Int \X Int /\ <<Len(KeptRows), Cardinality(VisibleColumns)>> \in Int \X Int
      BY SizesTyped
    <3>3. QED
      BY <1>2, <3>1, <3>2 DEF GridTyped, GestureKeeps, CellRanges
  <2>4. CASE k.key = "Space"
    <3>1. /\ rowChecks' = IF k.shift THEN RowRangeTo(cursor[1]) ELSE ToggledRow(rowChecks, ViewRows[cursor[1]].id)
          /\ cellRange' = cellRange
      BY <1>4, <2>4 DEF PressKey
    <3>2. rowChecks'.ids \ rowChecks.ids \subseteq IdsOf(KeptRows)
      BY <2>1, <3>1, ChecksKept
    <3>3. ChecksTyped(rowChecks')
      BY <3>1, ChecksShape
    <3>4. QED
      BY <1>2, <3>1, <3>2, <3>3 DEF GridTyped, GestureKeeps, ChecksTyped
  <2>5. CASE k.key \notin {"Escape", "a", "Space"}
    <3>1. /\ MoveTo(KeyTarget(k.key, k.ctrl, k.shift, cursor[1], cursor[2]), k.shift /\ k.key # "Tab")
          /\ rowChecks' = rowChecks
      BY <1>4, <2>5 DEF PressKey
    <3>2. KeyTarget(k.key, k.ctrl, k.shift, cursor[1], cursor[2]) \in Int \X Int
      BY <1>1, <2>1, <2>5, TargetTyped
    <3>3. cellRange' \in CellRanges
      BY <3>1, <3>2, MoveTyped
    <3>4. QED
      BY <1>2, <3>1, <3>3 DEF GridTyped, GestureKeeps
  <2>6. QED
    BY <2>2, <2>3, <2>4, <2>5
<1>5. QED
  BY <1>3, <1>4

LEMMA PressCellKeeps ==
    ASSUME GridTyped, NEW r \in DOMAIN KeptRows, NEW c \in 1..Cardinality(VisibleColumns), NEW ctrl \in BOOLEAN,
           NEW shift \in BOOLEAN, PressCell(r, c, ctrl, shift)
    PROVE  GestureKeeps
<1>1. UNCHANGED <<gridRows, gridSort>>
  BY DEF PressCell
<1>2. <<r, c>> \in Int \X Int
  BY ViewIds, SizesTyped
<1>3. cellRange' \in CellRanges
  <2>1. \/ ActiveRange # NoValue /\ cellRange' = [anchor |-> ActiveRange.anchor, cursor |-> <<r, c>>]
        \/ cellRange' = SingleCell(<<r, c>>)
    BY DEF PressCell
  <2>2. QED
    BY <1>2, <2>1, ActiveTyped DEF CellRanges, SingleCell
<1>4. rowChecks' = rowChecks \/ rowChecks' = ToggledRow(rowChecks, ViewRows[r].id)
  BY DEF PressCell
<1>5. rowChecks'.ids \ rowChecks.ids \subseteq IdsOf(KeptRows)
  BY <1>4, ChecksKept
<1>6. ChecksTyped(rowChecks')
  BY <1>4, ChecksShape DEF ChecksTyped, GridTyped
<1>7. QED
  BY <1>1, <1>3, <1>5, <1>6 DEF GridTyped, GestureKeeps, ChecksTyped

LEMMA DragOverKeeps ==
    ASSUME GridTyped, NEW r \in DOMAIN KeptRows, NEW c \in 1..Cardinality(VisibleColumns), DragOver(r, c)
    PROVE  GestureKeeps
<1>1. UNCHANGED <<gridRows, gridSort, rowChecks>>
  BY DEF DragOver
<1>2. <<r, c>> \in Int \X Int
  BY ViewIds, SizesTyped
<1>3. cellRange' = IF cellRange = NoValue THEN NoValue ELSE [cellRange EXCEPT !.cursor = <<r, c>>]
  BY DEF DragOver
<1>4. cellRange' \in {NoValue} \cup CellRanges
  BY <1>2, <1>3 DEF GridTyped, CellRanges
<1>5. QED
  BY <1>1, <1>4 DEF GridTyped, GestureKeeps

LEMMA ClickCheckKeeps ==
    ASSUME GridTyped, NEW r \in DOMAIN KeptRows, NEW shift \in BOOLEAN, ClickCheck(r, shift)
    PROVE  GestureKeeps
<1>1. UNCHANGED <<gridRows, gridSort>>
  BY DEF ClickCheck
<1>2. rowChecks' = RowRangeTo(r) \/ rowChecks' = ToggledRow(rowChecks, ViewRows[r].id)
  BY DEF ClickCheck
<1>3. rowChecks'.ids \ rowChecks.ids \subseteq IdsOf(KeptRows) /\ ChecksTyped(rowChecks')
  BY <1>2, ChecksKept, ChecksShape
<1>4. r \in Int
  BY ViewIds
<1>5. cellRange' \in {NoValue} \cup CellRanges
  <2>1. cellRange' = cellRange \/ (ActiveRange # NoValue /\ cellRange' = SingleCell(<<r, ActiveRange.cursor[2]>>))
    BY DEF ClickCheck
  <2>2. ActiveRange # NoValue => ActiveRange.cursor[2] \in Int
    BY ActiveTyped DEF CellRanges
  <2>3. QED
    BY <1>4, <2>1, <2>2 DEF GridTyped, SingleCell, CellRanges
<1>6. QED
  BY <1>1, <1>3, <1>5 DEF GridTyped, GestureKeeps, ChecksTyped

LEMMA ToggleAllKeeps == ASSUME GridTyped, ToggleAllFiltered PROVE GestureKeeps
<1>1. UNCHANGED <<gridRows, gridSort, cellRange>>
  BY DEF ToggleAllFiltered
<1>2. PICK ids : rowChecks' = [rowChecks EXCEPT !.ids = ids]
                 /\ (ids = rowChecks.ids \ IdsOf(KeptRows) \/ ids = IdsOf(KeptRows))
  BY DEF ToggleAllFiltered
<1>3. rowChecks'.ids = ids /\ ChecksTyped(rowChecks')
  BY <1>2, ChecksShape DEF GridTyped
<1>4. QED
  BY <1>1, <1>2, <1>3 DEF GridTyped, GestureKeeps, ChecksTyped

LEMMA ClearSelectionKeeps == ASSUME GridTyped, ClearSelection PROVE GestureKeeps
<1>1. UNCHANGED <<gridRows, gridSort, cellRange>> /\ rowChecks' = [rowChecks EXCEPT !.ids = {}]
  BY DEF ClearSelection
<1>2. rowChecks'.ids = {} /\ ChecksTyped(rowChecks')
  BY <1>1, ChecksShape DEF GridTyped
<1>3. QED
  BY <1>1, <1>2 DEF GridTyped, GestureKeeps, ChecksTyped

LEMMA GestureKept == ASSUME GridTyped, [GridViewNext]_gridViewVars PROVE GestureKeeps
<1>1. CASE UNCHANGED gridViewVars
  BY <1>1, PrefsKeep DEF gridViewVars
<1>2. CASE RowsArrive \/ Remount \/ ToggleAllFiltered \/ ClearSelection
  BY <1>2, RowsArriveKeeps, RemountKeeps, ToggleAllKeeps, ClearSelectionKeeps
<1>3. CASE ClearFilters \/ Release
  BY <1>3, PrefsKeep DEF ClearFilters, Release
<1>4. CASE \E column \in GridColumns, visible \in BOOLEAN : SetVisible(column, visible)
  BY <1>4, PrefsKeep DEF SetVisible
<1>5. CASE \E key \in ColumnKeys, additive \in BOOLEAN : ToggleSort(key, additive)
  BY <1>5, ToggleSortKeeps
<1>6. CASE \E f \in GridFilters : SetColumnFilter(f.key, f.filter)
  BY <1>6, PrefsKeep DEF SetColumnFilter
<1>7. CASE \E needles \in QuickFilters : SetQuickFilter(needles)
  BY <1>7, PrefsKeep DEF SetQuickFilter
<1>8. CASE \E k \in GridKeys : PressKey(k)
  BY <1>8, PressKeyKeeps
<1>9. CASE \E r \in DOMAIN KeptRows, shift \in BOOLEAN : ClickCheck(r, shift)
  BY <1>9, ClickCheckKeeps
<1>10. CASE \E r \in DOMAIN KeptRows, c \in 1..Cardinality(VisibleColumns) :
              DragOver(r, c) \/ \E ctrl, shift \in BOOLEAN : PressCell(r, c, ctrl, shift)
  BY <1>10, DragOverKeeps, PressCellKeeps
<1>11. QED
  BY <1>1, <1>2, <1>3, <1>4, <1>5, <1>6, <1>7, <1>8, <1>9, <1>10 DEF GridViewNext

LEMMA GridStarts == ASSUME GridViewInit PROVE GridTyped
<1>1. << >> \in Seq(SortEntries)
  OBVIOUS
<1>2. QED
  BY <1>1 DEF GridViewInit, GridTyped

LEMMA GridTypesHold == GridViewSpec => []GridTyped
<1>1. ASSUME GridTyped, [GridViewNext]_gridViewVars PROVE GridTyped'
  BY <1>1, GestureKept DEF GestureKeeps
<1>2. QED
  BY <1>1, GridStarts, PTL DEF GridViewSpec

\* Bulk edits and bulk deletes act on the checked rows: no gesture checks a row that the
\* filters hide at that moment, whatever columns, rows, filters and keys there are.
THEOREM HiddenStayUnchecked == GridViewSpec => HiddenRowsStayUnchecked
<1>1. ASSUME GridTyped, [GridViewNext]_gridViewVars
      PROVE  [rowChecks'.ids \ rowChecks.ids \subseteq IdsOf(KeptRows)]_gridViewVars
  BY <1>1, GestureKept DEF GestureKeeps
<1>2. QED
  BY <1>1, GridTypesHold, PTL DEF GridViewSpec, HiddenRowsStayUnchecked


\* A row of the loaded ones is at one place of them.
LEMMA PlaceOfRow ==
    ASSUME GridTyped, NEW n \in DOMAIN gridRows, NEW row, row = gridRows[n]
    PROVE  (CHOOSE i \in DOMAIN gridRows : gridRows[i] = row) = n
<1>1. \A i, j \in DOMAIN gridRows : gridRows[i].id = gridRows[j].id => i = j
  BY GridAssumption DEF GridTyped
<1>2. \A i \in DOMAIN gridRows : gridRows[i] = row => i = n
  BY <1>1
<1>3. QED
  BY <1>2

\* Rows of the view that come one after the other.
LEMMA NeighboursOrdered ==
    ASSUME GridTyped, NEW i \in DOMAIN ViewRows, NEW j \in DOMAIN ViewRows, i < j
    PROVE  \/ /\ Tied(SortKeys(VisibleColumns), Len(SortKeys(VisibleColumns)), ViewRows[i], ViewRows[j])
              /\ (CHOOSE n \in DOMAIN gridRows : gridRows[n] = ViewRows[i])
                    < (CHOOSE n \in DOMAIN gridRows : gridRows[n] = ViewRows[j])
           \/ \E k \in 1..Len(SortKeys(VisibleColumns)) : Decides(SortKeys(VisibleColumns), k, ViewRows[i], ViewRows[j])
<1> DEFINE keys == SortKeys(VisibleColumns)
           kept == KeptRows
           view == ViewRows
           places == {n \in DOMAIN gridRows : RowKept(gridRows[n], VisibleColumns)}
<1>a. DOMAIN view = 1..Len(view) /\ DOMAIN kept = 1..Len(kept)
  <2>1. Len(view) = Len(kept)
    BY ViewFacts
  <2>2. QED
    BY <2>1, ViewIds
<1>b. \E at : /\ Rearranges(kept, gridRows, places, at)
              /\ \A m, n \in 1..Len(kept) : m < n <=> at[m] < at[n]
  BY KeptFacts
<1>c. \E at : /\ Rearranges(view, kept, DOMAIN kept, at)
              /\ \A m, n \in 1..Len(view) : m < n <=> ViewBefore(keys, kept, at[m], at[n])
  BY ViewFacts
<1>1. DOMAIN view = 1..Len(view) /\ DOMAIN kept = 1..Len(kept)
  BY <1>a
<1>2. PICK was : /\ Rearranges(kept, gridRows, places, was)
                 /\ \A m, n \in 1..Len(kept) : m < n <=> was[m] < was[n]
  BY <1>b
<1>3. PICK at : /\ Rearranges(view, kept, DOMAIN kept, at)
                /\ \A m, n \in 1..Len(view) : m < n <=> ViewBefore(keys, kept, at[m], at[n])
  BY <1>c
<1>4. places \subseteq DOMAIN gridRows
  OBVIOUS
<1> HIDE DEF keys, kept, view, places
<1>5. ASSUME NEW n \in DOMAIN view
      PROVE  /\ at[n] \in 1..Len(kept) /\ view[n] = kept[at[n]]
             /\ was[at[n]] \in DOMAIN gridRows /\ view[n] = gridRows[was[at[n]]]
  BY <1>1, <1>2, <1>3, <1>4 DEF Rearranges
<1>6. i \in DOMAIN view /\ j \in DOMAIN view /\ ViewBefore(keys, kept, at[i], at[j])
  BY <1>1, <1>3 DEF view
<1>7. CASE \E k \in 1..Len(keys) : Decides(keys, k, kept[at[i]], kept[at[j]])
  BY <1>5, <1>6, <1>7 DEF keys, view
<1>8. CASE Tied(keys, Len(keys), kept[at[i]], kept[at[j]]) /\ at[i] < at[j]
  <2>1. was[at[i]] < was[at[j]]
    BY <1>2, <1>5, <1>6, <1>8
  <2>2. \A n \in DOMAIN view : (CHOOSE m \in DOMAIN gridRows : gridRows[m] = view[n]) = was[at[n]]
    BY <1>5, PlaceOfRow
  <2>3. QED
    BY <1>5, <1>6, <1>8, <2>1, <2>2 DEF keys, view
<1>9. QED
  BY <1>6, <1>7, <1>8 DEF ViewBefore

LEMMA ViewOrdered == ASSUME GridTyped PROVE ViewIsOrdered
<1> DEFINE keys == SortKeys(VisibleColumns)
           value(k, row) == SortValue(row, CHOOSE c \in GridColumns : c.key = keys[k].key)
           place(row) == CHOOSE n \in DOMAIN gridRows : gridRows[n] = row
           ties(a, b, k) == \A l \in 1..k : value(l, a) = value(l, b)
           view == ViewRows
<1>1. keys \in Seq(SortEntries)
  BY KeysTyped
<1>2. \A k, row : value(k, row) = Value(keys, k, row)
  BY DEF Value, ColumnOf
<1>3. \A a, b, k : ties(a, b, k) <=> Tied(keys, k, a, b)
  BY DEF Value, ColumnOf, Tied
<1>4. \A n \in DOMAIN view : Sortable(view[n])
  <2>1. /\ view \in Seq(ToSet(gridRows))
    BY ViewFacts
  <2>2. \A row \in ToSet(gridRows) : Sortable(row)
    BY RowsSort DEF ToSet, GridTyped
  <2>3. QED
    BY <2>1, <2>2
<1>5. ASSUME NEW i \in DOMAIN view, NEW j \in DOMAIN view, i < j
      PROVE  \/ Tied(keys, Len(keys), view[i], view[j]) /\ place(view[i]) < place(view[j])
             \/ \E k \in 1..Len(keys) : Decides(keys, k, view[i], view[j])
  BY <1>5, NeighboursOrdered
<1>6. IdsOf(view) = IdsOf(KeptRows)
  BY ViewIds
<1>7. DOMAIN keys = 1..Len(keys) /\ Len(keys) \in Nat
  BY <1>1
<1> HIDE DEF keys, view, value, ties, place
<1>8. ASSUME NEW i \in DOMAIN view, NEW j \in DOMAIN view, NEW k \in DOMAIN keys
      PROVE  /\ keys[k].dir \in SortDirections
             /\ Value(keys, k, view[i]) \in Int \cup {NoValue} /\ Value(keys, k, view[j]) \in Int \cup {NoValue}
             /\ Precedes(Value(keys, k, view[i]), Value(keys, k, view[j]), keys[k].dir)
                   => Value(keys, k, view[i]) # Value(keys, k, view[j])
  <2>1. /\ keys[k].dir \in SortDirections
        /\ Value(keys, k, view[i]) \in Int \cup {NoValue} /\ Value(keys, k, view[j]) \in Int \cup {NoValue}
    BY <1>1, <1>4, <1>7, SortValueFacts
  <2>2. QED
    BY <2>1 DEF Precedes
<1>9. ASSUME NEW i \in DOMAIN view, NEW j \in DOMAIN view, i < j, ties(view[i], view[j], Len(keys))
      PROVE  place(view[i]) < place(view[j])
  <2>1. \A k \in 1..Len(keys) : Value(keys, k, view[i]) = Value(keys, k, view[j])
    BY <1>3, <1>9 DEF Tied
  <2>2. \A k \in 1..Len(keys) : ~Decides(keys, k, view[i], view[j])
    BY <1>7, <1>8, <2>1 DEF Decides
  <2>3. QED
    BY <1>5, <1>9, <2>2
<1>10. ASSUME NEW i \in DOMAIN view, NEW j \in DOMAIN view, i < j, NEW k \in DOMAIN keys,
              ties(view[i], view[j], k - 1), value(k, view[i]) # value(k, view[j])
       PROVE  /\ value(k, view[i]) # NoValue
              /\ value(k, view[j]) = NoValue
                   \/ (IF keys[k].dir = "asc" THEN value(k, view[i]) < value(k, view[j])
                       ELSE value(k, view[i]) > value(k, view[j]))
  <2>1. Tied(keys, k - 1, view[i], view[j]) /\ Value(keys, k, view[i]) # Value(keys, k, view[j])
    BY <1>2, <1>3, <1>10
  <2>2. k \in 1..Len(keys) /\ ~Tied(keys, Len(keys), view[i], view[j])
    BY <1>7, <2>1 DEF Tied
  <2>3. PICK m \in 1..Len(keys) : Decides(keys, m, view[i], view[j])
    BY <1>5, <1>10, <2>2
  <2>4. /\ Tied(keys, m - 1, view[i], view[j]) /\ Value(keys, m, view[i]) # Value(keys, m, view[j])
        /\ Precedes(Value(keys, m, view[i]), Value(keys, m, view[j]), keys[m].dir)
    BY <1>7, <1>8, <2>3 DEF Decides
  <2>5. m = k
    <3>1. ~(m < k)
      BY <1>7, <2>1, <2>2, <2>4 DEF Tied
    <3>2. ~(k < m)
      BY <1>7, <2>1, <2>2, <2>4 DEF Tied
    <3>3. QED
      BY <1>7, <2>2, <3>1, <3>2
  <2>6. keys[k].dir = "asc" \/ keys[k].dir = "desc"
    BY <1>8 DEF SortDirections
  <2>7. QED
    BY <1>2, <2>4, <2>5, <2>6 DEF Precedes
<1>11. QED
  BY <1>6, <1>9, <1>10 DEF ViewIsOrdered, keys, view, value, ties, place

\* What is copied, exported and pasted over is the view: in every state it holds the rows
\* the filters keep, in the order of the sort keys whose columns show, blanks last in both
\* directions and equal rows in the order they were loaded in.
THEOREM ViewInOrder == GridViewSpec => []ViewIsOrdered
<1>1. GridTyped => ViewIsOrdered
  BY ViewOrdered
<1>2. QED
  BY <1>1, GridTypesHold, PTL

==============================================================================
