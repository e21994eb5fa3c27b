------------------------------ MODULE TagRules ------------------------------
(***************************************************************************)
(* Component tags (tags.ts): how a tag is read, checked, written and        *)
(* counted under the project's scheme, and how a selection is renumbered.   *)
(*                                                                         *)
(* A tag is [letters, small, sep, digits]: its letters in upper case,       *)
(* whether they were typed in lower case, what stands between letters and   *)
(* number, and the digits.  Digits are in base Radix, so that a number       *)
(* outgrows its places early.  An item is [id, kind, tag, rank, values];    *)
(* rank is its place in reading order.                                      *)
(***************************************************************************)
EXTENDS Integers, Sequences, SequencesExt, FiniteSetsExt

CONSTANTS
    Radix,    \* base of the numbers in tags
    NoTag,    \* an item without a tag
    NoValue   \* a setting or a part of a tag that is not there

ASSUME TagAssumption == Radix \in Nat \ {0, 1}

\* What the pattern of parseTag takes between letters and digits.
Separators == {"", "-", " "}

-----------------------------------------------------------------------------
(* Numbers and their digits.                                               *)

NumberOf(digits) == FoldLeft(LAMBDA n, digit : n * Radix + digit, 0, digits)

\* String(n).padStart(places, "0")
Padded(n, places) ==
    LET width == CHOOSE w \in 1..(places + n + 1) :
                    w >= places /\ n < Radix^w /\ (w = 1 \/ w = places \/ n >= Radix^(w - 1))
    IN  [i \in 1..width |-> (n \div Radix^(width - i)) % Radix]

-----------------------------------------------------------------------------
(* Schemes.                                                                *)

Setting(value, default) == IF value = NoValue THEN default ELSE value

\* A stored scheme may lack any of its fields.
NormalizeScheme(raw) ==
    [kind      |-> IF raw.kind = "structured" THEN "structured" ELSE "simple",
     separator |-> Setting(raw.separator, "-"),
     letters   |-> Setting(raw.letters, {"HV", "PT"}),
     systems   |-> Setting(raw.systems, << >>),
     classes   |-> Setting(raw.classes, << >>),
     length    |-> IF raw.length = NoValue \/ raw.length = 0 THEN 1 ELSE raw.length,
     strict    |-> Setting(raw.strict, FALSE)]

Structured(scheme) == scheme.kind = "structured"

\* parseTag: NoValue unless the tag has the scheme's form.
ParseTag(tag, scheme) ==
    IF tag.sep \notin Separators \/ tag.digits = << >> THEN NoValue
    ELSE IF ~Structured(scheme)
    THEN [letters |-> tag.letters, system |-> NoValue, cls |-> NoValue, sequence |-> NumberOf(tag.digits)]
    ELSE IF Len(tag.digits) # 2 + scheme.length THEN NoValue
    ELSE [letters |-> tag.letters, system |-> tag.digits[1], cls |-> tag.digits[2],
          sequence |-> NumberOf(SubSeq(tag.digits, 3, Len(tag.digits)))]

ValidateTag(tag, scheme) ==
    LET parsed == ParseTag(tag, scheme)
    IN  /\ parsed # NoValue
        /\ tag.sep = scheme.separator
        /\ scheme.strict /\ scheme.letters # {} => tag.letters \in scheme.letters
        /\ Structured(scheme) =>
             /\ scheme.systems # << >> => parsed.system \in ToSet(scheme.systems)
             /\ scheme.classes # << >> => parsed.cls \in ToSet(scheme.classes)

FirstDigit(digits, default) == IF digits = << >> THEN default ELSE digits[1]

\* The system and class digits a new tag gets: the context's, or the first of the tables.
Context(scheme, context) ==
    [system |-> Setting(context.system, FirstDigit(scheme.systems, 0)),
     cls    |-> Setting(context.cls, FirstDigit(scheme.classes, 1))]

FormatTag(scheme, letters, sequence, context) ==
    LET c == Context(scheme, context)
        places == Padded(sequence, scheme.length)
    IN  [letters |-> letters, small |-> FALSE, sep |-> scheme.separator,
         digits |-> IF Structured(scheme) THEN <<c.system, c.cls>> \o places ELSE places]

TagKey(tag) == <<tag.letters, tag.digits>>

\* The highest sequence of a structured scheme; a simple one has none.
WithinLimit(scheme, n) == Structured(scheme) => n <= Radix^scheme.length - 1

-----------------------------------------------------------------------------
(* Items and their tags.                                                   *)

TaggedKinds == {"symbol", "equipment"}

TaggedItems(items) == SelectSeq(items, LAMBDA item : item.kind \in TaggedKinds /\ item.tag # NoTag)

TagsOf(items) == {item.tag : item \in ToSet(TaggedItems(items))}

\* Fault: tags of the drawing's other sheets are not looked at.
InUseHere(items, reserved) == TagsOf(items)

InUse(items, reserved) == TagsOf(items) \cup reserved

\* nextTag: one past the highest sequence, else the lowest free one, else none.
NextTag(items, scheme, letters, context, reserved) ==
    LET c == Context(scheme, context)
        used == {TagKey(tag) : tag \in InUse(items, reserved)}
        parsed == {ParseTag(tag, scheme) : tag \in InUse(items, reserved)} \ {NoValue}
        taken == {p.sequence : p \in {q \in parsed : q.letters = letters /\
                    (Structured(scheme) => q.system = c.system /\ q.cls = c.cls)}}
        format(n) == FormatTag(scheme, letters, n, c)
        free(n) == n \notin taken /\ TagKey(format(n)) \notin used
        next == Max(taken \cup {0}) + 1
        gaps == {n \in 1..(next + Cardinality(used)) : WithinLimit(scheme, n) /\ free(n)}
    IN  IF WithinLimit(scheme, next) /\ free(next) THEN format(next)
        ELSE IF gaps # {} THEN format(Min(gaps))
        ELSE NoTag

\* tagIssues, by item: what is invalid, and what repeats an earlier tag or another sheet's.
TagIssues(items, scheme, reserved) ==
    LET tagged == TaggedItems(items)
        repeats(i) == \/ \E j \in 1..(i - 1) : TagKey(tagged[j].tag) = TagKey(tagged[i].tag)
                      \/ \E tag \in reserved : TagKey(tag) = TagKey(tagged[i].tag)
    IN  {<<tagged[i].id, "invalid">> : i \in {n \in DOMAIN tagged : ~ValidateTag(tagged[n].tag, scheme)}}
        \cup {<<tagged[i].id, "duplicate">> : i \in {n \in DOMAIN tagged : repeats(n)}}

-----------------------------------------------------------------------------
(* Renumbering.                                                            *)

GroupOf(parsed) == <<parsed.letters, parsed.system, parsed.cls>>

Fits(scheme, numbers) == \A n \in numbers : WithinLimit(scheme, n)

\* The items of one group get the free numbers from startAt on, in reading order.
RenumberedGroup(group, selected, taken, scheme, startAt) ==
    LET place(item) == Cardinality({other \in selected : other.rank < item.rank})
        numberOf(item) == CHOOSE n \in startAt..(startAt + Cardinality(selected) + Cardinality(taken)) :
            n \notin taken /\ Cardinality((startAt..(n - 1)) \ taken) = place(item)
        numbers == {numberOf(item) : item \in selected}
    IN  [id \in {item.id : item \in selected} |->
            LET item == CHOOSE i \in selected : i.id = id
            IN  IF Fits(scheme, numbers)
                THEN FormatTag(scheme, group[1], numberOf(item), [system |-> group[2], cls |-> group[3]])
                ELSE item.tag]

\* renumberCommand: the new tags, by item.
Renumbered(items, scheme, ids, startAt, reserved) ==
    LET parsed(tag) == ParseTag(tag, scheme)
        chosen == {item \in ToSet(TaggedItems(items)) : item.id \in ids /\ parsed(item.tag) # NoValue}
        others == reserved \cup {item.tag : item \in ToSet(TaggedItems(items)) \ chosen}
        kept == {tag \in others : parsed(tag) # NoValue}
        groups == {GroupOf(parsed(item.tag)) : item \in chosen}
        newTags(g) == RenumberedGroup(g, {item \in chosen : GroupOf(parsed(item.tag)) = g},
                         {parsed(tag).sequence : tag \in {t \in kept : GroupOf(parsed(t)) = g}}, scheme, startAt)
    IN  [id \in {item.id : item \in chosen} |->
            newTags(CHOOSE g \in groups : id \in DOMAIN newTags(g))[id]]

=============================================================================
