----------------------------- MODULE FieldEdits -----------------------------
(***************************************************************************)
(* Field edits (fieldEdits.ts) and the other operations that write tags     *)
(* (editor.ts, the inspector of the page), on the two sheets of a drawing.  *)
(* A batch of edits sets fields of items of one sheet: each edit is         *)
(* accepted or refused by its own value, then the tags are settled against  *)
(* the rest of the sheet, the batch itself and the other sheet, and what is *)
(* accepted is written in one command.                                      *)
(*                                                                         *)
(* Two operations write tags that nothing has settled: a duplicate of an    *)
(* equipment boundary keeps its tag, and the inspector takes what is typed. *)
(* Removing items only takes tags away and is left out.                     *)
(*                                                                         *)
(* Of the fields, "notes" stands for those kept in the free-form record and *)
(* "service" for the plain line fields.  The other sheet's tags are read    *)
(* when a batch is planned; DraftingPage models the waiting in between.     *)
(***************************************************************************)
EXTENDS TagRules

CONSTANTS
    ItemIds,
    RawSchemes,    \* the tag scheme as the project stores it
    SheetItems,    \* SheetItems[sheet]: the items to begin with
    TagPrefixes,      \* the tag prefixes symbol definitions suggest
    NoPrefix,      \* a definition that suggests none
    Parts, Obsolete, LineClasses,
    SpecOf, InsulationOf,  \* what a line class says of each, "" if nothing
    Batches,       \* the batches of edits a user may make
    TypedTags,     \* what is typed as a tag in the inspector
    MaxRank        \* bound: items on a sheet

SheetNames == 1..2

ItemFields == {"tag", "name", "partId", "dnp", "spare", "notes"}
LineFields == {"lineClass", "service", "spec", "insulation"}

\* Values of fields; "" is blank.
Truths == {"true", "yes", "x"}
Wholes == {"0", "1", "2"}

VARIABLES
    tagScheme,
    tagSheets   \* tagSheets[s]: the items of sheet s

tagVars == <<tagScheme, tagSheets>>

NoContext == [system |-> NoValue, cls |-> NoValue]

ReservedFor(s) == TagsOf(tagSheets[3 - s])

TagInit ==
    /\ \E raw \in RawSchemes : tagScheme = NormalizeScheme(raw)
    /\ tagSheets = SheetItems

IdsOn(items) == {items[i].id : i \in DOMAIN items}

ItemWith(items, id) == CHOOSE item \in ToSet(items) : item.id = id

-----------------------------------------------------------------------------
(* One edit.                                                               *)

\* The fields an item of this kind has.
FieldsOf(kind) ==
    IF kind \in TaggedKinds THEN ItemFields ELSE IF kind = "line" THEN LineFields ELSE {}

AcceptsValue(item, field, value) ==
    CASE field = "tag"       -> value = NoTag \/ ValidateTag(value, tagScheme)
      [] field = "name"      -> item.kind = "equipment" => value # ""
      [] field = "partId"    -> value \in {""} \cup (Parts \ Obsolete)
      [] field = "spare"     -> value \in {""} \cup Wholes
      [] field = "lineClass" -> value = "" \/ LineClasses = {} \/ value \in LineClasses
      [] OTHER               -> TRUE

AcceptsEdit(items, edit) ==
    /\ edit.id \in IdsOn(items)
    /\ edit.field \in FieldsOf(ItemWith(items, edit.id).kind)
    /\ AcceptsValue(ItemWith(items, edit.id), edit.field, edit.value)

\* lineClassPatch: the class, and its spec and insulation where it has them.
LineClassPatch(line, values, class) ==
    IF class = "" THEN [values EXCEPT !["lineClass"] = ""]
    ELSE LET implied(table, field) ==
                 IF class \in LineClasses /\ table[class] # "" THEN table[class] ELSE line.values[field]
         IN  [values EXCEPT !["lineClass"] = class, !["spec"] = implied(SpecOf, "spec"),
                            !["insulation"] = implied(InsulationOf, "insulation")]

Written(item, values, edit) ==
    CASE edit.field = "lineClass" -> LineClassPatch(item, values, edit.value)
      [] edit.field = "dnp"       -> [values EXCEPT !["dnp"] = IF edit.value \in Truths THEN "true" ELSE ""]
      [] edit.field = "spare"     -> [values EXCEPT !["spare"] = IF edit.value = "0" THEN "" ELSE edit.value]
      [] OTHER                    -> [values EXCEPT ![edit.field] = edit.value]

\* A line class first: an explicit spec or insulation of the same batch wins.
Ordered(edits) ==
    SelectSeq(edits, LAMBDA e : e.field = "lineClass") \o SelectSeq(edits, LAMBDA e : e.field # "lineClass")

PatchedValues(item, edits) ==
    LET own == SelectSeq(edits, LAMBDA e : e.id = item.id /\ e.field # "tag")
    IN  FoldLeft(LAMBDA values, e : Written(item, values, e), item.values, own)

-----------------------------------------------------------------------------
(* Tags.                                                                   *)

\* The last tag edit of every item, in the order the items were first edited.
LastTagEdits(edits) ==
    LET ids == FoldLeft(LAMBDA seen, e : IF Contains(seen, e.id) THEN seen ELSE Append(seen, e.id), << >>, edits)
    IN  [k \in DOMAIN ids |->
            edits[Max({i \in DOMAIN edits : edits[i].id = ids[k]})]]

\* Fault: an edited item keeps its old tag for itself until the batch is applied.
KeptKeysOfAll(items, edited) == {TagKey(tag) : tag \in TagsOf(items)}

\* The tags that stay: those of the items no accepted edit changes.
KeptKeys(items, edited) ==
    {TagKey(tag) : tag \in TagsOf(SelectSeq(items, LAMBDA item : item.id \notin edited))}

\* One round: the edits whose tag is kept by another item, claimed by an earlier edit or reserved.
RefusedIn(items, tagEdits, reserved) ==
    LET taken == KeptKeys(items, {e.id : e \in ToSet(tagEdits)}) \cup {TagKey(tag) : tag \in reserved}
        round == FoldLeft(LAMBDA acc, e :
                     IF e.value = NoTag THEN acc
                     ELSE IF TagKey(e.value) \in taken \cup acc.claimed
                     THEN [acc EXCEPT !.refused = @ \cup {e.id}]
                     ELSE [acc EXCEPT !.claimed = @ \cup {TagKey(e.value)}],
                     [claimed |-> {}, refused |-> {}], tagEdits)
    IN  round.refused

Rounds(tagEdits) == Len(tagEdits) + 1

\* A refused edit keeps its item's old tag, which an accepted one may repeat: until stable.
SettledTags(items, tagEdits, reserved) ==
    FoldLeft(LAMBDA left, round :
                 LET refused == RefusedIn(items, left, reserved)
                 IN  SelectSeq(left, LAMBDA e : e.id \notin refused),
             tagEdits, [round \in 1..Rounds(tagEdits) |-> round])

\* planFieldEdits: the items after the batch.
Planned(items, edits, reserved) ==
    LET accepted == SelectSeq(Ordered(edits), LAMBDA e : AcceptsEdit(items, e))
        tagEdits == LastTagEdits(SelectSeq(accepted, LAMBDA e : e.field = "tag"))
        settled == ToSet(SettledTags(items, tagEdits, reserved))
        newTag(item) == IF \E e \in settled : e.id = item.id
                        THEN (CHOOSE e \in settled : e.id = item.id).value ELSE item.tag
    IN  [i \in DOMAIN items |->
            [items[i] EXCEPT !.values = PatchedValues(items[i], accepted), !.tag = newTag(items[i])]]

-----------------------------------------------------------------------------
(* Operations.                                                             *)

NewIds == ItemIds \ UNION {IdsOn(tagSheets[s]) : s \in SheetNames}

NextId(used) == CHOOSE id \in NewIds \ used : \A other \in NewIds \ used : id <= other

NextRank(items) == Max({item.rank : item \in ToSet(items)} \cup {0}) + 1

NewItem(items, id, tag) ==
    [id |-> id, kind |-> "symbol", tag |-> tag, rank |-> NextRank(items),
     values |-> [f \in (ItemFields \cup LineFields) \ {"tag"} |-> ""]]

RoomFor(items, n) == Cardinality(NewIds) >= n /\ NextRank(items) + n - 1 <= MaxRank

SuggestTagFor(items, prefix, reserved) ==
    IF prefix = NoPrefix THEN NoTag ELSE NextTag(items, tagScheme, prefix, NoContext, reserved)

\* addSymbolAt, placeClick
PlaceSymbol(s, prefix) ==
    /\ RoomFor(tagSheets[s], 1)
    /\ tagSheets' = [tagSheets EXCEPT ![s] =
           Append(@, NewItem(@, NextId({}), SuggestTagFor(@, prefix, ReservedFor(s))))]
    /\ UNCHANGED tagScheme

\* The tag a pasted copy gets: the next one with its letters and, structured, its digits.
PastedTag(items, tag, reserved) ==
    LET parsed == ParseTag(tag, tagScheme)
        context == IF parsed # NoValue /\ Structured(tagScheme)
                   THEN [system |-> parsed.system, cls |-> parsed.cls] ELSE NoContext
    IN  IF tag = NoTag THEN NoTag ELSE NextTag(items, tagScheme, tag.letters, context, reserved)

\* Copies of symbols, tagged one after the other.
Paste(s, originals) ==
    /\ originals # << >> /\ RoomFor(tagSheets[s], Len(originals))
    /\ LET items == tagSheets[s]
           copies == FoldLeft(LAMBDA added, item : Append(added,
                         [NewItem(items \o added, NextId({a.id : a \in ToSet(added)}),
                                  PastedTag(items \o added, item.tag, ReservedFor(s)))
                            EXCEPT !.kind = item.kind, !.values = item.values]), << >>, originals)
       IN  tagSheets' = [tagSheets EXCEPT ![s] = @ \o copies]
    /\ UNCHANGED tagScheme

\* renumberSelection: the page always starts at 1.
RenumberSelection(s, ids) ==
    LET items == tagSheets[s]
        new == Renumbered(items, tagScheme, ids, 1, ReservedFor(s))
        tagOf(item) == IF item.id \in DOMAIN new THEN new[item.id] ELSE item.tag
    IN  /\ ids # {}
        /\ tagSheets' = [tagSheets EXCEPT ![s] =
               [i \in DOMAIN items |-> [items[i] EXCEPT !.tag = tagOf(items[i])]]]
        /\ UNCHANGED tagScheme

EditFields(s, edits) ==
    /\ tagSheets' = [tagSheets EXCEPT ![s] = Planned(@, edits, ReservedFor(s))]
    /\ UNCHANGED tagScheme

\* Copies on the same sheet: a symbol loses its tag, an equipment boundary keeps it.
DuplicateItems(s, ids) ==
    LET items == tagSheets[s]
        originals == SelectSeq(items, LAMBDA item : item.id \in ids)
        copies == FoldLeft(LAMBDA added, item : Append(added,
                      [NewItem(items \o added, NextId({a.id : a \in ToSet(added)}),
                               IF item.kind = "symbol" THEN NoTag ELSE item.tag)
                         EXCEPT !.kind = item.kind, !.values = item.values]), << >>, originals)
    IN  /\ originals # << >> /\ RoomFor(items, Len(originals))
        /\ tagSheets' = [tagSheets EXCEPT ![s] = @ \o copies]
        /\ UNCHANGED tagScheme

\* The inspector updates the item with any text; that it is no valid tag is only shown.
TypeTag(s, i, tag) ==
    /\ tagSheets[s][i].kind \in TaggedKinds
    /\ tagSheets' = [tagSheets EXCEPT ![s][i].tag = tag]
    /\ UNCHANGED tagScheme

\* The operations that look at the tags there are.
SettlesTags ==
    \E s \in SheetNames :
      \/ \E prefix \in TagPrefixes : PlaceSymbol(s, prefix)
      \/ \E i, j \in DOMAIN tagSheets[s] : i <= j /\ Paste(s, SubSeq(tagSheets[s], i, j))
      \/ \E ids \in SUBSET IdsOn(TaggedItems(tagSheets[s])) : RenumberSelection(s, ids)
      \/ \E edits \in Batches : EditFields(s, edits)

TagNext ==
    \/ SettlesTags
    \/ \E s \in SheetNames :
         \/ \E ids \in SUBSET IdsOn(tagSheets[s]) : DuplicateItems(s, ids)
         \/ \E i \in DOMAIN tagSheets[s], tag \in TypedTags : TypeTag(s, i, tag)

TagSpec == TagInit /\ [][TagNext]_tagVars

-----------------------------------------------------------------------------
(* Properties.                                                             *)

Tagged(s) == ToSet(TaggedItems(tagSheets[s]))

AllTagged == Tagged(1) \cup Tagged(2)

\* The pairs of items of the drawing whose tags differ in nothing but separator and case.
Repeats ==
    {{a.id, b.id} : <<a, b>> \in {p \in AllTagged \X AllTagged :
        p[1].id # p[2].id /\ TagKey(p[1].tag) = TagKey(p[2].tag)}}

AllParse == \A item \in AllTagged : ParseTag(item.tag, tagScheme) # NoValue

\* Placing, pasting, renumbering and field edits give no item a tag another one has, also
\* where duplicates and typing have left repeats and gaps, where a batch swaps tags, and
\* where a part of it is refused (nextTag, renumberCommand, planFieldEdits).
TagsStayDistinct == [][AllParse => Repeats' \subseteq Repeats \/ ~SettlesTags]_tagVars

AcceptedAlone(s, edits) == \A e \in ToSet(edits) : AcceptsEdit(tagSheets[s], e)

\* A batch that would leave every tag of the drawing distinct is carried out in full: no
\* edit of it is refused for what another edit of the same batch changes.
SwapsAreAccepted ==
    \A s \in SheetNames : \A edits \in {b \in Batches : AcceptedAlone(s, b)} :
      LET wanted == ToSet(LastTagEdits(edits))
          edited == {e.id : e \in wanted}
          tags == {<<item.id, item.tag>> : item \in {i \in AllTagged : i.id \notin edited}}
                  \cup {<<e.id, e.value>> : e \in {w \in wanted : w.value # NoTag}}
          planned == Planned(tagSheets[s], edits, ReservedFor(s))
      IN  (/\ \A e \in ToSet(edits) : e.field = "tag"
           /\ \A p, q \in tags : p[1] # q[1] => TagKey(p[2]) # TagKey(q[2]))
          => \A e \in wanted : ItemWith(planned, e.id).tag = e.value

=============================================================================
