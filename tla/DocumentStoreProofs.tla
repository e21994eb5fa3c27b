------------------------ MODULE DocumentStoreProofs -------------------------
(***************************************************************************)
(* Theorems about DocumentStore: for every document, every set of          *)
(* commands, whatever applying and inverting them does, and every limit.   *)
(***************************************************************************)
EXTENDS DocumentStore, SequenceTheorems, TLAPS

-----------------------------------------------------------------------------
(* What a step does to the counters, the saves and the stacks.             *)

ChangesDocument ==
    /\ version' = version + 1
    /\ UNCHANGED <<savedVersion, saves, stored>>

KeepsDocument == UNCHANGED <<doc, version, savedVersion, saves, stored>>

LEMMA EditStep ==
    ASSUME NEW command, NEW key, Edit(command, key), UNCHANGED <<saves, stored>>
    PROVE  ChangesDocument
  BY DEF Edit, Dispatch, Changed, ChangesDocument

LEMMA CommandStep == Command => ChangesDocument
  BY EditStep DEF Command, AddItem, CopyItem, DeleteItems, UpdateItems, TurnItem, NudgeItems,
         AlignItems, FormatSheet

LEMMA PointerStep == Pointer => ChangesDocument \/ KeepsDocument
<1>1. ASSUME NEW wanted \in -MaxAt..MaxAt, DragTo(wanted)
      PROVE  ChangesDocument
  BY <1>1, EditStep DEF DragTo
<1>2. ASSUME NEW at \in Positions, DragSegmentTo(at)
      PROVE  ChangesDocument
  BY <1>2, EditStep DEF DragSegmentTo
<1>3. ASSUME \/ \E ids \in SUBSET Present \ {{}} : BeginMove(ids)
             \/ \E id \in Present : BeginSegment(id)
             \/ EndDrag
             \/ AbandonDrag
      PROVE  KeepsDocument
  BY <1>3 DEF BeginMove, BeginSegment, EndDrag, AbandonDrag, KeepsDocument, storeVars
<1>4. QED
  BY <1>1, <1>2, <1>3 DEF Pointer

LEMMA HistoryStep == Undo \/ Redo => ChangesDocument
  BY DEF Undo, Redo, Changed, ChangesDocument

LEMMA LockStep == Lock \/ Unlock => KeepsDocument
  BY DEF Lock, Unlock, KeepsDocument, storeVars

-----------------------------------------------------------------------------
(* Dirtiness.                                                              *)

Counted(save) ==
    /\ save.version \in Nat
    /\ save.version <= version
    /\ save.version = version => save.doc = doc

SavedInv ==
    /\ version \in Nat
    /\ savedVersion \in Nat
    /\ savedVersion <= version
    /\ savedVersion = version => doc = stored
    /\ \A save \in saves : Counted(save)

LEMMA SavedInit == Init => SavedInv
  BY DEF Init, SavedInv

LEMMA SavedNext == SavedInv /\ [Next]_vars => SavedInv'
<1> SUFFICES ASSUME SavedInv, [Next]_vars
             PROVE  SavedInv'
  OBVIOUS
<1>1. CASE ChangesDocument
  BY <1>1 DEF ChangesDocument, SavedInv, Counted
<1>2. CASE KeepsDocument
  BY <1>2 DEF KeepsDocument, SavedInv, Counted
<1>3. CASE SendSave
  <2>1. Counted([version |-> version, doc |-> doc])
    BY DEF SavedInv, Counted
  <2>2. UNCHANGED <<doc, version, savedVersion, stored>>
        /\ saves' = saves \cup {[version |-> version, doc |-> doc]}
    BY <1>3 DEF SendSave, storeVars
  <2>3. QED
    BY <2>1, <2>2 DEF SavedInv, Counted
<1>4. ASSUME NEW save \in saves, Answer(save)
      PROVE  SavedInv'
  BY <1>4 DEF Answer, SavedInv, Counted
<1>5. ASSUME NEW save \in saves, Fail(save)
      PROVE  SavedInv'
  BY <1>5 DEF Fail, storeVars, SavedInv, Counted
<1>6. CASE UNCHANGED vars
  BY <1>2, <1>6 DEF vars, KeepsDocument
<1>7. QED
  BY <1>1, <1>2, <1>3, <1>4, <1>5, <1>6, CommandStep, PointerStep, HistoryStep, LockStep
     DEF Next

\* While the page shows the sheet as saved, the document is the one the last counted
\* save sent, or the one loaded: markSaved takes the version captured with the document
\* (DraftingPage.tsx, save), so no edit is counted that was not sent.
THEOREM CleanMeansSaved == Spec => []CleanIsSaved
<1>1. SavedInv => CleanIsSaved
  BY DEF SavedInv, CleanIsSaved, dirty
<1>2. QED
  BY SavedInit, SavedNext, <1>1, PTL DEF Spec

-----------------------------------------------------------------------------
(* Stacks of entries.                                                      *)

IsEntry(e) == e = [forward |-> e.forward, inverse |-> e.inverse, key |-> e.key]

\* Neighbours on a stack: two steps of one drag would be one entry.
Apart(e, f) == e.key # NoKey => e.key # f.key

IsStack(s) ==
    /\ \E S : s \in Seq(S)
    /\ \A i \in 1..Len(s) : IsEntry(s[i])
    /\ \A i \in 1..(Len(s) - 1) : Apart(s[i], s[i + 1])

LEMMA StackLength ==
    ASSUME NEW s, IsStack(s)
    PROVE  /\ Len(s) \in Nat
           /\ s # << >> => Len(s) \in Nat \ {0} /\ IsEntry(Top(s))
  BY EmptySeq, LenProperties DEF IsStack, Top

LEMMA EmptyStack == IsStack(<< >>)
<1>1. << >> \in Seq({}) /\ Len(<< >>) = 0
  BY EmptySeq
<1>2. QED
  BY <1>1 DEF IsStack

LEMMA Push ==
    ASSUME NEW s, IsStack(s), NEW e, IsEntry(e), s # << >> => Apart(Top(s), e)
    PROVE  /\ IsStack(Append(s, e))
           /\ Len(Append(s, e)) = Len(s) + 1
           /\ Append(s, e) # << >>
           /\ Top(Append(s, e)) = e
<1>1. PICK S : s \in Seq(S)
  BY DEF IsStack
<1> DEFINE T == S \cup {e}
           t == Append(s, e)
<1>2. s \in Seq(T) /\ Len(s) \in Nat
  BY <1>1, SeqMonotonic, LenProperties
<1>3. /\ t \in Seq(T)
      /\ Len(t) = Len(s) + 1
      /\ \A i \in 1..Len(s) : t[i] = s[i]
      /\ t[Len(s) + 1] = e
  BY <1>2, e \in T
<1>4. t # << >>
  BY <1>2, <1>3, EmptySeq
<1>5. \A i \in 1..Len(t) : IsEntry(t[i])
  BY <1>2, <1>3 DEF IsStack
<1>6. ASSUME NEW i \in 1..(Len(t) - 1)
      PROVE  Apart(t[i], t[i + 1])
  <2>1. CASE i = Len(s)
    <3>1. s # << >>
      BY <1>2, <1>3, <2>1, EmptySeq
    <3>2. QED
      BY <1>2, <1>3, <2>1, <3>1 DEF Top
  <2>2. CASE i # Len(s)
    BY <1>2, <1>3, <2>2 DEF IsStack
  <2>3. QED
    BY <2>1, <2>2
<1>7. QED
  BY <1>2, <1>3, <1>4, <1>5, <1>6 DEF IsStack, Top

LEMMA Pop ==
    ASSUME NEW s, IsStack(s), s # << >>
    PROVE  /\ IsStack(Front(s))
           /\ Len(Front(s)) = Len(s) - 1
           /\ Front(s) # << >> => Apart(Top(Front(s)), Top(s))
<1>1. PICK S : s \in Seq(S)
  BY DEF IsStack
<1>2. Len(s) \in Nat \ {0} /\ \A i \in 1..Len(s) : s[i] \in S
  BY <1>1, StackLength, ElementOfSeq
<1> DEFINE t == Front(s)
<1>3. /\ t \in Seq(S)
      /\ Len(t) = Len(s) - 1
      /\ \A i \in 1..Len(t) : t[i] = s[i]
  <2> DEFINE n == Len(s) - 1
  <2>1. 1 \in Int /\ n \in Nat /\ \A i \in 1..n : s[i] \in S
    BY <1>2
  <2>2. t = SubSeq(s, 1, n)
    BY DEF Front
  <2> HIDE DEF n, t
  <2>3. /\ t \in Seq(S)
        /\ Len(t) = IF 1 <= n THEN n - 1 + 1 ELSE 0
        /\ \A i \in 1..(n - 1 + 1) : t[i] = s[1 + i - 1]
    BY <2>1, <2>2, n \in Int, SubSeqProperties
  <2>4. Len(t) = n
    BY <2>1, <2>3
  <2>5. \A i \in 1..n : t[i] = s[i]
    <3>1. \A i \in 1..n : 1 + i - 1 = i
      BY <2>1
    <3>2. n - 1 + 1 = n
      BY <2>1
    <3>3. QED
      BY <2>3, <3>1, <3>2
  <2>6. QED
    BY <2>3, <2>4, <2>5 DEF n
<1>4. /\ \A i \in 1..Len(t) : IsEntry(t[i])
      /\ \A i \in 1..(Len(t) - 1) : Apart(t[i], t[i + 1])
  BY <1>2, <1>3 DEF IsStack
<1>5. ASSUME t # << >>
      PROVE  Apart(t[Len(t)], s[Len(s)])
  <2>1. Len(t) \in 1..(Len(s) - 1) /\ Len(t) + 1 = Len(s)
    BY <1>2, <1>3, <1>5, EmptySeq
  <2>2. QED
    BY <1>3, <2>1 DEF IsStack
<1>6. QED
  BY <1>3, <1>4, <1>5 DEF IsStack, Top

LEMMA DropOldest ==
    ASSUME NEW s, IsStack(s), s # << >>
    PROVE  /\ IsStack(Tail(s))
           /\ Len(Tail(s)) = Len(s) - 1
           /\ Tail(s) # << >> => Top(Tail(s)) = Top(s)
<1>1. PICK S : s \in Seq(S)
  BY DEF IsStack
<1>2. Len(s) \in Nat \ {0}
  BY StackLength
<1> DEFINE t == Tail(s)
<1>3. /\ t \in Seq(S)
      /\ Len(t) = Len(s) - 1
      /\ \A i \in 1..Len(t) : t[i] = s[i + 1]
  BY <1>1, HeadTailProperties
<1>4. /\ \A i \in 1..Len(t) : IsEntry(t[i])
      /\ \A i \in 1..(Len(t) - 1) : Apart(t[i], t[i + 1])
  BY <1>2, <1>3 DEF IsStack
<1>5. t # << >> => t[Len(t)] = s[Len(s)]
  BY <1>2, <1>3, EmptySeq
<1>6. QED
  BY <1>3, <1>4, <1>5 DEF IsStack, Top

LEMMA ReplaceTop ==
    ASSUME NEW s, IsStack(s), s # << >>, NEW e, IsEntry(e), e.key \in {NoKey, Top(s).key}
    PROVE  /\ IsStack([s EXCEPT ![Len(s)] = e])
           /\ Len([s EXCEPT ![Len(s)] = e]) = Len(s)
           /\ [s EXCEPT ![Len(s)] = e] # << >>
           /\ Top([s EXCEPT ![Len(s)] = e]) = e
<1>1. PICK S : s \in Seq(S)
  BY DEF IsStack
<1>2. Len(s) \in Nat \ {0}
  BY StackLength
<1> DEFINE T == S \cup {e}
           t == [s EXCEPT ![Len(s)] = e]
<1>3. s \in Seq(T)
  BY <1>1, SeqMonotonic
<1>4. /\ t \in Seq(T)
      /\ Len(t) = Len(s)
      /\ \A i \in 1..Len(s) : t[i] = IF i = Len(s) THEN e ELSE s[i]
  BY <1>2, <1>3, e \in T, Len(s) \in 1..Len(s), ExceptSeq
<1> HIDE DEF t
<1>5. \A i \in 1..Len(t) : IsEntry(t[i])
  BY <1>4 DEF IsStack
<1>6. ASSUME NEW i \in 1..(Len(t) - 1)
      PROVE  Apart(t[i], t[i + 1])
  <2>1. Apart(s[i], s[i + 1]) /\ t[i] = s[i]
    BY <1>2, <1>4 DEF IsStack
  <2>2. CASE i + 1 = Len(s)
    BY <1>2, <1>4, <2>1, <2>2 DEF Apart, Top
  <2>3. CASE i + 1 # Len(s)
    BY <1>2, <1>4, <2>1, <2>3
  <2>4. QED
    BY <2>2, <2>3
<1>7. t # << >> /\ t[Len(t)] = e
  BY <1>2, <1>4, EmptySeq
<1>8. IsStack(t) /\ Len(t) = Len(s) /\ t # << >> /\ Top(t) = e
  BY <1>4, <1>5, <1>6, <1>7 DEF IsStack, Top
<1>9. QED
  BY <1>8 DEF t

-----------------------------------------------------------------------------
(* The history.                                                            *)

StackInv ==
    /\ IsStack(undoStack)
    /\ IsStack(redoStack)
    /\ HistoryBounded
    /\ undoStack # << >> /\ redoStack # << >> => Apart(Top(undoStack), Top(redoStack))

KeepsStacks == UNCHANGED <<undoStack, redoStack>>

LEMMA StackInit == Init => StackInv
  BY EmptyStack, EmptySeq, EditorAssumption DEF Init, StackInv, HistoryBounded

LEMMA DispatchStacks ==
    ASSUME StackInv, NEW command, NEW key, Dispatch(command, key)
    PROVE  StackInv'
<1>1. Len(undoStack) \in Nat /\ Len(redoStack) \in Nat /\ Len(undoStack) + Len(redoStack) <= HistoryLimit
  BY StackLength DEF StackInv, HistoryBounded
<1>2. redoStack' = << >>
  BY DEF Dispatch
<1>3. CASE Coalesces(key)
  <2> DEFINE e == [forward |-> Top(undoStack).forward \o command,
                   inverse |-> Invert(doc, command) \o Top(undoStack).inverse,
                   key |-> Top(undoStack).key]
  <2>1. undoStack # << >> /\ IsStack(undoStack) /\ IsEntry(Top(undoStack))
    BY <1>3, StackLength DEF Coalesces, StackInv
  <2>2. undoStack' = [undoStack EXCEPT ![Len(undoStack)] = e]
    BY <1>3, <2>1 DEF Dispatch, Folded, IsEntry, Top
  <2>3. IsEntry(e) /\ e.key = Top(undoStack).key
    BY DEF IsEntry
  <2> HIDE DEF e
  <2>4. IsStack(undoStack') /\ Len(undoStack') = Len(undoStack)
    BY <2>1, <2>2, <2>3, ReplaceTop
  <2>5. QED
    BY <1>1, <1>2, <2>4, EmptyStack, EmptySeq, EditorAssumption DEF StackInv, HistoryBounded
<1>4. CASE ~Coalesces(key)
  <2> DEFINE e == [forward |-> command, inverse |-> Invert(doc, command), key |-> key]
  <2>1. IsEntry(e) /\ e.key = key
    BY DEF IsEntry
  <2>2. undoStack' = Pushed(e)
    BY <1>4 DEF Dispatch
  <2> HIDE DEF e
  <2>3. undoStack # << >> => Apart(Top(undoStack), e)
    BY <1>4, <2>1 DEF Coalesces, Apart
  <2>4. CASE Len(undoStack) = HistoryLimit
    <3>1. undoStack # << >>
      BY <2>4, EmptySeq, EditorAssumption
    <3>2. /\ IsStack(Tail(undoStack))
          /\ Len(Tail(undoStack)) = Len(undoStack) - 1
          /\ Tail(undoStack) # << >> => Apart(Top(Tail(undoStack)), e)
      BY <2>3, <3>1, DropOldest DEF StackInv
    <3>3. /\ IsStack(Append(Tail(undoStack), e))
          /\ Len(Append(Tail(undoStack), e)) = Len(Tail(undoStack)) + 1
      BY <2>1, <3>2, Push
    <3>4. undoStack' = Append(Tail(undoStack), e)
      BY <2>2, <2>4 DEF Pushed
    <3>5. IsStack(undoStack') /\ Len(undoStack') = Len(undoStack)
      BY <1>1, <3>2, <3>3, <3>4
    <3>6. QED
      BY <1>1, <1>2, <3>5, EmptyStack, EmptySeq, EditorAssumption DEF StackInv, HistoryBounded
  <2>5. CASE Len(undoStack) # HistoryLimit
    <3>1. IsStack(undoStack') /\ Len(undoStack') = Len(undoStack) + 1
      BY <2>1, <2>2, <2>3, <2>5, Push DEF Pushed, StackInv
    <3>2. QED
      BY <1>1, <1>2, <2>5, <3>1, EmptyStack, EmptySeq, EditorAssumption DEF StackInv, HistoryBounded
  <2>6. QED
    BY <2>4, <2>5
<1>5. QED
  BY <1>3, <1>4

LEMMA EndCoalescingStacks ==
    ASSUME StackInv, EndCoalescing, UNCHANGED redoStack
    PROVE  StackInv'
<1>1. CASE undoStack = << >>
  BY <1>1 DEF EndCoalescing, StackInv, HistoryBounded
<1>2. CASE undoStack # << >>
  <2> DEFINE e == [forward |-> Top(undoStack).forward, inverse |-> Top(undoStack).inverse, key |-> NoKey]
  <2>1. IsStack(undoStack) /\ IsEntry(Top(undoStack))
    BY <1>2, StackLength DEF StackInv
  <2>2. undoStack' = [undoStack EXCEPT ![Len(undoStack)] = e]
    <3>1. [Top(undoStack) EXCEPT !.key = NoKey] = e
      BY <2>1 DEF IsEntry
    <3>2. undoStack' = [undoStack EXCEPT ![Len(undoStack)] = [Top(undoStack) EXCEPT !.key = NoKey]]
      BY <1>2 DEF EndCoalescing, Top
    <3>3. QED
      BY <3>1, <3>2
  <2>3. IsEntry(e) /\ e.key = NoKey
    BY DEF IsEntry
  <2> HIDE DEF e
  <2>4. IsStack(undoStack') /\ Len(undoStack') = Len(undoStack) /\ Top(undoStack') = e
    BY <1>2, <2>1, <2>2, <2>3, ReplaceTop
  <2>5. QED
    BY <2>3, <2>4 DEF StackInv, HistoryBounded, Apart
<1>3. QED
  BY <1>1, <1>2

LEMMA UndoStacks ==
    ASSUME StackInv, Undo
    PROVE  StackInv'
<1>1. /\ undoStack # << >>
      /\ undoStack' = Front(undoStack)
      /\ redoStack' = Append(redoStack, Top(undoStack))
  BY DEF Undo
<1>2. IsEntry(Top(undoStack)) /\ Len(undoStack) \in Nat /\ Len(redoStack) \in Nat
  BY <1>1, StackLength DEF StackInv
<1>3. /\ IsStack(undoStack')
      /\ Len(undoStack') = Len(undoStack) - 1
      /\ undoStack' # << >> => Apart(Top(undoStack'), Top(undoStack))
  BY <1>1, Pop DEF StackInv
<1>4. redoStack # << >> => Apart(Top(redoStack), Top(undoStack))
  BY <1>1 DEF StackInv, Apart
<1>5. /\ IsStack(redoStack')
      /\ Len(redoStack') = Len(redoStack) + 1
      /\ Top(redoStack') = Top(undoStack)
  BY <1>1, <1>2, <1>4, Push DEF StackInv
<1>6. QED
  BY <1>2, <1>3, <1>5, EditorAssumption DEF StackInv, HistoryBounded

LEMMA RedoStacks ==
    ASSUME StackInv, Redo
    PROVE  StackInv'
<1> DEFINE old == Top(redoStack)
           e == [forward |-> old.forward, inverse |-> Invert(doc, old.forward), key |-> old.key]
<1>1. redoStack # << >> /\ redoStack' = Front(redoStack) /\ IsEntry(old)
  BY StackLength DEF Redo, StackInv
<1>2. undoStack' = Append(undoStack, e)
  BY <1>1 DEF Redo, IsEntry
<1>3. IsEntry(e) /\ e.key = old.key
  BY DEF IsEntry
<1> HIDE DEF e
<1>4. /\ IsStack(redoStack')
      /\ Len(redoStack') = Len(redoStack) - 1
      /\ redoStack' # << >> => Apart(Top(redoStack'), old)
  BY <1>1, Pop DEF StackInv
<1>5. undoStack # << >> => Apart(Top(undoStack), e)
  BY <1>1, <1>3 DEF StackInv, Apart
<1>6. /\ IsStack(undoStack')
      /\ Len(undoStack') = Len(undoStack) + 1
      /\ Top(undoStack') = e
  BY <1>2, <1>3, <1>5, Push DEF StackInv
<1>7. redoStack' # << >> => Apart(e, Top(redoStack'))
  BY <1>3, <1>4 DEF Apart
<1>8. Len(undoStack) \in Nat /\ Len(redoStack) \in Nat
  BY StackLength DEF StackInv
<1>9. QED
  BY <1>4, <1>6, <1>7, <1>8, EditorAssumption DEF StackInv, HistoryBounded

LEMMA EditStacks ==
    ASSUME StackInv, Command \/ Pointer
    PROVE  StackInv' \/ KeepsStacks
<1>1. ASSUME NEW command, NEW key, Edit(command, key)
      PROVE  StackInv'
  BY <1>1, DispatchStacks DEF Edit
<1>2. CASE Command
  BY <1>1, <1>2
     DEF Command, AddItem, CopyItem, DeleteItems, UpdateItems, TurnItem, NudgeItems,
         AlignItems, FormatSheet
<1>3. ASSUME NEW wanted \in -MaxAt..MaxAt, DragTo(wanted)
      PROVE  StackInv'
  BY <1>1, <1>3 DEF DragTo
<1>4. ASSUME NEW at \in Positions, DragSegmentTo(at)
      PROVE  StackInv'
  BY <1>1, <1>4 DEF DragSegmentTo
<1>5. CASE EndDrag
  BY <1>5, EndCoalescingStacks DEF EndDrag
<1>6. ASSUME \/ \E ids \in SUBSET Present \ {{}} : BeginMove(ids)
             \/ \E id \in Present : BeginSegment(id)
             \/ AbandonDrag
      PROVE  KeepsStacks
  BY <1>6 DEF BeginMove, BeginSegment, AbandonDrag, KeepsStacks, storeVars
<1>7. QED
  BY <1>2, <1>3, <1>4, <1>5, <1>6 DEF Pointer

LEMMA StackNext == StackInv /\ [Next]_vars => StackInv'
<1> SUFFICES ASSUME StackInv, [Next]_vars
             PROVE  StackInv'
  OBVIOUS
<1>1. CASE KeepsStacks
  BY <1>1 DEF KeepsStacks, StackInv, HistoryBounded
<1>2. CASE Lock
  <2>1. CASE drag = NoDrag
    BY <1>1, <1>2, <2>1 DEF Lock, KeepsStacks
  <2>2. CASE drag # NoDrag
    BY <1>2, <2>2, EndCoalescingStacks DEF Lock
  <2>3. QED
    BY <2>1, <2>2
<1>3. ASSUME Unlock \/ SendSave \/ \E save \in saves : Answer(save) \/ Fail(save)
      PROVE  KeepsStacks
  BY <1>3 DEF Unlock, SendSave, Answer, Fail, KeepsStacks, storeVars
<1>4. CASE UNCHANGED vars
  BY <1>1, <1>4 DEF vars, KeepsStacks
<1>5. QED
  BY <1>1, <1>2, <1>3, <1>4, EditStacks, UndoStacks, RedoStacks DEF Next

\* The limit on the history holds for both stacks together, although redo never looks at
\* it, and a drag is one undo step as long as nothing else is edited in the middle of it.
THEOREM HistoryIsSound == Spec => [](HistoryBounded /\ NoSplitDrag)
<1>1. StackInv => HistoryBounded /\ NoSplitDrag
  BY DEF StackInv, IsStack, Apart, NoSplitDrag
<1>2. QED
  BY StackInit, StackNext, <1>1, PTL DEF Spec

=============================================================================
