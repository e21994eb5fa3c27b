---------------------------- MODULE EditHistory -----------------------------
(***************************************************************************)
(* What the history of an editor promises: it remembers whole documents.   *)
(* Undo brings back the document before the last edit, redo the document   *)
(* an undo left, and a new edit forgets what was undone.  The steps of one *)
(* group (a drag) count as one edit.  At most Limit edits are remembered.  *)
(***************************************************************************)
EXTENDS Integers, Sequences

CONSTANTS Documents, Limit

VARIABLES
    past,    \* documents undo goes back to, the latest last
    now,     \* the document
    future,  \* documents redo goes to, the next one last
    open     \* does the last edit belong to a group still open

vars == <<past, now, future, open>>

Init ==
    /\ past = << >>
    /\ now \in Documents
    /\ future = << >>
    /\ open = FALSE

Remembered(docs) == IF Len(docs) > Limit THEN Tail(docs) ELSE docs

Edit ==
    /\ past' = Remembered(Append(past, now))
    /\ now' \in Documents
    /\ future' = << >>
    /\ open' \in BOOLEAN

\* One more step of the open group: the document before the group is kept.
Extend ==
    /\ open
    /\ past' = past
    /\ now' \in Documents
    /\ future' = << >>
    /\ open' = TRUE

Close ==
    /\ open' = FALSE
    /\ UNCHANGED <<past, now, future>>

Undo ==
    /\ past # << >>
    /\ now' = past[Len(past)]
    /\ past' = SubSeq(past, 1, Len(past) - 1)
    /\ future' = Append(future, now)
    /\ open' \in BOOLEAN

\* Undo and redo may reach a step of the group that is still open: it goes on.
Redo ==
    /\ future # << >>
    /\ now' = future[Len(future)]
    /\ future' = SubSeq(future, 1, Len(future) - 1)
    /\ past' = Append(past, now)
    /\ open' \in BOOLEAN

Next == Edit \/ Extend \/ Close \/ Undo \/ Redo

Spec == Init /\ [][Next]_vars

=============================================================================
