-------------------------- MODULE MCDocumentStore ---------------------------
(* Small instances of DocumentStore: a symbol with a line attached to it,  *)
(* and an id for a symbol to be added.                                     *)
EXTENDS DocumentStore

CONSTANTS valve, pipe, label, plain, marked, a3, a4

MCKindOf == [id \in Ids |-> IF id = pipe THEN "line" ELSE "symbol"]

MCInitialDoc ==
    [items |-> <<[id |-> valve, kind |-> "symbol", at |-> 1, tag |-> plain],
                 [id |-> pipe, kind |-> "line", at |-> 1, tag |-> plain]>>,
     sheet |-> a3]

MCInitialLine == [items |-> <<[id |-> pipe, kind |-> "line", at |-> 1, tag |-> plain]>>, sheet |-> a3]

=============================================================================
