--------------------------- MODULE MCDraftingPage ---------------------------
(* Small instances of DraftingPage: sheets 1 and 2 are of one drawing,     *)
(* sheet 3 is of another.                                                  *)
EXTENDS DraftingPage

CONSTANTS A, B

MCDrawingOf == [s \in Sheets |-> IF s = 3 THEN B ELSE A]

=============================================================================
