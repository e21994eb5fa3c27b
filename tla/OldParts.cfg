SPECIFICATION Spec
CONSTANTS
    A = A
    B = B
    Drawings = {A, B}
    Sheets = {1, 2, 3}
    DrawingOf <- MCDrawingOf
    Existing = {1, 3}
    Edits = {1}
    NoSession = NoSession
    NoLoad = NoLoad
    NoRun = NoRun
    NoView = NoView
    MaxJobs = 2
    MaxEvents = 2
CHECK_DEADLOCK FALSE
INVARIANTS FreshIsCurrent
