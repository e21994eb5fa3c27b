SPECIFICATION FairSpec
CONSTANTS
    A = A
    B = B
    Drawings = {A, B}
    Sheets = {1, 2, 3}
    DrawingOf <- MCDrawingOf
    Existing = {1, 3}
    Edits = {1, 2}
    NoSession = NoSession
    NoLoad = NoLoad
    NoRun = NoRun
    NoView = NoView
    MaxJobs = 2
    MaxEvents = 2
INVARIANTS EditsStayOnTheirSheet ReindexYieldsToSaves SavedMeansStored
PROPERTIES StaleIsTried
CHECK_DEADLOCK FALSE
