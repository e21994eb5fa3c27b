SPECIFICATION MCSpec
CONSTANTS
    blank = blank
    withP = withP
    Drawings = {d1}
    Sheets = {s1}
    Documents = {blank}
    EmptyDocument = blank
    Parts = {}
    PartsOf <- MCPartsOf
    FindingKeys = {}
    Projects = {j1}
    Systems = {y1}
    Requirements = {}
    ProjectOf <- MCProjectOf
    RequirementOf <- MCRequirementOf
    Null = Null
    Texts = {t1}
    Absent = Absent
    NoDrawing = NoDrawing
    NoSnapshot = NoSnapshot
    MaxRevisions = 2
INVARIANTS LockedRowsAreFiled
