SPECIFICATION MCSpec
CONSTANTS
    blank = blank
    withP = withP
    Drawings = {d1}
    Sheets = {s1}
    Documents = {blank}
    EmptyDocument = blank
    Parts = {}
    PartsOf <- MCPartsOf
    FindingKeys = {}
    Projects = {j1}
    Systems = {}
    Requirements = {}
    ProjectOf <- MCProjectOf
    RequirementOf <- MCRequirementOf
    Null = Null
    Texts = {t1}
    Absent = Absent
    NoDrawing = NoDrawing
    NoSnapshot = NoSnapshot
    MaxRevisions = 2
    Workers = {w1, w2}
    Idle = Idle
    MaxSheetNo = 3
PROPERTIES ReleasedRevisionFrozen
