SPECIFICATION MCSpec
CONSTANTS
    blank = blank
    withP = withP
    Drawings = {d1}
    Sheets = {s1, s2}
    Documents = {blank}
    EmptyDocument = blank
    Parts = {p1}
    PartsOf <- MCPartsOf
    FindingKeys = {k1}
    Projects = {j1}
    Systems = {}
    Requirements = {r1}
    ProjectOf <- MCProjectOf
    RequirementOf <- MCRequirementOf
    Null = Null
    Texts = {t1}
    Absent = Absent
    NoDrawing = NoDrawing
    NoSnapshot = NoSnapshot
    MaxRevisions = 2
    Workers = {w1, w2}
    Idle = Idle
    MaxSheetNo = 2
SYMMETRY MCSymmetry
PROPERTIES LoneRequestsAreSerial BaselineStays
