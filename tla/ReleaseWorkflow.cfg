SPECIFICATION MCSpec
CONSTANTS
    blank = blank
    withP = withP
    Drawings = {d1}
    Sheets = {s1, s2, s3}
    Documents = {blank, withP}
    EmptyDocument = blank
    Parts = {p1}
    PartsOf <- MCPartsOf
    FindingKeys = {k1}
    Projects = {j1}
    Systems = {y1}
    Requirements = {r1}
    ProjectOf <- MCProjectOf
    RequirementOf <- MCRequirementOf
    Null = Null
    Texts = {t1, t2}
    Absent = Absent
    NoDrawing = NoDrawing
    NoSnapshot = NoSnapshot
    MaxRevisions = 2
SYMMETRY MCSymmetry
INVARIANTS SnapshotIsLive ReleasedRevisionsHaveSnapshots SheetsContiguous FreshIsDerived AssignedPartsExist ReleasedIsClean
PROPERTIES ReleasedRevisionFrozen ImplementsBaselines
