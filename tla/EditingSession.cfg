SPECIFICATION Spec
CONSTANTS
    valve = valve
    pipe = pipe
    label = label
    plain = plain
    marked = marked
    a3 = a3
    a4 = a4
    Precision = 100
    Ids = {valve, pipe}
    KindOf <- MCKindOf
    Tags = {plain}
    SheetFormats = {a3, a4}
    InitialDoc <- MCInitialDoc
    HistoryLimit = 2
    NoKey = NoKey
    NoDrag = NoDrag
    MaxAt = 1
    MaxStep = 1
    MaxVersion = 3
    MaxSaves = 2
INVARIANTS HistoryBounded NoSplitDrag CleanIsSaved
PROPERTIES ImplementsHistory
