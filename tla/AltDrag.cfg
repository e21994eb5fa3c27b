SPECIFICATION Spec
CONSTANTS
    valve = valve
    pipe = pipe
    label = label
    plain = plain
    marked = marked
    a3 = a3
    a4 = a4
    Precision = 1
    Ids = {pipe}
    KindOf <- MCKindOf
    Tags = {plain}
    SheetFormats = {a3}
    InitialDoc <- MCInitialLine
    HistoryLimit = 2
    NoKey = NoKey
    NoDrag = NoDrag
    MaxAt = 4
    MaxStep = 0
    MaxVersion = 3
    MaxSaves = 0
PROPERTIES ImplementsHistory
