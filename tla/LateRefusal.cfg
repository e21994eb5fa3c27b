SPECIFICATION MCPanelSpec
CONSTANTS
    GridColumns <- MCColumns
    GridRowLists <- MCRowLists
    NoValue = NoValue
    Labels <- MCLabels
    Needles <- MCNeedles
    GridFilters <- MCFilters
    QuickFilters = {{"one"}, {"one", "two"}}
    GridKeys <- MCKeys
    PageRows = 2
    MaxGestures = 3
    PartIds = {1, 2}
    NumberFields = {"cv"}
    FlagFields = {"preferred"}
    RequiredFields = {}
    BulkFields = {"cv"}
    CellTexts = {"blank", "one", "word"}
    Blank = "blank"
    Readings <- MCReadings
    FlagReadings <- MCFlagReadings
    Refusals = {None}
    UsedParts = {1}
    Ranges <- MCRanges
    Gone = Gone
    None = None
    MaxCalls = 2
    ProjectIds = {1, 2, 3}
    FirstProjects = {1, 2}
    SystemIds = {1, 2, 3}
    FirstSystems = {1, 3}
    OwnerOf <- MCOwnerOf
    Users = {u1}
    NoUser = NoUser
    MaxLoads = 3
    MaxRequests = 1
    Tops = {1, 2}
    FirstRows = 2
    FirstLeaves = 1
    MaxPicks <- MCMaxPicks
    MaxPresses = 1
    ImportKeys = {"k1", "k2"}
    ImportSources = {"bolts", "valves", "twice", "header"}
    RowsOf <- MCRowsOf
    CellReadings <- MCCellReadings
    BadCell = BadCell
    KeptCell = KeptCell
    NoSource = NoSource
    NoReport = NoReport
    NoRow = NoRow
    MaxInputs = 2
    MaxImports = 2
    MaxOthers = 1
    SymbolIds = {1, 2}
    FirstSymbols = {1}
    Spots = {1, 2}
    Strokes = {red, NoStroke}
    NoStroke = NoStroke
    MaxShapes = 2
    MaxPorts = 2
    MaxSaves = 1
    ListedIds = {1, 2, 3}
    FirstListed <- MCFirstListed
    ConnectorRefs = {A}
    NoRef = NoRef
    NoDocument = NoDocument
    MaxListEvents = 3
    PanelDrawings = {1, 2}
    SheetsOf <- MCSheetsOf
    FirstStale = {1}
    NoView = NoView
    MaxPanelEvents = 3
CHECK_DEADLOCK FALSE
INVARIANTS ReasonsAreOfDrawing
