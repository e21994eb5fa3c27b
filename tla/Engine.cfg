SPECIFICATION MCSpec
CONSTANTS
    NoTag = NoTag
    NoValue = NoValue
    NoPrefix = NoPrefix
    Radix = 3
    ItemIds = {1, 2, 3, 4, 5}
    RawSchemes <- MCRawSchemes
    SheetItems <- MCSheetItems
    TagPrefixes = {"HV"}
    Parts = {"p1", "old"}
    Obsolete = {"old"}
    LineClasses = {"H2"}
    SpecOf <- MCSpecOf
    InsulationOf <- MCInsulationOf
    Batches <- MCBatches
    TypedTags <- MCTypedTags
    MaxRank = 4
    Tolerance = 1
    Grid = 10
    CellSize = 10
    PartIds = {1, 2}
    EquipmentIds = {2}
    PortDefs <- MCPortDefs
    SizeOf <- MCSizeOf
    InitialParts <- MCParts
    InitialWires <- MCWires
    SnapRadius = 4
    Deltas <- MCDeltas
    MaxCoordinate = 60
    MaxEdits = 2
    Clicks <- MCClicks
    NewWire = 15
    Selections <- MCSelections
    ShelfSize = 20
    LockedIds = {13}
    LabelHeight = 20
    Probes <- MCProbes
    RuleSheets <- MCRuleSheets
    RuleScheme <- MCScheme
    ReservedTags = {}
    OtherConnectors <- MCConnectors
    Catalog <- MCCatalog
    Requirements <- MCRequirements
    LineUpdates <- MCLineUpdates
    Touches <- MCTouches
    MaxRuleEdits = 1
    SheetIds = {2, 3, 4}
    SheetLines = {2, 4}
    FirstIds = {2}
    MaxChanges = 3
CHECK_DEADLOCK FALSE
INVARIANTS SwapsAreAccepted NetsAreComponents CrossingsMatchScan PickingMatchesScan ReliefIsReachability WaiverCoversOne IndexRowsAgree ViewsFollowDocument GesturesFitTool
PROPERTIES TagsStayDistinct EndsFollowPorts
