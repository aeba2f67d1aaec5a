CONSTANTS
    MaxSeq = 10
    MinFold = 2
    MinTail = 2
    Bad = Bad
    MaxRows = 5
    MaxTears = 2
    OldRows = 2
    MaxLog = 7
    MaxTurnId = 3
    MaxRestarts = 2
    StreamCap = 3
    SpillAt = 5
    HeadKeep = 2
    TailKeep = 1
    SummariseAt = 1
    PageCap = 4
    FileCap = 8
    FetchCap = 6
    GrepRows = 2
    GrepKeep = 2
    SkillTimeout = 2
    CliTimeout = 1
    Prints <- MCPrints
    Leads <- MCLeads
    ArgLists <- MCArgLists
    Members = {1, 2}
    LabelOf <- MCLabelOf
    PhaseOf <- MCPhaseOf
    TurnCap = 3
    Rooms <- MCRooms
    TaskCap = 2
SPECIFICATION Spec
INVARIANTS SurfaceSound StoreSound VerdictSound ToolTextSound ProjectionsSound
PROPERTIES SummaryOfVisible SpliceInLogOrder
CHECK_DEADLOCK FALSE
