CONSTANTS
    CallIds = {1, 2}
    Modes = {"workspace"}
    MaxDepth = 2
    EditBound = 2
    JobIds = {"j1", "j2"}
    MaxJobs = 1
    OutputCap = 1
    ReadHead = 1
    ReadTail = 1
    ByteBound = 2
    Mates = {1, 2}
    MaxHops = 1
    MaxRounds = 2
    AgentCap = 2
    HookFile <- MCHookFile
    Tools = {"t1"}
    HookTimeout = 1
    EventBound = 2
    Contents <- MCContents
    EditLimit = 1
    StartLimit = 1
    McpFiles <- MCMcpFiles
    ToolLists <- MCToolLists
    ConnectTimeout = 2
    CallTimeLimit = 2
    McpCallBound = 2
SPECIFICATION Spec
INVARIANTS CallsSound JobsSound DelegationSound ExtensionsSound
CHECK_DEADLOCK FALSE
