CONSTANTS
    Tabs = {1, 2}
    GoalTabs = {1}
    PromptBound = 2
    TabBound = 2
    HopBound = 1
    Books = {1, 2}
    PageSize = 1
    LineBound = 2
    AskPages = 3
    MoveBound = 2
    Folders = {"p", "q"}
    Restored <- MCRestored
    ClickBound = 2
    BootBound = 1
    MountBound = 1
    Words = {"w1"}
    Images = {"i1"}
    Cards = {"c1"}
    Marks = {"@", "goal", "@zz"}
    Options = {"o1"}
    StepBound = 6
    DraftBound = 2
    PromptCount = 2
    CompactAt = 2
    Retries = 1
    Backoff = 1
    SlowTool = 2
    Hold = 3
    TurnTimeout = 4
    ToolBound = 1
    LiveReplies <- MCLiveReplies
    OverrideFiles <- MCOverrideFiles
    Pads = {0, 2}
    Suites <- MCSuites
    Replies <- MCReplies
    MaxCases = 3
    MaxRepeats = 2
    MaxCalls = 3
    SummaryCap = 5
    RunBound = 2
SPECIFICATION Spec
INVARIANTS ViewsSound ComposerSound ReplaySound EvaluationSound
CHECK_DEADLOCK FALSE
