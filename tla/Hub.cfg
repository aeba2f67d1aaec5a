CONSTANTS
    Texts = {"t1"}
    GoalRounds = 2
    BlockAfter = 1
    GoalBound = 1
    RevBound = 4
    RestartBound = 1
    OffBound = 2
    SendBound = 2
    ReloadBound = 1
    Periods = {2}
    TimeBound = 5
    CreateBound = 2
    CrashBound = 1
    Providers = {"a", "b"}
    AttemptBound = 3
    RequestBound = 1
    StreamTexts <- MCStreamTexts
    PieceBound = 3
    Kinds = {"k1", "k2"}
    MaxPicked = 1
    PromoteAt = 2
    FailBound = 2
    TurnBound = 2
    CloseBound = 1
    LossBound = 1
    Facts = {"f", "f2"}
    Alike <- MCAlike
    Folders = {"p1"}
    Here = "p1"
    StoreCap = 1
    PromptItems = 1
    SaveBound = 3
SPECIFICATION Spec
INVARIANTS SessionStateKept RemindersSound ProviderSound InvestigatorSound DeliberateKept
CHECK_DEADLOCK FALSE
