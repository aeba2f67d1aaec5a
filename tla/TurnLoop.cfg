CONSTANTS
    MaxHops = 1
    RetryMax = 1
    MaxOverflow = 1
    MaxNudges = 1
    MaxStalled = 2
    MaxAuto = 2
    MaxCalls = 2
    MaxTurns = 2
SPECIFICATION FairSpec
INVARIANTS TypeOK EffectIsDurable ErrorIsTicketed CallsAnswered
PROPERTIES ContinuesInBudget LoopImplementsPhases ComesToRest
CHECK_DEADLOCK FALSE
