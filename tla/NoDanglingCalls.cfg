CONSTANTS
    MaxHops = 2
    RetryMax = 1
    MaxOverflow = 1
    MaxNudges = 1
    MaxStalled = 2
    MaxAuto = 3
    MaxCalls = 2
    MaxTurns = 2
SPECIFICATION Spec
INVARIANT NoDanglingCalls
CHECK_DEADLOCK FALSE
