CONSTANTS
    Msgs = {m1}
    NoMsg = NoMsg
    MaxIds = 3
    MaxInjects = 0
    Rounds = 2
    AutoBound = 0
    DueBound = 0
SPECIFICATION Spec
INVARIANT StopStopsGoal
