CONSTANTS
    Msgs = {m1, m2}
    NoMsg = NoMsg
    MaxIds = 4
    MaxInjects = 1
    Rounds = 0
    AutoBound = 0
    DueBound = 1
SPECIFICATION FairSpec
PROPERTIES SlotComesBack FollowupServed
