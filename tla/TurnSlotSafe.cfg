CONSTANTS
    Msgs = {m1, m2}
    NoMsg = NoMsg
    MaxIds = 4
    MaxInjects = 0
    Rounds = 1
    AutoBound = 1
    DueBound = 1
SPECIFICATION Spec
INVARIANTS TypeOK LiveTurnOwnsSlot FollowupHasTurn HeldOnce
PROPERTIES ClaimsInOrder DeliveredOnce
SYMMETRY Symmetry
