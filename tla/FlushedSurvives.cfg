CONSTANTS
    Bad = Bad
    MaxRows = 4
    MaxTears = 1
    OldRows = 2
SPECIFICATION StoreSpec
INVARIANT FlushedSurvives
CHECK_DEADLOCK FALSE
