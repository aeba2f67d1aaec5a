CONSTANTS
    MaxSeq = 14
    MinFold = 4
    MinTail = 2
SPECIFICATION SurfaceSpec
INVARIANT PairsStayTogether
CHECK_DEADLOCK FALSE
