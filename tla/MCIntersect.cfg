CONSTANTS
    Key = {1, 2, 3, 4}
    MaxSize = 4
SPECIFICATION FairSpec
INVARIANTS
    TypeOK
    HitsAreIntersection
    NoFalseOrphan
    ReportsUpToLastMatch
PROPERTY
    Stops
