CONSTANTS
    Key = {1, 2, 3, 4}
    MaxSize = 4
SPECIFICATION Spec
INVARIANT
    AllOrphansFound
