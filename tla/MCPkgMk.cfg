CONSTANTS
    Local = {}
    Remote = {"source"}
    Version = {v1, v2}
    OptionSets <- MCOptionSets
    NDepot = 1
    Absent = Absent
    Empty = Empty
    Mixed = Mixed
SPECIFICATION Spec
SYMMETRY Symmetry
INVARIANTS
    TypeOK
    UpToDateIsCurrent
    FailedIsRebuilt
    MixedIsNoticed
PROPERTIES
    WorkIsRemoved
    DownloadsEnd
