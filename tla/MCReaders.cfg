CONSTANTS
    Char <- AllChars
    Configs <- Files
    BadRegex <- Regexes
    Word <- Words
    PkgDbs <- Memories
    NameOrder <- Names
    Brim = {"long"}
    Node = {n1, n2, n3, n4}
    Data = {1, 2, 3}
    HEAD = HEAD
    TAIL = TAIL
    NULL = NULL
    Junk = Junk
    Root = "/"
    Path <- Paths
    Parent <- ParentOf
    Key <- KeyOf
    Locked = {"c"}
    Excepted = {"e"}
    Queries <- Asked
    Databases <- Dbs
    Disks <- Trees
    MaxChanges = 2
    File <- Rejected
    Version <- Contents
    Mode = {1, 2}
    Starts <- RejStarts
    MaxUpdates = 1
SPECIFICATION Spec
SYMMETRY Symmetry
CHECK_DEADLOCK FALSE
INVARIANTS
    LineTypeOK
    FieldsAsMeant
    RulesAsMeant
    TypesOK
    ReadsWholePackages
    ListTypeOK
    ListIsChain
    EachVisitedOnce
    MissingAsSeen
    OrphansAsSeen
    NothingLostUnasked
