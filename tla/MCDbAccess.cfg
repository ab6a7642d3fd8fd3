CONSTANTS
    Proc = {p, q}
    Pkg = {x, y}
    Inode = {i1, i2, i3, i4}
    None = None
SPECIFICATION Spec
VIEW View
SYMMETRY Symmetry
INVARIANTS
    TypeOK
    WriterHasLock
    AtomicDb
    ReadersSeeWhole
PROPERTY
    NoLostUpdate
