\* Two packages per command line, and a file that cannot be removed.
CONSTANTS
    A = A  B = B  a1 = a1  a2 = a2  b1 = b1  bad = bad  user = user  nopkg = nopkg
    Name = {A, B}
    Archive = {a1, b1}
    BadFile = bad
    User = user
    NoPkg = nopkg
    Attr = {"x", "y"}
    Path <- MCPath
    Anc <- MCAnc
    NameOf <- MCNameOf
    Entries <- SeriesEntries
    Rules <- MCRules
    UserNodes <- FewUserNodes
    Stuck <- FStuck
    Roots = {"absolute", "relative"}
    MaxArgs = 2
SPECIFICATION FairSpec
INVARIANTS
    NothingForgotten
PROPERTIES
    ImplementsRegistry
    EachRunEnds
