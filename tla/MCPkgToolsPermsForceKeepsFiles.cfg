\* One package per command line, any crash, any edit between two command lines.
CONSTANTS
    A = A  B = B  a1 = a1  a2 = a2  b1 = b1  bad = bad  user = user  nopkg = nopkg
    Name = {A, B}
    Archive = {a1, a2, b1}
    BadFile = bad
    User = user
    NoPkg = nopkg
    Attr = {"x", "y"}
    Path <- MCPath
    Anc <- MCAnc
    NameOf <- MCNameOf
    Entries <- MCEntries
    Rules <- MCRules
    UserNodes <- MCUserNodes
    Stuck <- NoneStuck
    Roots = {"absolute", "relative"}
    MaxArgs = 1
SPECIFICATION Spec
PROPERTY
    PermsForceKeepsFiles
