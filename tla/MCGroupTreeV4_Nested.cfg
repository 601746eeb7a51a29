\* The Recycle Bin may be anywhere in the file: a group that contains it is then
\* moved below itself.
CONSTANTS
    root = root
    g1 = g1
    g2 = g2
    g3 = g3
    e1 = e1
    e2 = e2
    Groups <- MCGroups
    Entries <- MCEntries
    Root = root
    None = None
    BinMayBeNested = TRUE
SYMMETRY Symmetry
SPECIFICATION Spec
PROPERTIES
    BranchMovesToBackup
