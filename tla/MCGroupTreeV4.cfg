\* Three groups besides the root, one of which may be the Recycle Bin, and two
\* entries; the bin is at the top, as every program creates it.
CONSTANTS
    root = root
    g1 = g1
    g2 = g2
    g3 = g3
    e1 = e1
    e2 = e2
    Groups <- MCGroups
    Entries <- MCEntries
    Root = root
    None = None
    BinMayBeNested = FALSE
SYMMETRY Symmetry
SPECIFICATION Spec
INVARIANTS
    RecycleInv
    TreeInv
    NothingLost
    OnlyRecycledIsFlagged
    SearchSkipsRecycled
PROPERTIES
    DeletionIsMentioned
