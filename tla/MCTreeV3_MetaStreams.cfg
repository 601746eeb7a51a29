\* One of the first files has a meta stream.
CONSTANTS
    root = root
    g1 = g1
    g2 = g2
    g3 = g3
    e1 = e1
    e2 = e2
    e3 = e3
    m1 = m1
    t1 = t1
    t2 = t2
    i1 = i1
    i2 = i2
    i3 = i3
    none = none
    Groups <- MCGroups
    Entries <- MCEntries
    MetaStreams <- MCMeta
    Root <- MCRoot
    None <- MCNone
    Ids <- MCIds
    Titles <- MCTitles
    OldFiles <- MCOldFiles
SPECIFICATION Spec
PROPERTY MetaStreamsKept
