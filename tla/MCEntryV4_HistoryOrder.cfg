\* A file that has been saved, and is read again.
CONSTANTS
    e1 = e1
    e2 = e2
    n1 = n1
    n2 = n2
    v1 = v1
    v2 = v2
    d1 = d1
    d2 = d2
    none = none
    Entries <- MCEntries
    Names <- MCNames
    Values <- MCValues
    Data <- MCData
    None <- MCNone
    HistoryMaxItems = 2
    OldFiles <- MCOldFiles
    MaxTime = 1
    MaxAtts = 2
SPECIFICATION Spec
INVARIANT
    MostRecentOnTop
