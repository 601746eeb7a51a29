\* Two entries, two extra fields, two contents of attachments, a history of two.
CONSTANTS
    e1 = e1
    e2 = e2
    n1 = n1
    n2 = n2
    v1 = v1
    v2 = v2
    d1 = d1
    d2 = d2
    none = none
    Entries <- MCEntries
    Names <- MCNames
    Values <- MCValues
    Data <- MCData
    None <- MCNone
    HistoryMaxItems = 2
    OldFiles <- MCOldFiles
    MaxTime = 3
    MaxAtts = 2
SPECIFICATION Spec
INVARIANTS
    EntryInv
    ReferencesResolve
PROPERTIES
    SaveKeepsEverything
    DeletedDataIsGone
    EditsLeaveABackup
    OldestGoesFirst
