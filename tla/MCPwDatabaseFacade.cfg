\* One path, two keys, three edits, three seconds.
CONSTANTS
    Paths = {p1}
    Keys = {k1, k2}
    UninitKey = zeroKey
    Absent = absent
    Torn = torn
    NoDb = noDb
    MaxVersion = 3
    MaxTime = 2
SYMMETRY KeySymmetry
SPECIFICATION Spec
INVARIANTS
    Recoverable
    SessionConsistent
    IInv
PROPERTIES
    BackupsOutliveFailedSaves
    SaveIsAllOrNothing
