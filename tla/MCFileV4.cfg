\* Two keys, up to two protected values, a file of another program or one saved over it,
\* and one damaged part.
CONSTANTS
    k1 = k1
    k2 = k2
    v1 = v1
    none = none
    garbage = garbage
    Keys <- MCKeys
    Values <- MCValues
    None <- MCNone
    Garbage <- MCGarbage
    Rounds <- MCRounds
    Pieces = 2
    MaxValues = 2
    MaxSaves = 2
    MaxDamages = 1
SPECIFICATION Spec
INVARIANTS
    FileTypeOK
    FrameOutlivesWorker
    KeyIsComplete
PROPERTIES
    OpensAsSaved
    IntactOpens
    CallsReturn
