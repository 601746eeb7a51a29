\* Three copies: two of them are replaced or fail, and one still expires.
CONSTANTS
    userName = userName
    password = password
    otherText = otherText
    Texts <- MCTexts
    Foreign <- MCForeign
    Empty = Empty
    Zero = Zero
    MaxCopies = 3
SPECIFICATION MultiCopySpec
INVARIANTS
    OwnContentTracked
    MultiCopyInv
PROPERTIES
    OtherContentRecognised
    NothingComesBack
    ExpiringContentRemoved
