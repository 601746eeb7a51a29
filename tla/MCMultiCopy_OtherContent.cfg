\* One copy, and another application that copies while it is cleared.
CONSTANTS
    userName = userName
    password = password
    otherText = otherText
    Texts <- MCTexts
    Foreign <- MCForeign
    Empty = Empty
    Zero = Zero
    MaxCopies = 1
SPECIFICATION MultiCopySpec
PROPERTY
    OtherContentIntact
