\* One path, one edit and two seconds: a second save within a second fails,
\* because its backup file exists.
CONSTANTS
    Paths = {p1}
    pw1 = pw1
    pw2 = pw2
    k1 = k1
    k2 = k2
    keyFile = keyFile
    Keys <- MCKeys
    Passwords <- MCPasswords
    PasswordOf <- MCPasswordOf
    NoPassword = noPassword
    NoHash = noHash
    QuickUnlockTypes = {first3, last3}
    UninitKey = zeroKey
    Absent = absent
    Torn = torn
    NoDb = noDb
    MaxVersion = 1
    MaxTime = 1
SYMMETRY MCSymmetry
ACTION_CONSTRAINT ClockWaits
SPECIFICATION AppSpec
PROPERTY
    KeyChangesOnlyOnRequest
