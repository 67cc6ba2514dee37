CONSTANTS
    Err = ErrKey
    ErrKey = ErrKey
    Null = NullV
    NullV = NullV
    NotObj = NotObjV
    NotObjV = NotObjV
    Tokens <- MCTokens
    Values <- MCValues
    Pointers <- MCPointers
    InitDocs <- MCCmpDocs
    Updates <- MCUpdates
    CmpDocs <- MCCmpDocs
    CmpPointers <- MCCmpPointers
    MaxOps = 2

INIT CInit
NEXT CNext

INVARIANT CompareTotalOrder


CHECK_DEADLOCK FALSE
