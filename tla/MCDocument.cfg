CONSTANTS
    Err = ErrKey
    ErrKey = ErrKey
    Null = NullV
    NullV = NullV
    NotObj = NotObjV
    NotObjV = NotObjV
    Tokens <- MCTokens
    Values <- MCValues
    Pointers <- MCPointers
    InitDocs <- MCInitDocs
    Updates <- MCUpdates
    MaxOps = 2

INIT UInit
NEXT UNext

INVARIANT UTypeOK
INVARIANT WellFormed
PROPERTY RemoveRemoves
PROPERTY MemberNamedByRfc6901

CHECK_DEADLOCK FALSE
