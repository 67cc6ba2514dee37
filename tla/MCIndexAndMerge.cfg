CONSTANTS
    NullV = NullV
    Null <- NullV
    Fields <- MCFields
    Vals <- MCVals
    KeyTuples <- MCKeyTuples
    MaxIdx = 3
    MaxIns = 2
    i1 = i1
    i2 = i2
    i3 = i3
    NoOutputV = NoOutputV
    NoOutput <- NoOutputV
    Ids <- MCIds
    Limits <- MCLimits
    MaxLen = 3

SPECIFICATION MSpec

INVARIANT ITypeOK
INVARIANT AndResult
PROPERTY ImplementsCatalog
PROPERTY FindIdReturnsEmplaced

CHECK_DEADLOCK FALSE
