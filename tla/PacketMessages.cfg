CONSTANTS
    Objects = {o1, o2}
    Cells = {c1, c2, c3, c4}
    kEmptyString = kEmptyString
    NULL = NULL
    Strings <- MCStrings
    Contents <- MCContents
    MaxUnknown = 1
    MaxHeld = 1
    MaxCut = 3
SPECIFICATION Spec
INVARIANTS TypeOK OneOwner EmptyStringIntact NoStaleValue SizesAgree ParsedAsWritten CutContent
PROPERTY CopyIsEqual
