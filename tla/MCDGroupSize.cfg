CONSTANTS
    R = R
    O = O
    P = P
    Addrs = {R, O}
    SymBases <- MCSymBases
    MaxUnderscores = 1
    SegNames <- MCSegNames
    MapLines <- MCMapLines
    MaxLines = 4
    MapPath <- MCMapPath
    ArgVectors <- MCArgVectors
    RequiredSymbols <- MCRequiredSymbols
    RequiredRootSegments <- MCRequiredRootSegments
    OptionalSymbols <- MCOptionalSymbols
    ForbiddenInOverlay <- MCForbiddenInOverlay

SPECIFICATION Spec

INVARIANT DGroupSizeFromGroupTable
