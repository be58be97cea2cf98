CONSTANTS
    R = R
    O = O
    P = P
    Addrs = {R, O, P}
    SymBases <- MCSymBases
    MaxUnderscores = 1
    SegNames <- MCSegNames
    MapLines <- MCParagraphMapLines
    MaxLines = 4
    MapPath <- MCMapPath
    ArgVectors <- MCArgVectors
    RequiredSymbols <- MCRequiredSymbols
    RequiredRootSegments <- MCRequiredRootSegments
    OptionalSymbols <- MCOptionalSymbols
    ForbiddenInOverlay <- MCForbiddenInOverlay

SPECIFICATION Spec

INVARIANT EntryPointsOutsideOverlayCode
