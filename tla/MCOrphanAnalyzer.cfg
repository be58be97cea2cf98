CONSTANTS
    Files <- MCFiles
    RgInstalled = {TRUE}

SPECIFICATION Spec

INVARIANT TypeOK
INVARIANT ReferencedSafetyFilesKept
