CONSTANTS
    Files <- MCFiles
    RgInstalled = {TRUE, FALSE}

SPECIFICATION Spec

INVARIANT ReferencedSafetyFilesKept
