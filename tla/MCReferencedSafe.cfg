CONSTANTS
    Files <- MCFilesHw
    RgInstalled = {TRUE}

SPECIFICATION Spec

INVARIANT ReferencedNeverSafe
