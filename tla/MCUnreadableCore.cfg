CONSTANTS
    Files <- MCFiles
    Headers <- MCHeaders
    Content <- MCContent
    ArgOk = {TRUE}
    Unreadable <- MCUnreadable

SPECIFICATION Spec

INVARIANT LiveFilesComplete
