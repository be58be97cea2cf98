CONSTANTS
    Files <- MCFiles
    Headers <- MCHeaders
    Content <- MCContent
    ArgOk = {TRUE, FALSE}
    Unreadable <- MCUnreadable

SPECIFICATION Spec

INVARIANT TypeOK
PROPERTY ReportsWritten
PROPERTY ImplementsDependencyReport
