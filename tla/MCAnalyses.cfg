CONSTANTS
    Files <- MCFiles
    RgInstalled = {TRUE, FALSE}
    Headers = {}
    Content <- MCContent
    ArgOk = {TRUE}
    Unreadable = {{}}

SPECIFICATION Spec

INVARIANT IntegrationFilesNeverSafe
