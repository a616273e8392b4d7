CONSTANTS
    None = None
    Versions = {1, 3}
    UserRequests = 4
    MaxFailures = 2
    ResetMayFail = TRUE
    MaxBookmarks = 2
SPECIFICATION Spec
INVARIANT TypeOK
INVARIANT QueueMatchesWire
INVARIANT BeginCarriesLatestBookmark
PROPERTY FailureLeavesConnectionReady
PROPERTY FetchReturns
CHECK_DEADLOCK FALSE
