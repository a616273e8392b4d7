CONSTANTS
    None = None
    Versions = {3}
    UserRequests = 2
    MaxFailures = 0
    ResetMayFail = FALSE
    MaxBookmarks = 2
SPECIFICATION Spec
INVARIANT FetchAllNeverMeetsNone
