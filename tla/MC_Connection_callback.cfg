CONSTANTS
    None = None
    Versions = {3}
    UserRequests = 4
    MaxFailures = 1
    ResetMayFail = FALSE
    MaxBookmarks = 2
SPECIFICATION Spec
INVARIANT TerminalCallbackGuaranteed
