CONSTANTS
    None = None
    MaxAddresses = 2
SPECIFICATION Spec
INVARIANT ConnectNeverReturnsNone
CHECK_DEADLOCK FALSE
