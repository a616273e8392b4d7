CONSTANTS
    None = None
    MaxAddresses = 2
SPECIFICATION Spec
INVARIANT ConnectErrorKinds
CHECK_DEADLOCK FALSE
