CONSTANTS
    None = None
    MaxAddresses = 2
SPECIFICATION Spec
INVARIANT TypeOK
INVARIANT ReturnedConnectionReady
INVARIANT RaisesLastError
INVARIANT BytesIffNeo4j32
PROPERTY ConnectTerminates
CHECK_DEADLOCK FALSE
