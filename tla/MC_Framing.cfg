CONSTANTS
    MaxChunkSize = 2
    Capacity = 3
    MaxWriteLen = 3
    MaxWrites = 2
    MaxMessages = 2
SPECIFICATION Spec
INVARIANT TypeOK
INVARIANT ViewFramesPending
INVARIANT WriteNotSplit
INVARIANT InboxYieldsSent
PROPERTY SentIsDelivered
CHECK_DEADLOCK FALSE
