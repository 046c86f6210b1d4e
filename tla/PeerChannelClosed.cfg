CONSTANTS
    MaxMsgs <- MCMaxMsgs
    MaxSends <- MCMaxSends
SPECIFICATION Spec
PROPERTIES
    ClosedEndsStream
CHECK_DEADLOCK FALSE
