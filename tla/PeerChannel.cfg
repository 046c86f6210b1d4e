CONSTANTS
    MaxMsgs <- MCMaxMsgs
    MaxSends <- MCMaxSends
SPECIFICATION Spec
INVARIANTS
    TypeOK
PROPERTIES
    EveryForwardYielded
    RemovalEndsStream
CHECK_DEADLOCK FALSE
