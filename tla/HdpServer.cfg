\* Two kernel tasks issuing requests and shutdowns through one remote.
CONSTANTS
    k1 = k1
    k2 = k2
    None = None
    Kernels <- MCKernels
    MaxRequests <- MCMaxRequests
    MaxAccepts <- MCMaxAccepts
    TicketSpace <- MCTicketSpace
SPECIFICATION Spec
INVARIANTS TypeOK
PROPERTIES NothingHandledAfterShutdown AcceptedAnsweredOrStopped
\* The calls are bounded; the loop stops on Shutdown or waits on an empty
\* channel.
CHECK_DEADLOCK FALSE
