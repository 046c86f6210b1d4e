\* The primary listener after a Shutdown request.
CONSTANTS
    k1 = k1
    k2 = k2
    None = None
    Kernels <- MCKernels
    MaxRequests <- MCMaxRequests
    MaxAccepts <- MCMaxAccepts
    TicketSpace <- MCTicketSpace
SPECIFICATION Spec

PROPERTIES ShutdownStopsListener
\* The calls are bounded; the loop stops on Shutdown or waits on an empty
\* channel.
CHECK_DEADLOCK FALSE
