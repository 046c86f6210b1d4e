\* Reordered delivery in which a packet may be handed over again.
CONSTANTS
    MaxMsgs <- MCDupMsgs
    IdSpace <- MCIdSpace
    MaxDups <- MCTwoDups
    None = None
SPECIFICATION Spec
INVARIANTS
    LastIsLastForwarded
PROPERTIES
    AllEventuallyDelivered
    ImplementsOrderedStream
\* The stream is finite: the channel stops once every packet is handed over.
CHECK_DEADLOCK FALSE
