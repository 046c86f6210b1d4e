\* Hole punching between two NATs over a lossy, duplicating, hairpinning
\* network, with the 2000 ms timer.
CONSTANTS
    Initiator = Initiator
    Receiver = Receiver
    None = None
    MaxLoss <- MCMaxLoss
    MaxDup <- MCMaxDup
    MaxHairpin <- MCMaxHairpin
    Timeouts = TRUE
SPECIFICATION Spec
INVARIANTS TypeOK SuccessKnownToPeer
\* Both receiver tasks return and the network drains: the protocol stops.
CHECK_DEADLOCK FALSE
