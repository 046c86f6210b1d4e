CONSTANTS
    c1 = c1
    c2 = c2
    Clients <- MCClients
    AllowPasswordless = FALSE
SPECIFICATION Spec
PROPERTIES AliceLearnsOutcome
\* Every handshake reaches an end state and stops there.
CHECK_DEADLOCK FALSE
