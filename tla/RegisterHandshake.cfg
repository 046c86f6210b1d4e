CONSTANTS
    c1 = c1
    c2 = c2
    Clients <- MCClients
    AllowPasswordless = TRUE
SPECIFICATION Spec
INVARIANTS TypeOK OkayMeansRegisteredAtBob
PROPERTIES AliceLearnsOutcome
\* Every handshake reaches an end state and stops there.
CHECK_DEADLOCK FALSE
