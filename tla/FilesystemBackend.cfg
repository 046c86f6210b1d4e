\* Calls one at a time, with one crash and one failed file operation at
\* any point.
CONSTANTS
    c1 = c1
    c2 = c2
    u1 = u1
    u2 = u2
    CIDs <- MCCIDs
    Updates <- MCUpdates
    Ops <- MCOpsAll
    MaxInFlight = 1
    MaxCrashes = 1
    MaxIOErrors = 1
SPECIFICATION Spec
INVARIANTS DeletedStaysDeleted
\* Every call returns, fails or dies in a crash: the account manager's
\* list of calls is finite.
CHECK_DEADLOCK FALSE
