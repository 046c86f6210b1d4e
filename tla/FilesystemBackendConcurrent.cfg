\* Two calls at once, no fault: a save racing a delete or a purge.
CONSTANTS
    c1 = c1
    c2 = c2
    u1 = u1
    u2 = u2
    CIDs <- MCCIDs
    Updates <- MCUpdates
    Ops <- MCOpsAll
    MaxInFlight = 2
    MaxCrashes = 0
    MaxIOErrors = 0
SPECIFICATION Spec
INVARIANTS DeletedStaysDeleted
\* Every call returns, fails or dies in a crash: the account manager's
\* list of calls is finite.
CHECK_DEADLOCK FALSE
