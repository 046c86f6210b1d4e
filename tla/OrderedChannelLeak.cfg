\* A duplicate of an already forwarded packet: is it kept in the map?
CONSTANTS
    MaxMsgs <- MCLeakMsgs
    IdSpace <- MCIdSpace
    MaxDups <- MCOneDup
    None = None
SPECIFICATION Spec
INVARIANTS
    BufferedAreAhead
CHECK_DEADLOCK FALSE
