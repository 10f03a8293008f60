\* The comment of evictLRUSession, which reconnections contradict.
CONSTANTS
    Clients = {c1, c2, c3}
    r1 = r1
    r2 = r2
    Requests <- MCRequests
    Messages <- MCMessages
    Undefined = undefined
    MaxHistory = 1
    TTL = 1
    Grace = 2
    MaxSessions = 2
    Horizon = 2
SYMMETRY Symmetry
SPECIFICATION RecencySpec
PROPERTIES EvictsLeastRecentlyUsed
