\* createSession over a disconnected session, its TTL longer than the grace period.
CONSTANTS
    Clients = {c1}
    Messages = {m1}
    Undefined = undefined
    MaxHistory = 1
    TTL = 2
    Grace = 1
    MaxSessions = 2
    Horizon = 3
SPECIFICATION Spec
INVARIANTS NoTimerCutsShort
