\* More clients than places: eviction, order and timers.
CONSTANTS
    Clients = {c1, c2, c3}
    Messages = {m1}
    Undefined = undefined
    MaxHistory = 1
    TTL = 1
    Grace = 2
    MaxSessions = 2
    Horizon = 3
SYMMETRY ClientSymmetry
SPECIFICATION Spec
INVARIANTS TypeOK TimersFollowSessions WithinCapacity
