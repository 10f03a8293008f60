\* One client: the windows of clients are independent of each other.
CONSTANTS
    Clients = {c1}
    MaxRequests = 2
    WindowMs = 3
    Horizon = 5
    MaxPerInstant = 3
SPECIFICATION Spec
INVARIANTS TypeOK AtMostMaxRequestsInAnyWindow CountIsExact ResetAtIsExact
PROPERTIES IdleWindowsAreRemoved
