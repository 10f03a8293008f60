\* Two calls of one session that come with the same id.
CONSTANTS
    Sessions = {s1, s2}
    Calls = {k1, k2, k3, k4}
    ClientIds = {x}
    MaxConcurrent = 2
SPECIFICATION Spec
\* Every call is made once: when all are answered the model stops.
CHECK_DEADLOCK FALSE
INVARIANTS AwaitedWithinLimit
