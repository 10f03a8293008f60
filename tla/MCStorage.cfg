\* Two clients in turn, two overlapping operations, a session with a TTL and one without.
CONSTANTS
    Clients = {c1, c2}
    Sessions = {s1, s2}
    Timed = {s2}
    Requests = {r1, r2}
SYMMETRY Symmetry
SPECIFICATION Spec
INVARIANTS TypeOK AvailableMeansUp TimersFollowEntries AnsweredChangesAreFound
