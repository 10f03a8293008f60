\* The accounts of one email under two overlapping requests, an outage at any moment.
CONSTANTS
    Ids = {u1, u2}
    Requests = {r1, r2}
    MaxVersion = 3
SYMMETRY Symmetry
SPECIFICATION Spec
INVARIANTS TypeOK PasswordsAreCurrent EmailLeadsToItsAccount
CHECK_DEADLOCK FALSE
