\* Three clients for two places, two requests in flight, all timers.  At the last
\* instant a session of the first has expired, its grace is over if its client went
\* at once, and goes on if he went a tick later.
CONSTANTS
    Clients = {c1, c2, c3}
    r1 = r1
    r2 = r2
    Requests <- MCRequests
    Messages <- MCMessages
    Undefined = undefined
    MaxHistory = 2
    TTL = 1
    Grace = 2
    MaxSessions = 2
    Horizon = 2
SYMMETRY Symmetry
SPECIFICATION RecencySpec
INVARIANTS PresenceMatchesStatus AnswersFollowQuestions HistoriesAreOwn
PROPERTIES ActiveUntilExpiry GraceIsKept EvictsLeastRecentUnlessReturned
