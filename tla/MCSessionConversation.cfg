\* Few clients, two messages: what each client's conversation goes through.
CONSTANTS
    Clients = {c1, c2}
    Messages = {m1, m2}
    Undefined = undefined
    MaxHistory = 2
    TTL = 2
    Grace = 1
    MaxSessions = 1
    Horizon = 3
SPECIFICATION FairSpec
PROPERTIES ImplementsConversation IdleSessionsEnd
