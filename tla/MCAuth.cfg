\* Two requests for three pairs of tokens of two users, a cache of two.
CONSTANTS
    Users = {u1, u2}
    Tokens = {t1, t2, t3}
    Requests = {r1, r2}
    TokenMaxSize = 2
    AccessTtl = 1
    RefreshTtl = 1
    Horizon = 2
    LastLogin = 0
SYMMETRY Symmetry
SPECIFICATION Spec
INVARIANTS TypeOK IndexCoversCache CacheIsLRU NoLateExchange UnrevokedTokensAreKept CachedTokensAreAlive
PROPERTIES LogoutDropsCachedTokens
