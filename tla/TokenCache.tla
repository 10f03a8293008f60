----------------------------- MODULE TokenCache -----------------------------
(* The token side of CacheService (src/src/cache/cache.service.ts), enabled: *)
(* validated access tokens in an LRU cache, and per user the Set of the      *)
(* tokens that were cached for it, by which all of them can be dropped.  The *)
(* hash that keys a token stands for the token.                              *)
EXTENDS LRUCache

CONSTANTS
    Users,
    Tokens,
    TokenMaxSize,   \* config.tokenMaxSize
    Horizon         \* where the clock of a finite instance stops

ASSUME TokenCacheAssumption == TokenMaxSize \in Nat \ {0} /\ Horizon \in Nat

VARIABLES
    now,
    tokenCache,         \* access token -> the user it is valid for
    userToTokenHashes   \* user -> Set of tokens; empty stands for no entry

cacheVars == <<tokenCache, userToTokenHashes>>

CacheInit ==
    /\ now = 0
    /\ tokenCache = EmptyCache
    /\ userToTokenHashes = [u \in Users |-> {}]

-----------------------------------------------------------------------------
\* getTokenValidation that finds the token.
GetTokenValidation(t) ==
    /\ Hit(tokenCache, t, now)
    /\ tokenCache' = AfterGet(tokenCache, t, now)
    /\ UNCHANGED userToTokenHashes

\* Mutant: the token is cached without its place in the reverse index.
SetWithoutIndex(t, u, ttl) ==
    /\ tokenCache' = AfterSet(tokenCache, t, u, ttl, now, TokenMaxSize)
    /\ userToTokenHashes' = IF userToTokenHashes[u] = {}
                            THEN [userToTokenHashes EXCEPT ![u] = {t}] ELSE userToTokenHashes

\* setTokenValidation, after the miss that dropped the expired entry if any.
SetTokenValidation(t, u, ttl) ==
    /\ tokenCache' = AfterSet(tokenCache, t, u, ttl, now, TokenMaxSize)
    /\ userToTokenHashes' = [userToTokenHashes EXCEPT ![u] = @ \cup {t}]

\* A token nobody may use: getTokenValidation drops its expired entry.
MissTokenValidation(t) ==
    /\ ~Hit(tokenCache, t, now)
    /\ tokenCache' = AfterGet(tokenCache, t, now)
    /\ UNCHANGED userToTokenHashes

\* invalidateToken: the index forgets the token only if the cache still has it.
InvalidateToken(t) ==
    /\ tokenCache' = Without(tokenCache, {t})
    /\ userToTokenHashes' =
         IF Hit(tokenCache, t, now)
         THEN [userToTokenHashes EXCEPT ![Value(tokenCache, t)] = @ \ {t}]
         ELSE userToTokenHashes

\* Mutant: the index entry goes, the cached tokens stay.
ForgetIndexOnly(u) ==
    /\ UNCHANGED tokenCache
    /\ userToTokenHashes' = [userToTokenHashes EXCEPT ![u] = {}]

\* invalidateAllTokensForUser.
InvalidateAllTokensForUser(u) ==
    /\ tokenCache' = Without(tokenCache, userToTokenHashes[u])
    /\ userToTokenHashes' = [userToTokenHashes EXCEPT ![u] = {}]

\* prune with pruneReverseIndex, which asks the pruned cache.
Prune ==
    /\ tokenCache' = AfterPrune(tokenCache, now)
    /\ userToTokenHashes' = [u \in Users |-> userToTokenHashes[u] \cap Keys(tokenCache')]

ClearAll ==
    /\ tokenCache' = EmptyCache
    /\ userToTokenHashes' = [u \in Users |-> {}]

Tick == now < Horizon /\ now' = now + 1

-----------------------------------------------------------------------------
(* Properties.                                                               *)

\* The tokens cached for a user are all in the user's Set, whatever was evicted,
\* expired, replaced or pruned, so that dropping the Set drops them all; and a
\* Set never holds a token cached for another user.
IndexCoversCache ==
    \A t \in Keys(tokenCache) : \A u \in Users :
        t \in userToTokenHashes[u] <=> u = Value(tokenCache, t)

\* The cache keeps to its size, and evicts in the order of use: through hits,
\* overwrites, expiry and invalidation the order of its Map is the order that the
\* entries' access times tell.
CacheIsLRU ==
    /\ Cardinality(Keys(tokenCache)) <= TokenMaxSize
    /\ IsLeastRecentFirst(tokenCache)
=============================================================================
