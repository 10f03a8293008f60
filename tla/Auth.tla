-------------------------------- MODULE Auth --------------------------------
(* AuthService (src/src/auth/auth.service.ts) over the token cache: pairs of *)
(* an access and a refresh token are issued, refresh tokens are exchanged    *)
(* and revoked, access tokens are validated through the cache.  A refresh    *)
(* token is stored, checked and revoked in Redis when the pool has a client  *)
(* and in a Map of the process when it has none or the command fails; the    *)
(* connection may come and go between any two calls, so each call of the     *)
(* pool's getClient may find a client or not.  An awaited command ends with  *)
(* a step of its own, which runs to the next await.  A pair of tokens and    *)
(* the id in its refresh token are one name; each of the two tokens is given *)
(* to the calls it is meant for.                                             *)
EXTENDS TokenCache

CONSTANTS
    Requests,       \* places for requests that await; one that ended may start anew
    AccessTtl,      \* accessTokenExpirySec
    RefreshTtl,     \* refreshTokenExpiryMs
    LastLogin       \* no login of a finite instance is later

ASSUME AuthAssumption == AccessTtl \in Nat \ {0} /\ RefreshTtl \in Nat \ {0} /\ LastLogin \in Nat

VARIABLES
    grant,      \* what the tokens of a pair say: their user and when they expire
    stored,     \* where refresh tokens are kept, and until when: in Redis, in the Map refreshTokens
    request,
    left        \* history: the places where a live token was stored and not revoked since

authVars == <<grant, stored, request, left>>
vars == <<now, cacheVars, authVars>>

Places == {"redis", "memory"}
Absent == 0
NotIssued == [user |-> "nobody"]
Idle == [phase |-> "idle"]

Init ==
    /\ CacheInit
    /\ grant = [t \in Tokens |-> NotIssued]
    /\ stored = [p \in Places |-> [t \in Tokens |-> Absent]]
    /\ request = [r \in Requests |-> Idle]
    /\ left = [t \in Tokens |-> {}]

-----------------------------------------------------------------------------
\* Where a command took effect.  Its error, whether Redis had executed it or
\* not, is caught, and the Map takes its place.
Replies == {{"redis"}, {"redis", "memory"}, {"memory"}}

Keep(store, t, places, expiry) ==
    [p \in Places |-> IF p \in places THEN [store[p] EXCEPT ![t] = expiry] ELSE store[p]]

Drop(store, t, places) == Keep(store, t, places, Absent)

Await(r, fields) == request' = [request EXCEPT ![r] = fields]
Answer(r) == request' = [request EXCEPT ![r] = Idle]

\* The pair has reached its client.
Delivered(t) == grant[t] # NotIssued /\ \A r \in Requests : request[r] # [phase |-> "store", token |-> t]

\* jwtService.verify.
Live(t) == grant[t] # NotIssued /\ now < grant[t].refreshExp
Verified(t) == Delivered(t) /\ Live(t)

\* generateTokens up to the await in storeRefreshToken, after the refresh tokens
\* have become `store`; without a client there is no await.
GenerateTokens(r, user, store, leftThen) ==
    \E t \in Tokens :
        /\ grant[t] = NotIssued
        /\ grant' = [grant EXCEPT ![t] =
             [user |-> user, accessExp |-> now + AccessTtl, refreshExp |-> now + RefreshTtl]]
        /\ \/ Await(r, [phase |-> "store", token |-> t]) /\ stored' = store /\ left' = leftThen
           \/ /\ Answer(r)
              /\ stored' = Keep(store, t, {"memory"}, now + RefreshTtl)
              /\ left' = [leftThen EXCEPT ![t] = {"memory"}]

\* Mutant: the Date takes the place of the duration.
RedisExpiryOfDate(t) == now + grant[t].refreshExp

\* The option PX: Redis counts from when it executes the command.
RedisExpiry(t) == now + RefreshTtl

\* The rest of storeRefreshToken.
StoreReplies(r) ==
    /\ request[r].phase = "store"
    /\ LET t == request[r].token IN
       \E places \in Replies :
         /\ stored' = [Keep(stored, t, places, RedisExpiry(t)) EXCEPT !["memory"][t] =
                         IF "memory" \in places THEN grant[t].refreshExp ELSE @]
         /\ left' = [left EXCEPT ![t] = places]
    /\ Answer(r)
    /\ UNCHANGED <<now, cacheVars, grant>>

\* register or login that succeeded for a user.
Login(r, u) ==
    /\ request[r] = Idle /\ now <= LastLogin
    /\ GenerateTokens(r, u, stored, left)
    /\ UNCHANGED <<now, cacheVars>>

-----------------------------------------------------------------------------
\* refreshToken.  `late`: the token had been revoked wherever it was stored
\* before this refresh began.
FindUser(r, t, late) == Await(r, [phase |-> "user", token |-> t, late |-> late])

\* Mutant: the check takes the token out of the Map.
CheckMemoryOnce(r, t, late) ==
    \/ /\ stored["memory"][t] # Absent
       /\ stored["memory"][t] >= now
       /\ FindUser(r, t, late)
       /\ stored' = Drop(stored, t, {"memory"})
    \/ stored["memory"][t] = Absent /\ Answer(r) /\ UNCHANGED stored

\* isRefreshTokenValid in the Map, which drops an expired token.
CheckMemory(r, t, late) ==
    \/ /\ stored["memory"][t] # Absent
       /\ stored["memory"][t] >= now
       /\ FindUser(r, t, late)
       /\ UNCHANGED stored
    \/ /\ stored["memory"][t] < now \/ stored["memory"][t] = Absent
       /\ Answer(r)
       /\ stored' = Drop(stored, t, {"memory"})

RefreshToken(r, t) ==
    /\ request[r] = Idle /\ Verified(t)
    /\ LET late == left[t] = {} IN
       \/ Await(r, [phase |-> "check", token |-> t, late |-> late]) /\ UNCHANGED stored
       \/ CheckMemory(r, t, late)
    /\ UNCHANGED <<now, cacheVars, grant, left>>

\* exists answers, or fails.
CheckReplies(r) ==
    /\ request[r].phase = "check"
    /\ LET t == request[r].token IN
       \/ stored["redis"][t] # Absent /\ FindUser(r, t, request[r].late) /\ UNCHANGED stored
       \/ stored["redis"][t] = Absent /\ Answer(r) /\ UNCHANGED stored
       \/ CheckMemory(r, t, request[r].late)
    /\ UNCHANGED <<now, cacheVars, grant, left>>

\* Mutant: the refresh issues a new pair before it revokes, and forgets to.
RevokedLater(r, t, kind, places) ==
    IF kind = "refresh"
    THEN GenerateTokens(r, grant[t].user, stored, [left EXCEPT ![t] = @ \ places]) /\ UNCHANGED cacheVars
    ELSE /\ stored' = Drop(stored, t, places)
         /\ left' = [left EXCEPT ![t] = @ \ places]
         /\ Answer(r)
         /\ InvalidateAllTokensForUser(grant[t].user)
         /\ UNCHANGED grant

\* Once the token is revoked in some places, a refresh goes on to its new pair
\* and a logout drops what is cached for the user.
Revoked(r, t, kind, places) ==
    IF kind = "refresh"
    THEN /\ GenerateTokens(r, grant[t].user, Drop(stored, t, places), [left EXCEPT ![t] = @ \ places])
         /\ UNCHANGED cacheVars
    ELSE /\ stored' = Drop(stored, t, places)
         /\ left' = [left EXCEPT ![t] = @ \ places]
         /\ Answer(r)
         /\ InvalidateAllTokensForUser(grant[t].user)
         /\ UNCHANGED grant

\* revokeRefreshToken up to its await, or to its end without a client.
Revoke(r, t, kind) ==
    \/ /\ Await(r, [phase |-> "revoke", token |-> t, kind |-> kind])
       /\ UNCHANGED <<cacheVars, grant, stored, left>>
    \/ Revoked(r, t, kind, {"memory"})

\* findById found the user, or did not.
UserReplies(r) ==
    /\ request[r].phase = "user"
    /\ \/ Revoke(r, request[r].token, "refresh")
       \/ Answer(r) /\ UNCHANGED <<cacheVars, grant, stored, left>>
    /\ UNCHANGED now

RevokeReplies(r) ==
    /\ request[r].phase = "revoke"
    /\ \E places \in Replies : Revoked(r, request[r].token, request[r].kind, places)
    /\ UNCHANGED now

Logout(r, t) ==
    /\ request[r] = Idle /\ Verified(t)
    /\ Revoke(r, t, "logout")
    /\ UNCHANGED now

-----------------------------------------------------------------------------
\* Mutant: a token at the very end of its life is cached as well, for a TTL of 0.
ValidateToTheEnd(t) ==
    \/ GetTokenValidation(t)
    \/ ~Hit(tokenCache, t, now) /\ now <= grant[t].accessExp
         /\ SetTokenValidation(t, grant[t].user, grant[t].accessExp - now)
    \/ now > grant[t].accessExp /\ MissTokenValidation(t)

\* The cache's answer, or the verified token's, which is cached for the rest of
\* its life, or none.
Validate(t) ==
    \/ GetTokenValidation(t)
    \/ ~Hit(tokenCache, t, now) /\ now < grant[t].accessExp
         /\ SetTokenValidation(t, grant[t].user, grant[t].accessExp - now)
    \/ now >= grant[t].accessExp /\ MissTokenValidation(t)

ValidateAccessToken(t) ==
    /\ Delivered(t)
    /\ Validate(t)
    /\ UNCHANGED <<now, authVars>>

\* The caches' other callers: the user service on a password change or a
\* deletion, and maintenance.
CacheCalls ==
    /\ \/ \E u \in Users : InvalidateAllTokensForUser(u)
       \/ \E t \in Tokens : Delivered(t) /\ InvalidateToken(t)
       \/ Prune
       \/ ClearAll
    /\ UNCHANGED <<now, authVars>>

\* Redis drops what expires; the Map waits to be asked.
TimePasses ==
    /\ Tick
    /\ stored' = [stored EXCEPT !["redis"] =
                    [t \in Tokens |-> IF @[t] > now' THEN @[t] ELSE Absent]]
    /\ UNCHANGED <<cacheVars, grant, request>>
    /\ left' = [t \in Tokens |-> IF Live(t)' THEN left[t] ELSE {}]

Handlers ==
    \E r \in Requests :
        \/ \E u \in Users : Login(r, u)
        \/ \E t \in Tokens : RefreshToken(r, t) \/ Logout(r, t)
        \/ StoreReplies(r) \/ CheckReplies(r) \/ UserReplies(r) \/ RevokeReplies(r)

Next ==
    \/ Handlers
    \/ \E t \in Tokens : ValidateAccessToken(t)
    \/ CacheCalls \/ TimePasses

Spec == Init /\ [][Next]_vars

-----------------------------------------------------------------------------
(* Properties.                                                               *)

Times == 0 .. Horizon + AccessTtl + RefreshTtl

\* Every variable has its type.
TypeOK ==
    /\ now \in 0 .. Horizon
    /\ Keys(tokenCache) \subseteq Tokens
    /\ \A t \in Keys(tokenCache) :
         tokenCache.entry[t] \in [value : Users, accessedAt : Times, expiresAt : Times]
    /\ userToTokenHashes \in [Users -> SUBSET Tokens]
    /\ grant \in [Tokens -> {NotIssued} \cup [user : Users, accessExp : Times, refreshExp : Times]]
    /\ stored \in [Places -> [Tokens -> Times]]
    /\ left \in [Tokens -> SUBSET Places]
    /\ request \in [Requests -> {Idle}
         \cup [phase : {"check", "user"}, token : Tokens, late : BOOLEAN]
         \cup [phase : {"revoke"}, token : Tokens, kind : {"refresh", "logout"}]
         \cup [phase : {"store"}, token : Tokens]]

\* Rotation and logout are final: a refresh token that has been revoked wherever
\* it was stored is not exchanged by any refresh that begins afterwards, whatever
\* the connection does.  Refreshes that had begun before may still succeed.
NoLateExchange == \A r \in Requests : request[r].phase = "user" => ~request[r].late

\* A refresh token is lost by revocation or by its expiry only: wherever it was
\* stored and not revoked, it can still be found while it is valid.
UnrevokedTokensAreKept ==
    \A t \in Tokens : \A p \in left[t] : now < grant[t].refreshExp => stored[p][t] > now

\* The cache answers for nobody but the token's user, and for no token that
\* expired at an earlier instant.
CachedTokensAreAlive ==
    \A t \in Keys(tokenCache) :
        /\ Value(tokenCache, t) = grant[t].user
        /\ Hit(tokenCache, t, now) => now <= grant[t].accessExp

\* When a logout is answered, no token of its user is in the cache, and those of
\* the other users are all still there.
LogoutDropsCachedTokens ==
    [][\A r \in Requests :
         request[r].phase = "revoke" /\ request[r].kind = "logout" /\ request'[r] = Idle
           => Keys(tokenCache') = {t \in Keys(tokenCache) :
                                     grant[t].user # grant[request[r].token].user}]_vars
=============================================================================
