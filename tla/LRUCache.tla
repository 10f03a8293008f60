------------------------------ MODULE LRUCache ------------------------------
(* LRUCache (src/src/cache/lru-cache.ts) as operators on its Map.  `entry`   *)
(* is the Map itself, a function on the keys it has; `older` is its          *)
(* insertion order as a set of pairs, the key at the left before the key at  *)
(* the right.  The first key is the next one to be evicted.                  *)
EXTENDS Naturals, FiniteSets

\* expiresAt = 0: the entry does not expire.
Never == 0

EmptyCache == [entry |-> [k \in {} |-> Never], older |-> {}]

Keys(cache) == DOMAIN cache.entry

IsExpired(e, now) == e.expiresAt # Never /\ now > e.expiresAt

\* get and has answer for an entry that is there and not expired.
Hit(cache, key, now) == key \in Keys(cache) /\ ~IsExpired(cache.entry[key], now)

Value(cache, key) == cache.entry[key].value

\* Map.delete of some keys.
Without(cache, keys) ==
    [entry |-> [k \in Keys(cache) \ keys |-> cache.entry[k]],
     older |-> {pair \in cache.older : pair[1] \notin keys /\ pair[2] \notin keys}]

\* Map.set of a key that is not there: it goes to the end.
WithLast(cache, key, e) ==
    [entry |-> [k \in Keys(cache) \cup {key} |-> IF k = key THEN e ELSE cache.entry[k]],
     older |-> cache.older \cup (Keys(cache) \X {key})]

\* keys().next().value: the least recently used key.
First(cache) == {k \in Keys(cache) : \A l \in Keys(cache) \ {k} : <<k, l>> \in cache.older}

\* Mutant: a hit does not move the key to the end.
AfterGetInPlace(cache, key, now) ==
    IF Hit(cache, key, now) THEN [cache EXCEPT !.entry[key].accessedAt = now]
    ELSE Without(cache, {key})

\* get: an expired entry goes, one that is found becomes the most recently used.
AfterGet(cache, key, now) ==
    IF Hit(cache, key, now)
    THEN WithLast(Without(cache, {key}), key, [cache.entry[key] EXCEPT !.accessedAt = now])
    ELSE Without(cache, {key})

\* The loop in set evicts while the cache is full; it never holds more than
\* maxSize entries, so one eviction makes room.
Evicted(cache, maxSize) ==
    IF Cardinality(Keys(cache)) >= maxSize THEN Without(cache, First(cache)) ELSE cache

\* set: the key's old entry goes first, so that it is not counted.
AfterSet(cache, key, value, ttl, now, maxSize) ==
    WithLast(Evicted(Without(cache, {key}), maxSize), key,
             [value |-> value, accessedAt |-> now,
              expiresAt |-> IF ttl > 0 THEN now + ttl ELSE Never])

AfterPrune(cache, now) == Without(cache, {k \in Keys(cache) : IsExpired(cache.entry[k], now)})

-----------------------------------------------------------------------------
\* The Map's order is the order of use that the entries' own times tell.
IsLeastRecentFirst(cache) ==
    \A pair \in cache.older :
        cache.entry[pair[1]].accessedAt <= cache.entry[pair[2]].accessedAt
=============================================================================
