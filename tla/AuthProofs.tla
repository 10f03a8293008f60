---------------------------- MODULE AuthProofs ----------------------------
(* The LRU cache, the cache of validated tokens with its reverse index, and  *)
(* the life of refresh tokens, for any number of users, tokens and requests, *)
(* any size of the cache and any lifetimes.  IInv has three parts: what the  *)
(* tokens say (GInv); that a cached token is as its grant says and is in its *)
(* user's Set (KInv); and where each refresh token is stored, with what each *)
(* waiting request relies on (RInv).                                         *)
EXTENDS Auth, FiniteSetTheorems, TLAPS

-----------------------------------------------------------------------------
(* The operators of LRUCache.                                                *)

LEMMA WithoutEffect ==
    ASSUME NEW cache, NEW keys
    PROVE  /\ Keys(Without(cache, keys)) = Keys(cache) \ keys
           /\ \A k \in Keys(cache) \ keys : Without(cache, keys).entry[k] = cache.entry[k]
           /\ Without(cache, keys).older = {pair \in cache.older : pair[1] \notin keys /\ pair[2] \notin keys}
  BY DEF Without, Keys

LEMMA WithLastEffect ==
    ASSUME NEW cache, NEW key, NEW e
    PROVE  /\ Keys(WithLast(cache, key, e)) = Keys(cache) \cup {key}
           /\ \A k \in Keys(cache) \ {key} : WithLast(cache, key, e).entry[k] = cache.entry[k]
           /\ WithLast(cache, key, e).entry[key] = e
           /\ WithLast(cache, key, e).older = cache.older \cup (Keys(cache) \X {key})
  BY DEF WithLast, Keys

\* The Map's order is one total order on its keys.
IsOrdered(cache) ==
    /\ cache.older \subseteq Keys(cache) \X Keys(cache)
    /\ \A k, l \in Keys(cache) : (<<k, l>> \in cache.older) <=> (k # l /\ <<l, k>> \notin cache.older)
    /\ \A k, l, m \in Keys(cache) :
         <<k, l>> \in cache.older /\ <<l, m>> \in cache.older => <<k, m>> \in cache.older

\* The order of the Map: on its keys, irreflexive, total and transitive.
LEMMA OrderFacts ==
    ASSUME NEW cache, IsOrdered(cache)
    PROVE  /\ \A pair \in cache.older :
                /\ pair[1] \in Keys(cache) /\ pair[2] \in Keys(cache) /\ pair = <<pair[1], pair[2]>>
           /\ \A k \in Keys(cache) : <<k, k>> \notin cache.older
  BY DEF IsOrdered

LEMMA WithoutKeepsOrder ==
    ASSUME NEW cache, NEW keys, IsOrdered(cache)
    PROVE  IsOrdered(Without(cache, keys))
  <1> DEFINE rest == Without(cache, keys)
  <1>1. Keys(rest) = Keys(cache) \ keys
    BY WithoutEffect
  <1>2. rest.older = {pair \in cache.older : pair[1] \notin keys /\ pair[2] \notin keys}
    BY WithoutEffect
  <1> HIDE DEF rest
  <1>3. \A k, l \in Keys(rest) : <<k, l>> \in rest.older <=> <<k, l>> \in cache.older
    BY <1>1, <1>2
  <1>4. rest.older \subseteq Keys(rest) \X Keys(rest)
    BY <1>1, <1>2 DEF IsOrdered
  <1>5. IsOrdered(rest)
    BY <1>1, <1>3, <1>4 DEF IsOrdered
  <1> QED  BY <1>5 DEF rest

LEMMA WithLastKeepsOrder ==
    ASSUME NEW cache, NEW key, NEW e, IsOrdered(cache), key \notin Keys(cache)
    PROVE  IsOrdered(WithLast(cache, key, e))
  <1> DEFINE all == WithLast(cache, key, e)
  <1>1. Keys(all) = Keys(cache) \cup {key} /\ all.older = cache.older \cup (Keys(cache) \X {key})
    BY WithLastEffect
  <1> HIDE DEF all
  <1>2. \A k, l \in Keys(all) :
          <<k, l>> \in all.older <=> \/ k \in Keys(cache) /\ l = key
                                     \/ k \in Keys(cache) /\ l \in Keys(cache) /\ <<k, l>> \in cache.older
    BY <1>1 DEF IsOrdered
  <1>3. all.older \subseteq Keys(all) \X Keys(all)
    BY <1>1 DEF IsOrdered
  <1>4. \A k, l \in Keys(all) : (<<k, l>> \in all.older) <=> (k # l /\ <<l, k>> \notin all.older)
    BY <1>1, <1>2 DEF IsOrdered
  <1>5. \A k, l, m \in Keys(all) :
          <<k, l>> \in all.older /\ <<l, m>> \in all.older => <<k, m>> \in all.older
    BY <1>1, <1>2 DEF IsOrdered
  <1>6. IsOrdered(all)
    BY <1>3, <1>4, <1>5 DEF IsOrdered
  <1> QED  BY <1>6 DEF all

\* A cache with keys has a first one, and only one: among the sets of the keys
\* before each key, which are finite, one is minimal, and it is empty.
LEMMA FirstIsOneKey ==
    ASSUME NEW cache, IsOrdered(cache), IsFiniteSet(Keys(cache)), Keys(cache) # {}
    PROVE  \E k \in Keys(cache) : First(cache) = {k}
  <1> DEFINE S == Keys(cache)
             Before(k) == {l \in S : <<l, k>> \in cache.older}
             All == {Before(k) : k \in S}
  <1>1. IsWellFoundedOn(StrictSubsetOrdering(S), SUBSET S)
    BY FS_StrictSubsetOrderingWellFounded, FS_FiniteSubsetsOfFinite
  <1>2. All \subseteq SUBSET S /\ All # {}
    OBVIOUS
  <1>3. PICK B \in All : \A C \in All : ~(<<C, B>> \in StrictSubsetOrdering(S))
    <2> HIDE DEF All, S
    <2> QED  BY <1>1, <1>2, WFMin
  <1>4. PICK k \in S : B = Before(k)
    BY <1>3
  <1>5. \A l \in S : <<l, k>> \notin cache.older
    <2> SUFFICES ASSUME NEW l \in S, <<l, k>> \in cache.older PROVE FALSE
      OBVIOUS
    <2>1. Before(l) \subseteq Before(k)
      BY DEF IsOrdered
    <2>2. l \in Before(k) /\ l \notin Before(l)
      BY DEF IsOrdered
    <2>3. <<Before(l), Before(k)>> \in StrictSubsetOrdering(S)
      <3>1. Before(l) \in SUBSET S /\ Before(k) \in SUBSET S /\ Before(l) # Before(k)
        BY <2>2
      <3> HIDE DEF Before, S
      <3> QED  BY <2>1, <3>1 DEF StrictSubsetOrdering
    <2> QED  BY <1>3, <1>4, <2>3
  <1>6. \A l \in S \ {k} : <<k, l>> \in cache.older
    BY <1>5 DEF IsOrdered
  <1>7. First(cache) = {k}
    <2>1. k \in First(cache)
      BY <1>6 DEF First
    <2>2. ASSUME NEW l \in First(cache) PROVE l = k
      BY <1>5, <2>2 DEF First
    <2> QED  BY <2>1, <2>2
  <1> QED  BY <1>7

Entries(time) == [value : Users, accessedAt : 0 .. time, expiresAt : Nat]

\* What holds of the cache of tokens at some time.
CInv(cache, time) ==
    /\ IsFiniteSet(Keys(cache)) /\ Cardinality(Keys(cache)) <= TokenMaxSize
    /\ Keys(cache) \subseteq Tokens
    /\ \A k \in Keys(cache) : cache.entry[k] \in Entries(time)
    /\ IsOrdered(cache) /\ IsLeastRecentFirst(cache)

LEMMA EmptyCacheInv == ASSUME NEW time \in Nat PROVE CInv(EmptyCache, time)
  BY FS_EmptySet, TokenCacheAssumption DEF CInv, EmptyCache, Keys, IsOrdered, IsLeastRecentFirst

LEMMA CardinalityIsNat ==
    ASSUME NEW S, IsFiniteSet(S) PROVE Cardinality(S) \in Nat
  BY FS_CardinalityType

LEMMA WithoutKeepsCInv ==
    ASSUME NEW time \in Nat, NEW cache, CInv(cache, time), NEW keys
    PROVE  CInv(Without(cache, keys), time)
  <1> DEFINE rest == Without(cache, keys)
  <1>1. /\ Keys(rest) = Keys(cache) \ keys
        /\ \A k \in Keys(rest) : rest.entry[k] = cache.entry[k]
        /\ rest.older = {pair \in cache.older : pair[1] \notin keys /\ pair[2] \notin keys}
    BY WithoutEffect
  <1>2. IsOrdered(rest)
    BY WithoutKeepsOrder DEF CInv
  <1> HIDE DEF rest
  <1>3. IsFiniteSet(Keys(rest)) /\ Cardinality(Keys(rest)) <= TokenMaxSize
    <2>1. IsFiniteSet(Keys(rest)) /\ Cardinality(Keys(rest)) <= Cardinality(Keys(cache))
      BY <1>1, FS_Subset DEF CInv
    <2> QED  BY <2>1, CardinalityIsNat, TokenCacheAssumption DEF CInv
  <1>4. IsLeastRecentFirst(rest)
    <2> SUFFICES ASSUME NEW pair \in rest.older
                 PROVE  rest.entry[pair[1]].accessedAt <= rest.entry[pair[2]].accessedAt
      BY DEF IsLeastRecentFirst
    <2>1. pair \in cache.older /\ pair[1] \in Keys(rest) /\ pair[2] \in Keys(rest)
      BY <1>1, <1>2, OrderFacts
    <2> QED  BY <1>1, <2>1 DEF CInv, IsLeastRecentFirst
  <1>5. CInv(rest, time)
    BY <1>1, <1>2, <1>3, <1>4 DEF CInv
  <1> QED  BY <1>5 DEF rest

LEMMA WithLastKeepsCInv ==
    ASSUME NEW time \in Nat, NEW cache, CInv(cache, time),
           NEW key \in Tokens \ Keys(cache), NEW e \in Entries(time), e.accessedAt = time,
           Cardinality(Keys(cache)) < TokenMaxSize
    PROVE  CInv(WithLast(cache, key, e), time)
  <1> DEFINE all == WithLast(cache, key, e)
  <1>1. /\ Keys(all) = Keys(cache) \cup {key} /\ all.entry[key] = e
        /\ \A k \in Keys(cache) : all.entry[k] = cache.entry[k]
        /\ all.older = cache.older \cup (Keys(cache) \X {key})
    BY WithLastEffect
  <1>2. IsOrdered(all)
    BY WithLastKeepsOrder DEF CInv
  <1> HIDE DEF all
  <1>3. IsFiniteSet(Keys(all)) /\ Cardinality(Keys(all)) <= TokenMaxSize
    <2>1. IsFiniteSet(Keys(all)) /\ Cardinality(Keys(all)) = Cardinality(Keys(cache)) + 1
      BY <1>1, FS_AddElement DEF CInv
    <2> QED  BY <2>1, CardinalityIsNat, TokenCacheAssumption DEF CInv
  <1>4. IsLeastRecentFirst(all)
    <2> SUFFICES ASSUME NEW pair \in all.older
                 PROVE  all.entry[pair[1]].accessedAt <= all.entry[pair[2]].accessedAt
      BY DEF IsLeastRecentFirst
    <2>1. CASE pair \in cache.older
      <3>1. pair[1] \in Keys(cache) /\ pair[2] \in Keys(cache)
        BY <2>1, OrderFacts DEF CInv
      <3> QED  BY <1>1, <2>1, <3>1 DEF CInv, IsLeastRecentFirst
    <2>2. CASE pair \in Keys(cache) \X {key}
      <3>1. pair[1] \in Keys(cache) /\ pair[2] = key
        BY <2>2
      <3>2. cache.entry[pair[1]].accessedAt \in 0 .. time
        BY <3>1 DEF CInv, Entries
      <3>3. all.entry[pair[1]] = cache.entry[pair[1]] /\ all.entry[pair[2]] = e
        BY <1>1, <3>1
      <3>4. cache.entry[pair[1]].accessedAt <= time
        BY <3>2
      <3> QED  BY <3>3, <3>4
    <2> QED  BY <1>1, <2>1, <2>2
  <1>5. CInv(all, time)
    BY <1>1, <1>2, <1>3, <1>4 DEF CInv
  <1> QED  BY <1>5 DEF all

\* One eviction makes room, and takes one key.
LEMMA EvictedEffect ==
    ASSUME NEW time \in Nat, NEW cache, CInv(cache, time)
    PROVE  /\ CInv(Evicted(cache, TokenMaxSize), time)
           /\ Cardinality(Keys(Evicted(cache, TokenMaxSize))) < TokenMaxSize
           /\ \E gone : Evicted(cache, TokenMaxSize) = Without(cache, gone) \/ Evicted(cache, TokenMaxSize) = cache
  <1>1. Cardinality(Keys(cache)) \in Nat /\ Cardinality(Keys(cache)) <= TokenMaxSize /\ TokenMaxSize \in Nat \ {0}
    BY CardinalityIsNat, TokenCacheAssumption DEF CInv
  <1>2. CASE Cardinality(Keys(cache)) >= TokenMaxSize
    <2>1. Keys(cache) # {}
      BY <1>1, <1>2, FS_EmptySet
    <2>2. PICK k \in Keys(cache) : First(cache) = {k}
      BY <2>1, FirstIsOneKey DEF CInv
    <2>3. Evicted(cache, TokenMaxSize) = Without(cache, {k})
      BY <1>2, <2>2 DEF Evicted
    <2>4. Cardinality(Keys(cache) \ {k}) = Cardinality(Keys(cache)) - 1
      BY FS_RemoveElement DEF CInv
    <2>5. CInv(Without(cache, {k}), time) /\ Keys(Without(cache, {k})) = Keys(cache) \ {k}
      BY WithoutEffect, WithoutKeepsCInv
    <2>6. Cardinality(Keys(cache)) - 1 < TokenMaxSize
      BY <1>1
    <2> QED  BY <2>3, <2>4, <2>5, <2>6
  <1>3. CASE ~(Cardinality(Keys(cache)) >= TokenMaxSize)
    BY <1>1, <1>3 DEF Evicted
  <1> QED  BY <1>2, <1>3

\* What get leaves of the cache: a hit only changes the access time of its key.
LEMMA HitEffect ==
    ASSUME NEW time \in Nat, NEW cache, CInv(cache, time), NEW key \in Keys(cache), Hit(cache, key, time)
    PROVE  /\ CInv(AfterGet(cache, key, time), time)
           /\ Keys(AfterGet(cache, key, time)) = Keys(cache)
           /\ \A k \in Keys(cache) :
                /\ AfterGet(cache, key, time).entry[k].value = cache.entry[k].value
                /\ AfterGet(cache, key, time).entry[k].expiresAt = cache.entry[k].expiresAt
  <1> DEFINE rest == Without(cache, {key})
             e == [cache.entry[key] EXCEPT !.accessedAt = time]
             all == WithLast(rest, key, e)
  <1>1. AfterGet(cache, key, time) = all
    BY DEF AfterGet
  <1>2. /\ cache.entry[key] \in Entries(time) /\ key \in Tokens
        /\ IsFiniteSet(Keys(cache)) /\ Cardinality(Keys(cache)) <= TokenMaxSize
    BY DEF CInv
  <1>3. /\ e \in Entries(time) /\ e.accessedAt = time
        /\ e.value = cache.entry[key].value /\ e.expiresAt = cache.entry[key].expiresAt
    BY <1>2 DEF Entries
  <1>4. /\ CInv(rest, time) /\ Keys(rest) = Keys(cache) \ {key}
        /\ \A k \in Keys(cache) \ {key} : rest.entry[k] = cache.entry[k]
    BY WithoutEffect, WithoutKeepsCInv
  <1>5. Cardinality(Keys(rest)) < TokenMaxSize
    <2>1. Cardinality(Keys(rest)) = Cardinality(Keys(cache)) - 1
      BY <1>2, <1>4, FS_RemoveElement
    <2> QED  BY <1>2, <2>1, CardinalityIsNat, TokenCacheAssumption
  <1> HIDE DEF rest, e
  <1>6. CInv(all, time)
    BY <1>2, <1>3, <1>4, <1>5, WithLastKeepsCInv
  <1>7. /\ Keys(all) = Keys(cache) /\ all.entry[key] = e
        /\ \A k \in Keys(cache) \ {key} : all.entry[k] = cache.entry[k]
    <2>1. /\ Keys(all) = Keys(rest) \cup {key} /\ all.entry[key] = e
          /\ \A k \in Keys(rest) \ {key} : all.entry[k] = rest.entry[k]
      BY WithLastEffect
    <2> HIDE DEF all
    <2> QED  BY <1>4, <2>1
  <1> HIDE DEF all
  <1> QED  BY <1>1, <1>3, <1>6, <1>7

LEMMA MissEffect ==
    ASSUME NEW time, NEW cache, NEW key, ~Hit(cache, key, time)
    PROVE  AfterGet(cache, key, time) = Without(cache, {key})
  BY DEF AfterGet

\* What set leaves: the new entry, and of the others all but at most one.
LEMMA SetEffect ==
    ASSUME NEW time \in Nat, NEW cache, CInv(cache, time), NEW key \in Tokens,
           NEW value \in Users, NEW ttl \in Nat \ {0}
    PROVE  LET all == AfterSet(cache, key, value, ttl, time, TokenMaxSize)
           IN  /\ CInv(all, time)
               /\ key \in Keys(all) /\ Keys(all) \subseteq Keys(cache) \cup {key}
               /\ all.entry[key].value = value /\ all.entry[key].expiresAt = time + ttl
               /\ \A k \in Keys(all) \ {key} : all.entry[k] = cache.entry[k]
  <1> DEFINE rest == Without(cache, {key})
             room == Evicted(rest, TokenMaxSize)
             e == [value |-> value, accessedAt |-> time, expiresAt |-> IF ttl > 0 THEN time + ttl ELSE Never]
             all == WithLast(room, key, e)
  <1>1. AfterSet(cache, key, value, ttl, time, TokenMaxSize) = all
    BY DEF AfterSet
  <1>2. e \in Entries(time) /\ e.accessedAt = time /\ e.value = value /\ e.expiresAt = time + ttl
    <2>1. e = [value |-> value, accessedAt |-> time, expiresAt |-> time + ttl]
      OBVIOUS
    <2>2. time + ttl \in Nat /\ time \in 0 .. time
      OBVIOUS
    <2> HIDE DEF e
    <2> QED  BY <2>1, <2>2 DEF Entries
  <1>3. /\ CInv(rest, time) /\ Keys(rest) = Keys(cache) \ {key}
        /\ \A k \in Keys(rest) : rest.entry[k] = cache.entry[k]
    BY WithoutEffect, WithoutKeepsCInv
  <1> HIDE DEF rest, e
  <1>4. /\ CInv(room, time) /\ Cardinality(Keys(room)) < TokenMaxSize
        /\ \E gone : room = Without(rest, gone) \/ room = rest
    BY <1>3, EvictedEffect
  <1> HIDE DEF room
  <1>5. Keys(room) \subseteq Keys(rest) /\ \A k \in Keys(room) : room.entry[k] = rest.entry[k]
    BY <1>4, WithoutEffect
  <1>6. key \notin Keys(room)
    BY <1>3, <1>5
  <1>7. CInv(all, time)
    BY <1>2, <1>4, <1>6, WithLastKeepsCInv
  <1>8. /\ Keys(all) = Keys(room) \cup {key} /\ all.entry[key] = e
        /\ \A k \in Keys(room) : all.entry[k] = room.entry[k]
    BY <1>6, WithLastEffect
  <1> HIDE DEF all
  <1> QED  BY <1>1, <1>2, <1>3, <1>5, <1>6, <1>7, <1>8

\* A key that set takes besides the one it sets: the cache was full without the
\* new key, nothing else goes, and every other key was used later or at the time.
LEMMA EvictionEffect ==
    ASSUME NEW time \in Nat, NEW cache, CInv(cache, time), NEW key \in Tokens, NEW value, NEW ttl,
           NEW gone \in Keys(cache),
           gone \notin Keys(AfterSet(cache, key, value, ttl, time, TokenMaxSize)) \cup {key}
    PROVE  /\ Cardinality(Keys(cache)) = TokenMaxSize
           /\ Keys(AfterSet(cache, key, value, ttl, time, TokenMaxSize)) = (Keys(cache) \ {gone}) \cup {key}
           /\ \A k \in Keys(cache) : cache.entry[gone].accessedAt <= cache.entry[k].accessedAt
  <1> DEFINE rest == Without(cache, {key})
             room == Evicted(rest, TokenMaxSize)
             all == AfterSet(cache, key, value, ttl, time, TokenMaxSize)
  <1>1. Keys(all) = Keys(room) \cup {key}
    BY WithLastEffect DEF AfterSet
  <1>2. /\ CInv(rest, time) /\ Keys(rest) = Keys(cache) \ {key}
        /\ rest.older \subseteq cache.older
    BY WithoutEffect, WithoutKeepsCInv
  <1>3. /\ gone \in Keys(rest) /\ gone \notin Keys(room)
    BY <1>1, <1>2
  <1>4. Cardinality(Keys(rest)) >= TokenMaxSize /\ room = Without(rest, First(rest))
    BY <1>3 DEF Evicted
  <1> HIDE DEF all, room, rest
  <1>5. PICK f \in Keys(rest) : First(rest) = {f}
    BY <1>2, <1>3, FirstIsOneKey DEF CInv
  <1>6. Keys(room) = Keys(rest) \ {f}
    BY <1>4, <1>5, WithoutEffect
  <1>7. gone = f
    BY <1>3, <1>6
  <1>8. Cardinality(Keys(cache)) = TokenMaxSize /\ key \notin Keys(cache)
    <2>1. /\ IsFiniteSet(Keys(cache)) /\ TokenMaxSize \in Nat
          /\ Cardinality(Keys(cache)) \in Nat /\ Cardinality(Keys(cache)) <= TokenMaxSize
      BY CardinalityIsNat, TokenCacheAssumption DEF CInv
    <2>2. key \in Keys(cache) => Cardinality(Keys(rest)) = Cardinality(Keys(cache)) - 1
      BY <1>2, <2>1, FS_RemoveElement
    <2>3. key \notin Keys(cache)
      BY <1>4, <2>1, <2>2
    <2>4. Keys(rest) = Keys(cache)
      BY <1>2, <2>3
    <2> QED  BY <1>4, <2>1, <2>3, <2>4
  <1>9. Keys(all) = (Keys(cache) \ {gone}) \cup {key}
    BY <1>1, <1>2, <1>6, <1>7, <1>8
  <1>10. ASSUME NEW k \in Keys(cache)
         PROVE  cache.entry[gone].accessedAt <= cache.entry[k].accessedAt
    <2>1. CASE k = gone
      <3>1. cache.entry[gone].accessedAt \in 0 .. time
        BY DEF CInv, Entries
      <3> QED  BY <2>1, <3>1
    <2>2. CASE k # gone
      <3>1. <<gone, k>> \in cache.older
        BY <1>2, <1>5, <1>7, <1>8, <2>2 DEF First
      <3> QED  BY <3>1 DEF CInv, IsLeastRecentFirst
    <2> QED  BY <2>1, <2>2
  <1> QED  BY <1>8, <1>9, <1>10 DEF all

-----------------------------------------------------------------------------
(* The token cache beside what the tokens say.                               *)

Issued(t) == grant[t] # NotIssued

Grants == [user : Users, accessExp : Times, refreshExp : Times]

GInv ==
    /\ now \in 0 .. Horizon
    /\ grant \in [Tokens -> {NotIssued} \cup Grants]
    /\ \A t \in Tokens : Issued(t) =>
         /\ grant[t].accessExp > 0 /\ grant[t].accessExp <= now + AccessTtl
         /\ grant[t].refreshExp <= now + RefreshTtl

\* A cached token is its user's, for as long as it lives, and the user's Set has
\* it; a Set has no token of another user, cached or not.
Cached(t) ==
    /\ Issued(t)
    /\ tokenCache.entry[t].value = grant[t].user
    /\ tokenCache.entry[t].expiresAt = grant[t].accessExp
    /\ t \in userToTokenHashes[grant[t].user]

IndexIsOfUser == \A u \in Users : \A t \in userToTokenHashes[u] : Issued(t) /\ grant[t].user = u

KInv ==
    /\ CInv(tokenCache, now)
    /\ userToTokenHashes \in [Users -> SUBSET Tokens]
    /\ \A t \in Keys(tokenCache) : Cached(t)
    /\ IndexIsOfUser

LEMMA IssuedType ==
    ASSUME GInv, NEW t \in Tokens, Issued(t)
    PROVE  /\ grant[t] \in Grants /\ grant[t].user \in Users
           /\ grant[t].accessExp \in Nat \ {0} /\ grant[t].refreshExp \in Nat /\ now \in Nat
  BY TokenCacheAssumption, AuthAssumption DEF GInv, Issued, Grants, Times

\* Keys that leave the cache may leave the index.
LEMMA ForgettingKeepsKInv ==
    ASSUME GInv, KInv, UNCHANGED <<now, grant>>, NEW gone, tokenCache' = Without(tokenCache, gone),
           userToTokenHashes' \in [Users -> SUBSET Tokens],
           \A u \in Users : /\ userToTokenHashes'[u] \subseteq userToTokenHashes[u]
                            /\ \A t \in Keys(tokenCache) \ gone :
                                 t \in userToTokenHashes[u] => t \in userToTokenHashes'[u]
    PROVE  KInv'
  <1>1. /\ Keys(tokenCache') = Keys(tokenCache) \ gone
        /\ \A t \in Keys(tokenCache') : tokenCache'.entry[t] = tokenCache.entry[t]
    BY WithoutEffect
  <1>2. now \in Nat
    BY TokenCacheAssumption DEF GInv
  <1>3. CInv(tokenCache', now')
    BY <1>2, WithoutKeepsCInv DEF KInv
  <1>4. ASSUME NEW t \in Keys(tokenCache') PROVE Cached(t)'
    <2>1. Cached(t) /\ t \in Tokens
      BY <1>1 DEF KInv, CInv
    <2>2. grant[t].user \in Users
      BY <2>1, IssuedType DEF Cached
    <2> QED  BY <1>1, <2>1, <2>2 DEF Cached, Issued
  <1>5. IndexIsOfUser'
    BY DEF KInv, IndexIsOfUser, Issued
  <1> QED  BY <1>3, <1>4, <1>5 DEF KInv

\* Tokens that are issued are not in the cache yet.
LEMMA IssuingKeepsKInv ==
    ASSUME GInv, KInv, UNCHANGED <<now, cacheVars>>,
           \A t \in Tokens : Issued(t) => grant'[t] = grant[t]
    PROVE  KInv'
  <1>1. UNCHANGED <<tokenCache, userToTokenHashes>>
    BY DEF cacheVars
  <1>2. \A t \in Keys(tokenCache) : Cached(t)'
    BY <1>1 DEF KInv, CInv, Cached, Issued
  <1>3. IndexIsOfUser'
    BY <1>1 DEF KInv, IndexIsOfUser, Issued
  <1> QED  BY <1>1, <1>2, <1>3 DEF KInv

LEMMA WaitingKeepsKInv ==
    ASSUME GInv, KInv, UNCHANGED <<cacheVars, grant>>, Tick
    PROVE  KInv'
  <1>1. UNCHANGED <<tokenCache, userToTokenHashes>>
    BY DEF cacheVars
  <1>2. now \in Nat /\ now' = now + 1
    BY TokenCacheAssumption DEF GInv, Tick
  <1>3. \A k \in Keys(tokenCache) : tokenCache.entry[k] \in Entries(now')
    BY <1>2 DEF KInv, CInv, Entries
  <1>4. CInv(tokenCache', now')
    BY <1>1, <1>3 DEF KInv, CInv
  <1> QED  BY <1>1, <1>4 DEF KInv, Cached, Issued, IndexIsOfUser

LEMMA ValidateKeepsKInv ==
    ASSUME GInv, KInv, NEW t \in Tokens, Issued(t), Validate(t), UNCHANGED <<now, grant>>
    PROVE  KInv'
  <1> DEFINE u == grant[t].user
  <1>1. /\ u \in Users /\ grant[t].accessExp \in Nat \ {0} /\ now \in Nat
        /\ userToTokenHashes \in [Users -> SUBSET Tokens] /\ CInv(tokenCache, now)
    BY IssuedType DEF KInv
  <1>2. CASE GetTokenValidation(t)
    <2>1. /\ t \in Keys(tokenCache) /\ Hit(tokenCache, t, now)
          /\ tokenCache' = AfterGet(tokenCache, t, now) /\ UNCHANGED userToTokenHashes
      BY <1>2 DEF GetTokenValidation, Hit
    <2>2. /\ CInv(tokenCache', now') /\ Keys(tokenCache') = Keys(tokenCache)
          /\ \A k \in Keys(tokenCache) :
               /\ tokenCache'.entry[k].value = tokenCache.entry[k].value
               /\ tokenCache'.entry[k].expiresAt = tokenCache.entry[k].expiresAt
      BY <1>1, <2>1, HitEffect
    <2>3. \A k \in Keys(tokenCache') : Cached(k)'
      BY <2>1, <2>2 DEF KInv, Cached, Issued
    <2> QED  BY <2>1, <2>2, <2>3 DEF KInv, IndexIsOfUser, Issued
  <1>3. CASE now < grant[t].accessExp /\ SetTokenValidation(t, u, grant[t].accessExp - now)
    <2> DEFINE ttl == grant[t].accessExp - now
    <2>1. ttl \in Nat \ {0} /\ now + ttl = grant[t].accessExp
      BY <1>1, <1>3
    <2>2. tokenCache' = AfterSet(tokenCache, t, u, ttl, now, TokenMaxSize)
      BY <1>3 DEF SetTokenValidation
    <2>3. userToTokenHashes' = [userToTokenHashes EXCEPT ![u] = @ \cup {t}]
      BY <1>3 DEF SetTokenValidation
    <2> HIDE DEF ttl, u
    <2>4. /\ CInv(tokenCache', now) /\ Keys(tokenCache') \subseteq Keys(tokenCache) \cup {t}
          /\ tokenCache'.entry[t].value = u /\ tokenCache'.entry[t].expiresAt = now + ttl
          /\ \A k \in Keys(tokenCache') \ {t} : tokenCache'.entry[k] = tokenCache.entry[k]
      BY <1>1, <2>1, <2>2, SetEffect
    <2>5. userToTokenHashes' \in [Users -> SUBSET Tokens] /\ t \in userToTokenHashes'[u]
      BY <1>1, <2>3
    <2>6. ASSUME NEW k \in Keys(tokenCache') PROVE Cached(k)'
      <3>1. CASE k = t
        BY <2>1, <2>4, <2>5, <3>1 DEF Cached, Issued, u
      <3>2. CASE k # t
        <4>1. Cached(k) /\ k \in Tokens /\ tokenCache'.entry[k] = tokenCache.entry[k]
          BY <2>4, <3>2 DEF KInv, CInv
        <4>2. grant[k].user \in Users
          BY <4>1, IssuedType DEF Cached
        <4> QED  BY <1>1, <2>3, <4>1, <4>2 DEF Cached, Issued
      <3> QED  BY <3>1, <3>2
    <2>7. IndexIsOfUser'
      BY <1>1, <2>3 DEF KInv, IndexIsOfUser, Issued, u
    <2> QED  BY <2>4, <2>5, <2>6, <2>7 DEF KInv
  <1>4. CASE MissTokenValidation(t)
    <2>1. tokenCache' = Without(tokenCache, {t}) /\ UNCHANGED userToTokenHashes
      BY <1>4, MissEffect DEF MissTokenValidation
    <2> QED  BY <1>1, <2>1, ForgettingKeepsKInv
  <1> QED  BY <1>2, <1>3, <1>4 DEF Validate

LEMMA InvalidateAllKeepsKInv ==
    ASSUME GInv, KInv, NEW u \in Users, InvalidateAllTokensForUser(u), UNCHANGED <<now, grant>>
    PROVE  KInv'
  <1>1. /\ tokenCache' = Without(tokenCache, userToTokenHashes[u])
        /\ userToTokenHashes' = [userToTokenHashes EXCEPT ![u] = {}]
        /\ userToTokenHashes \in [Users -> SUBSET Tokens]
    BY DEF InvalidateAllTokensForUser, KInv
  <1>2. userToTokenHashes' \in [Users -> SUBSET Tokens]
    BY <1>1
  <1>3. \A v \in Users : /\ userToTokenHashes'[v] \subseteq userToTokenHashes[v]
                         /\ \A t \in Keys(tokenCache) \ userToTokenHashes[u] :
                              t \in userToTokenHashes[v] => t \in userToTokenHashes'[v]
    BY <1>1
  <1> QED  BY <1>1, <1>2, <1>3, ForgettingKeepsKInv

LEMMA CacheCallsKeepKInv ==
    ASSUME GInv, KInv, CacheCalls
    PROVE  KInv'
  <1>0. UNCHANGED <<now, grant>> /\ userToTokenHashes \in [Users -> SUBSET Tokens]
    BY DEF CacheCalls, authVars, KInv
  <1>1. CASE \E u \in Users : InvalidateAllTokensForUser(u)
    BY <1>0, <1>1, InvalidateAllKeepsKInv
  <1>2. ASSUME NEW t \in Tokens, InvalidateToken(t) PROVE KInv'
    <2>1. tokenCache' = Without(tokenCache, {t})
      BY <1>2 DEF InvalidateToken
    <2>2. \/ \E u : userToTokenHashes' = [userToTokenHashes EXCEPT ![u] = @ \ {t}]
          \/ UNCHANGED userToTokenHashes
      BY <1>2 DEF InvalidateToken
    <2>3. /\ userToTokenHashes' \in [Users -> SUBSET Tokens]
          /\ \A u \in Users : /\ userToTokenHashes'[u] \subseteq userToTokenHashes[u]
                              /\ \A k \in Keys(tokenCache) \ {t} :
                                   k \in userToTokenHashes[u] => k \in userToTokenHashes'[u]
      BY <1>0, <2>2
    <2> QED  BY <1>0, <2>1, <2>3, ForgettingKeepsKInv
  <1>3. CASE Prune
    <2> DEFINE gone == {k \in Keys(tokenCache) : IsExpired(tokenCache.entry[k], now)}
    <2>1. tokenCache' = Without(tokenCache, gone) /\ Keys(tokenCache') = Keys(tokenCache) \ gone
      BY <1>3, WithoutEffect DEF Prune, AfterPrune
    <2>2. userToTokenHashes' = [u \in Users |-> userToTokenHashes[u] \cap Keys(tokenCache')]
      BY <1>3 DEF Prune
    <2> HIDE DEF gone
    <2>3. /\ userToTokenHashes' \in [Users -> SUBSET Tokens]
          /\ \A u \in Users : /\ userToTokenHashes'[u] \subseteq userToTokenHashes[u]
                              /\ \A k \in Keys(tokenCache) \ gone :
                                   k \in userToTokenHashes[u] => k \in userToTokenHashes'[u]
      BY <1>0, <2>1, <2>2
    <2> QED  BY <1>0, <2>1, <2>3, ForgettingKeepsKInv
  <1>4. CASE ClearAll
    <2>1. tokenCache' = EmptyCache /\ userToTokenHashes' = [u \in Users |-> {}]
      BY <1>4 DEF ClearAll
    <2>2. now \in Nat
      BY TokenCacheAssumption DEF GInv
    <2>3. CInv(tokenCache', now') /\ Keys(tokenCache') = {}
      BY <1>0, <2>1, <2>2, EmptyCacheInv DEF EmptyCache, Keys
    <2> QED  BY <2>1, <2>3 DEF KInv, IndexIsOfUser
  <1> QED  BY <1>1, <1>2, <1>3, <1>4 DEF CacheCalls

-----------------------------------------------------------------------------
(* Refresh tokens.                                                           *)

Waits ==
    {Idle}
      \cup [phase : {"check", "user"}, token : Tokens, late : BOOLEAN]
      \cup [phase : {"revoke"}, token : Tokens, kind : {"refresh", "logout"}]
      \cup [phase : {"store"}, token : Tokens]

IsStore(s) == s \in [Places -> [Tokens -> Times]]
IsLeft(l) == l \in [Tokens -> SUBSET Places]

\* A token that has not reached its client is stored nowhere; one that lives is
\* stored, until it expires, exactly where it was stored and not revoked since.
TokenInv(t) ==
    /\ ~Delivered(t) => left[t] = {} /\ \A p \in Places : stored[p][t] = Absent
    /\ Live(t) => \A p \in Places : IF p \in left[t] THEN stored[p][t] >= grant[t].refreshExp
                                                     ELSE stored[p][t] = Absent

\* A request works on a token that its client has, or stores one that no other
\* request stores; one that came late finds nothing.
RequestInv(r) ==
    /\ request[r].phase \in {"check", "user", "revoke"} => Delivered(request[r].token)
    /\ request[r].phase = "store" =>
         Issued(request[r].token) /\ \A q \in Requests : request[q] = request[r] => q = r
    /\ request[r].phase = "check" /\ request[r].late =>
         \A p \in Places : stored[p][request[r].token] = Absent
    /\ request[r].phase = "user" => ~request[r].late

RInv ==
    /\ IsStore(stored) /\ IsLeft(left) /\ request \in [Requests -> Waits]
    /\ \A t \in Tokens : TokenInv(t)
    /\ \A r \in Requests : RequestInv(r)

LEMMA KeepEffect ==
    ASSUME NEW s, IsStore(s), NEW t \in Tokens, NEW places \in SUBSET Places, NEW expiry \in Times
    PROVE  /\ IsStore(Keep(s, t, places, expiry))
           /\ \A p \in Places, k \in Tokens :
                Keep(s, t, places, expiry)[p][k] = IF p \in places /\ k = t THEN expiry ELSE s[p][k]
  BY DEF Keep, IsStore

LEMMA DropEffect ==
    ASSUME NEW s, IsStore(s), NEW t \in Tokens, NEW places \in SUBSET Places
    PROVE  /\ IsStore(Drop(s, t, places))
           /\ \A p \in Places, k \in Tokens :
                Drop(s, t, places)[p][k] = IF p \in places /\ k = t THEN Absent ELSE s[p][k]
  <1>1. Absent \in Times
    BY TokenCacheAssumption, AuthAssumption DEF Absent, Times
  <1> QED  BY <1>1, KeepEffect DEF Drop

\* Tokens leave stores, either with their history or after their life.
Shrunk(s, l) ==
    /\ IsStore(s) /\ IsLeft(l)
    /\ \A t \in Tokens : l[t] \subseteq left[t]
    /\ \A t \in Tokens, p \in Places :
         \/ s[p][t] = stored[p][t] /\ (p \in l[t] <=> p \in left[t])
         \/ s[p][t] = Absent /\ (p \notin l[t] \/ ~Live(t))

LEMMA SameIsShrunk == RInv => Shrunk(stored, left)
  BY DEF RInv, Shrunk

LEMMA RevokedIsShrunk ==
    ASSUME RInv, NEW t \in Tokens, NEW places \in SUBSET Places
    PROVE  Shrunk(Drop(stored, t, places), [left EXCEPT ![t] = @ \ places])
  <1>1. /\ IsStore(Drop(stored, t, places))
        /\ \A p \in Places, k \in Tokens :
             Drop(stored, t, places)[p][k] = IF p \in places /\ k = t THEN Absent ELSE stored[p][k]
    BY DropEffect DEF RInv
  <1>2. IsLeft([left EXCEPT ![t] = @ \ places])
    BY DEF RInv, IsLeft
  <1>3. \A k \in Tokens : [left EXCEPT ![t] = @ \ places][k] = IF k = t THEN left[t] \ places ELSE left[k]
    BY DEF RInv, IsLeft
  <1> QED  BY <1>1, <1>2, <1>3 DEF Shrunk

LEMMA DeliveredStays ==
    ASSUME NEW r \in Requests, NEW new, request \in [Requests -> Waits],
           request' = [request EXCEPT ![r] = new], UNCHANGED grant,
           request[r].phase # "store", new.phase # "store"
    PROVE  \A t \in Tokens : Delivered(t)' <=> Delivered(t)
  <1> SUFFICES ASSUME NEW t \in Tokens PROVE Delivered(t)' <=> Delivered(t)
    OBVIOUS
  <1>1. request[r] # [phase |-> "store", token |-> t] /\ new # [phase |-> "store", token |-> t]
    OBVIOUS
  <1>2. \A q \in Requests : request'[q] = IF q = r THEN new ELSE request[q]
    OBVIOUS
  <1> QED  BY <1>1, <1>2 DEF Delivered

\* A request goes on without a new pair.
LEMMA GoingOnKeepsRInv ==
    ASSUME GInv, RInv, NEW r \in Requests, NEW new \in Waits,
           request' = [request EXCEPT ![r] = new], UNCHANGED <<now, grant>>,
           request[r].phase # "store", new.phase # "store",
           Shrunk(stored', left'),
           new.phase \in {"check", "user", "revoke"} => Delivered(new.token),
           new.phase = "check" /\ new.late => \A p \in Places : stored'[p][new.token] = Absent,
           new.phase = "user" => ~new.late
    PROVE  RInv'
  <1>1. request \in [Requests -> Waits] /\ request' \in [Requests -> Waits]
    BY DEF RInv
  <1>2. \A t \in Tokens : (Delivered(t)' <=> Delivered(t)) /\ (Live(t)' <=> Live(t))
    BY <1>1, DeliveredStays DEF Live
  <1>3. ASSUME NEW t \in Tokens PROVE TokenInv(t)'
    BY <1>2 DEF RInv, TokenInv, Shrunk
  <1>4. ASSUME NEW q \in Requests PROVE RequestInv(q)'
    <2>1. CASE q = r
      BY <1>1, <1>2, <2>1 DEF RequestInv, Waits, Idle
    <2>2. CASE q # r
      <3>1. request'[q] = request[q] /\ RequestInv(q) /\ request[q] \in Waits
        BY <1>1, <2>2 DEF RInv
      <3>2. request[q].phase # "idle" => request[q].token \in Tokens
        BY <3>1 DEF Waits, Idle
      <3>3. request[q].phase = "check" /\ request[q].late =>
              \A p \in Places : stored'[p][request[q].token] = Absent
        BY <3>1, <3>2 DEF RequestInv, Shrunk
      <3>4. request[q].phase = "store" => \A o \in Requests : request'[o] = request[q] => o = q
        BY <1>1, <3>1 DEF RequestInv
      <3> QED  BY <1>2, <3>1, <3>2, <3>3, <3>4 DEF RequestInv, Issued
    <2> QED  BY <2>1, <2>2
  <1> QED  BY <1>1, <1>3, <1>4 DEF RInv, Shrunk

LEMMA RefreshExpType ==
    ASSUME GInv
    PROVE  /\ now \in Nat /\ now + RefreshTtl \in Times /\ now + AccessTtl \in Times
           /\ now + AccessTtl > 0 /\ now + RefreshTtl > 0
  BY TokenCacheAssumption, AuthAssumption DEF GInv, Times

\* A new pair is issued, of tokens nobody has seen.
LEMMA IssuingKeepsInv ==
    ASSUME GInv, RInv, NEW r \in Requests, NEW u \in Users, NEW s, NEW l,
           request[r].phase # "store", Shrunk(s, l),
           GenerateTokens(r, u, s, l), UNCHANGED now
    PROVE  GInv' /\ RInv' /\ \A t \in Tokens : Issued(t) => grant'[t] = grant[t]
  <1> DEFINE pair == [user |-> u, accessExp |-> now + AccessTtl, refreshExp |-> now + RefreshTtl]
  <1>1. PICK t \in Tokens :
          /\ ~Issued(t) /\ grant' = [grant EXCEPT ![t] = pair]
          /\ \/ /\ request' = [request EXCEPT ![r] = [phase |-> "store", token |-> t]]
                /\ stored' = s /\ left' = l
             \/ /\ request' = [request EXCEPT ![r] = Idle]
                /\ stored' = Keep(s, t, {"memory"}, now + RefreshTtl)
                /\ left' = [l EXCEPT ![t] = {"memory"}]
    BY DEF GenerateTokens, Await, Answer, Issued
  <1>2. pair \in Grants /\ pair # NotIssued
    BY RefreshExpType DEF Grants, NotIssued
  <1>3. GInv'
    <2>1. grant' \in [Tokens -> {NotIssued} \cup Grants]
      BY <1>1, <1>2 DEF GInv
    <2>2. ASSUME NEW k \in Tokens, Issued(k)'
          PROVE  /\ grant'[k].accessExp > 0 /\ grant'[k].accessExp <= now + AccessTtl
                 /\ grant'[k].refreshExp <= now + RefreshTtl
      <3>1. CASE k = t
        <4>1. grant'[k] = pair
          BY <1>1, <3>1 DEF GInv
        <4> QED  BY <4>1, RefreshExpType, AuthAssumption
      <3>2. CASE k # t
        BY <1>1, <2>2, <3>2 DEF GInv, Issued
      <3> QED  BY <3>1, <3>2
    <2> QED  BY <2>1, <2>2 DEF GInv
  <1>4. \A k \in Tokens : Issued(k) => grant'[k] = grant[k]
    BY <1>1 DEF GInv
  <1>5. ~Delivered(t) /\ left[t] = {} /\ \A p \in Places : stored[p][t] = Absent
    BY <1>1 DEF RInv, TokenInv, Delivered, Issued
  <1>6. l[t] = {} /\ \A p \in Places : s[p][t] = Absent
    BY <1>5 DEF Shrunk
  <1>7. \A q \in Requests : request[q].phase # "idle" => request[q].token # t
    <2> SUFFICES ASSUME NEW q \in Requests, request[q].phase # "idle", request[q].token = t PROVE FALSE
      OBVIOUS
    <2>1. request[q] \in Waits /\ RequestInv(q)
      BY DEF RInv
    <2> QED  BY <1>1, <1>5, <2>1 DEF RequestInv, Waits, Idle
  <1>8. request \in [Requests -> Waits] /\ request[r] \in Waits
    BY DEF RInv
  <1>9. request' \in [Requests -> Waits] /\ request'[r].phase \in {"idle", "store"}
    BY <1>1, <1>8 DEF Waits, Idle
  <1>10. ASSUME NEW k \in Tokens, k # t
         PROVE  (Delivered(k)' <=> Delivered(k)) /\ (Live(k)' <=> Live(k)) /\ grant'[k] = grant[k]
    <2>1. grant'[k] = grant[k]
      BY <1>1, <1>10 DEF GInv
    <2>2. \A q \in Requests : request'[q] = [phase |-> "store", token |-> k] <=>
                                request[q] = [phase |-> "store", token |-> k]
      BY <1>1, <1>8, <1>10 DEF Idle
    <2> QED  BY <2>1, <2>2 DEF Delivered, Live
  <1>11. /\ IsStore(stored') /\ IsLeft(left')
         /\ \A k \in Tokens \ {t} : left'[k] = l[k] /\ \A p \in Places : stored'[p][k] = s[p][k]
    <2>1. CASE stored' = s /\ left' = l
      BY <2>1 DEF Shrunk
    <2>2. CASE /\ stored' = Keep(s, t, {"memory"}, now + RefreshTtl)
               /\ left' = [l EXCEPT ![t] = {"memory"}]
      <3>1. {"memory"} \in SUBSET Places
        BY DEF Places
      <3>2. IsStore(stored') /\ \A p \in Places, k \in Tokens :
              stored'[p][k] = IF p \in {"memory"} /\ k = t THEN now + RefreshTtl ELSE s[p][k]
        BY <2>2, <3>1, RefreshExpType, KeepEffect DEF Shrunk
      <3>3. IsLeft(left') /\ \A k \in Tokens \ {t} : left'[k] = l[k]
        BY <2>2, <3>1 DEF Shrunk, IsLeft
      <3> QED  BY <3>2, <3>3
    <2> QED  BY <1>1, <2>1, <2>2
  <1>12. ASSUME NEW k \in Tokens PROVE TokenInv(k)'
    <2>1. CASE k # t
      <3>1. TokenInv(k)
        BY DEF RInv
      <3> QED  BY <1>10, <1>11, <2>1, <3>1 DEF TokenInv, Shrunk
    <2>2. CASE k = t /\ request' = [request EXCEPT ![r] = [phase |-> "store", token |-> t]]
                     /\ stored' = s /\ left' = l
      <3>1. ~Delivered(t)'
        BY <1>8, <2>2 DEF Delivered
      <3> QED  BY <1>6, <2>2, <3>1 DEF TokenInv
    <2>3. CASE /\ k = t /\ request' = [request EXCEPT ![r] = Idle]
               /\ stored' = Keep(s, t, {"memory"}, now + RefreshTtl)
               /\ left' = [l EXCEPT ![t] = {"memory"}]
      <3>1. \A q \in Requests : request'[q] # [phase |-> "store", token |-> t]
        BY <1>7, <1>8, <2>3 DEF Idle
      <3>2. grant'[t] = pair
        BY <1>1 DEF GInv
      <3>3. Delivered(t)'
        BY <1>2, <3>1, <3>2 DEF Delivered
      <3>4. left'[t] = {"memory"}
        BY <2>3 DEF Shrunk, IsLeft
      <3>5. stored'["memory"][t] = now + RefreshTtl /\ stored'["redis"][t] = Absent
        <4>1. {"memory"} \in SUBSET Places /\ "memory" \in Places /\ "redis" \in Places
          BY DEF Places
        <4>2. \A p \in Places : stored'[p][t] = IF p \in {"memory"} THEN now + RefreshTtl ELSE s[p][t]
          BY <2>3, <4>1, RefreshExpType, KeepEffect DEF Shrunk
        <4> QED  BY <1>6, <4>1, <4>2
      <3>6. grant'[t].refreshExp = now + RefreshTtl /\ now + RefreshTtl \in Nat
        BY <3>2, AuthAssumption, RefreshExpType
      <3> QED  BY <2>3, <3>3, <3>4, <3>5, <3>6 DEF TokenInv, Places
    <2> QED  BY <1>1, <2>1, <2>2, <2>3
  <1>13. ASSUME NEW q \in Requests PROVE RequestInv(q)'
    <2>1. CASE q = r
      <3>1. request'[r] = Idle \/ request'[r] = [phase |-> "store", token |-> t]
        BY <1>1, <1>8
      <3>2. CASE request'[r] = Idle
        BY <2>1, <3>2 DEF RequestInv, Idle
      <3>3. CASE request'[r] = [phase |-> "store", token |-> t]
        <4>1. Issued(t)'
          BY <1>1, <1>2 DEF GInv, Issued
        <4>2. \A o \in Requests : request'[o] = request'[r] => o = r
          BY <1>1, <1>7, <1>8, <3>3
        <4> QED  BY <2>1, <3>3, <4>1, <4>2 DEF RequestInv
      <3> QED  BY <3>1, <3>2, <3>3
    <2>2. CASE q # r
      <3>1. request'[q] = request[q] /\ RequestInv(q) /\ request[q] \in Waits
        BY <1>1, <1>8, <2>2 DEF RInv
      <3>2. request[q].phase # "idle" => request[q].token \in Tokens \ {t}
        BY <1>7, <3>1 DEF Waits, Idle
      <3>3. request[q].phase = "check" /\ request[q].late =>
              \A p \in Places : stored'[p][request[q].token] = Absent
        BY <1>11, <3>1, <3>2 DEF RequestInv, Shrunk
      <3>4. request[q].phase = "store" => \A o \in Requests : request'[o] = request[q] => o = q
        <4> SUFFICES ASSUME request[q].phase = "store", NEW o \in Requests, request'[o] = request[q] PROVE o = q
          OBVIOUS
        <4>1. o # r
          BY <1>1, <1>8, <3>2 DEF Idle
        <4>2. request'[o] = request[o]
          BY <1>1, <1>8, <4>1
        <4> QED  BY <3>1, <4>2 DEF RequestInv
      <3>5. request[q].phase = "store" => Issued(request[q].token)'
        BY <1>4, <3>1, <3>2 DEF RequestInv, Issued
      <3>6. request[q].phase \in {"check", "user", "revoke"} => Delivered(request[q].token)'
        BY <1>10, <3>1, <3>2 DEF RequestInv
      <3> QED  BY <3>1, <3>3, <3>4, <3>5, <3>6 DEF RequestInv
    <2> QED  BY <2>1, <2>2
  <1>14. RInv'
    BY <1>9, <1>11, <1>12, <1>13 DEF RInv
  <1> QED  BY <1>3, <1>4, <1>14

LEMMA RepliesType == \A places \in Replies : places \in SUBSET Places
  BY DEF Replies, Places

\* The pair that is stored reaches its client.
LEMMA StoreRepliesKeepsRInv == ASSUME GInv, RInv, NEW r \in Requests, StoreReplies(r) PROVE RInv'
  <1>1. request[r] \in Waits /\ request \in [Requests -> Waits] /\ RequestInv(r) /\ IsStore(stored) /\ IsLeft(left)
    BY DEF RInv
  <1>2. request[r].phase = "store" /\ UNCHANGED <<now, grant>>
    BY DEF StoreReplies
  <1>3. PICK t \in Tokens : request[r] = [phase |-> "store", token |-> t]
    BY <1>1, <1>2 DEF Waits, Idle
  <1>4. Issued(t) /\ \A q \in Requests : request[q] = request[r] => q = r
    BY <1>1, <1>2, <1>3 DEF RequestInv
  <1>5. ~Delivered(t)
    BY <1>3 DEF Delivered
  <1>6. \A p \in Places : stored[p][t] = Absent
    BY <1>3, <1>5 DEF RInv, TokenInv
  <1>7. PICK places \in Replies :
          /\ stored' = [Keep(stored, t, places, RedisExpiry(t)) EXCEPT !["memory"][t] =
                          IF "memory" \in places THEN grant[t].refreshExp ELSE @]
          /\ left' = [left EXCEPT ![t] = places]
    <2>1. request[r].token = t
      BY <1>3
    <2> QED  BY <2>1 DEF StoreReplies
  <1>8. request' = [request EXCEPT ![r] = Idle]
    BY DEF StoreReplies, Answer
  <1>9. places \in SUBSET Places /\ RedisExpiry(t) \in Times /\ RedisExpiry(t) = now + RefreshTtl
    BY RepliesType, RefreshExpType DEF RedisExpiry
  <1>10. grant[t] \in Grants /\ grant[t].refreshExp \in Times
    BY <1>3, <1>4 DEF GInv, Issued, Grants
  <1> DEFINE kept == Keep(stored, t, places, RedisExpiry(t))
  <1>11. /\ IsStore(kept)
         /\ \A p \in Places, k \in Tokens :
              kept[p][k] = IF p \in places /\ k = t THEN RedisExpiry(t) ELSE stored[p][k]
    BY <1>1, <1>3, <1>9, KeepEffect
  <1>12. stored' = [kept EXCEPT !["memory"][t] =
                      IF "memory" \in places THEN grant[t].refreshExp ELSE kept["memory"][t]]
    BY <1>7
  <1> HIDE DEF kept
  <1>13. /\ IsStore(stored')
         /\ \A p \in Places, k \in Tokens \ {t} : stored'[p][k] = stored[p][k]
         /\ \A p \in Places : stored'[p][t] =
              IF p \in places THEN (IF p = "memory" THEN grant[t].refreshExp ELSE RedisExpiry(t)) ELSE Absent
    <2>1. "memory" \in Places /\ kept["memory"][t] \in Times
      BY <1>3, <1>11 DEF Places, IsStore
    <2>2. IsStore(stored')
      BY <1>10, <1>11, <1>12, <2>1 DEF IsStore
    <2>3. \A p \in Places, k \in Tokens : stored'[p][k] =
            IF p = "memory" /\ k = t
            THEN (IF "memory" \in places THEN grant[t].refreshExp ELSE kept["memory"][t]) ELSE kept[p][k]
      BY <1>3, <1>11, <1>12, <2>1 DEF IsStore
    <2> QED  BY <1>3, <1>6, <1>11, <2>1, <2>2, <2>3
  <1>14. IsLeft(left') /\ left'[t] = places /\ \A k \in Tokens \ {t} : left'[k] = left[k]
    BY <1>1, <1>3, <1>7, <1>9 DEF IsLeft
  <1>15. request' \in [Requests -> Waits] /\ request'[r] = Idle /\ \A q \in Requests \ {r} : request'[q] = request[q]
    BY <1>1, <1>8 DEF Waits
  <1>16. Delivered(t)' /\ \A k \in Tokens \ {t} : Delivered(k)' <=> Delivered(k)
    <2>1. \A q \in Requests : request'[q] # [phase |-> "store", token |-> t]
      BY <1>3, <1>4, <1>15 DEF Idle
    <2>2. ASSUME NEW k \in Tokens \ {t}, NEW q \in Requests
          PROVE  request'[q] = [phase |-> "store", token |-> k] <=> request[q] = [phase |-> "store", token |-> k]
      BY <1>3, <1>15 DEF Idle
    <2>3. Delivered(t)'
      BY <1>2, <1>4, <2>1 DEF Delivered, Issued
    <2>4. ASSUME NEW k \in Tokens \ {t} PROVE Delivered(k)' <=> Delivered(k)
      BY <1>2, <2>2 DEF Delivered
    <2> QED  BY <2>3, <2>4
  <1>17. ASSUME NEW k \in Tokens PROVE TokenInv(k)'
    <2>1. CASE k = t
      <3>1. grant[t].refreshExp <= RedisExpiry(t) /\ grant[t].refreshExp \in Nat
        BY <1>3, <1>4, <1>9, IssuedType DEF GInv
      <3>2. ASSUME NEW p \in Places
            PROVE  IF p \in left'[t] THEN stored'[p][t] >= grant'[t].refreshExp ELSE stored'[p][t] = Absent
        <4>1. grant'[t].refreshExp = grant[t].refreshExp /\ left'[t] = places
          BY <1>2, <1>14
        <4>2. RedisExpiry(t) \in Nat
          BY <1>9, RefreshExpType, AuthAssumption
        <4> HIDE DEF kept
        <4> QED  BY <1>13, <3>1, <4>1, <4>2
      <3> QED  BY <1>16, <2>1, <3>2 DEF TokenInv
    <2>2. CASE k # t
      <3>1. TokenInv(k)
        BY DEF RInv
      <3> QED  BY <1>2, <1>13, <1>14, <1>16, <2>2, <3>1 DEF TokenInv, Live
    <2> QED  BY <2>1, <2>2
  <1>18. ASSUME NEW q \in Requests PROVE RequestInv(q)'
    <2>1. CASE q = r
      BY <1>15, <2>1 DEF RequestInv, Idle
    <2>2. CASE q # r
      <3>1. request'[q] = request[q] /\ RequestInv(q) /\ request[q] \in Waits
        BY <1>1, <1>15, <2>2 DEF RInv
      <3>2. request[q].phase # "idle" => request[q].token \in Tokens
        BY <3>1 DEF Waits, Idle
      <3>3. request[q].phase \in {"check", "user", "revoke"} => request[q].token # t
        BY <1>5, <3>1 DEF RequestInv
      <3>4. request[q].phase = "store" => \A o \in Requests : request'[o] = request[q] => o = q
        <4> SUFFICES ASSUME request[q].phase = "store", NEW o \in Requests, request'[o] = request[q] PROVE o = q
          OBVIOUS
        <4>1. o # r /\ request'[o] = request[o]
          BY <1>15 DEF Idle
        <4> QED  BY <3>1, <4>1 DEF RequestInv
      <3>5. request[q].phase = "check" /\ request[q].late =>
              \A p \in Places : stored'[p][request[q].token] = Absent
        BY <1>13, <3>1, <3>2, <3>3 DEF RequestInv
      <3> QED  BY <1>2, <1>16, <3>1, <3>2, <3>3, <3>4, <3>5 DEF RequestInv, Issued
    <2> QED  BY <2>1, <2>2
  <1> QED  BY <1>13, <1>14, <1>15, <1>17, <1>18 DEF RInv

\* A refresh that checks the Map goes on, or drops what has expired.
LEMMA CheckMemoryKeepsRInv ==
    ASSUME GInv, RInv, NEW r \in Requests, NEW t \in Tokens, Delivered(t), NEW late \in BOOLEAN,
           late => \A p \in Places : stored[p][t] = Absent,
           request[r].phase # "store", CheckMemory(r, t, late), UNCHANGED <<now, grant, left>>
    PROVE  RInv'
  <1>1. CASE stored["memory"][t] # Absent /\ FindUser(r, t, late) /\ UNCHANGED stored
    <2> DEFINE new == [phase |-> "user", token |-> t, late |-> late]
    <2>1. new \in Waits /\ new.phase = "user" /\ new.token = t /\ new.late = late /\ ~late
      BY <1>1 DEF Waits, Places
    <2>2. request' = [request EXCEPT ![r] = new] /\ Shrunk(stored', left')
      BY <1>1, SameIsShrunk DEF FindUser, Await
    <2> HIDE DEF new
    <2> QED  BY <2>1, <2>2, GoingOnKeepsRInv
  <1>2. CASE /\ stored["memory"][t] < now \/ stored["memory"][t] = Absent
             /\ Answer(r)
             /\ stored' = Drop(stored, t, {"memory"})
    <2>1. Idle \in Waits /\ Idle.phase = "idle" /\ request' = [request EXCEPT ![r] = Idle]
      BY <1>2 DEF Waits, Idle, Answer
    <2>2. {"memory"} \in SUBSET Places /\ "memory" \in Places
      BY DEF Places
    <2>3. /\ IsStore(stored')
          /\ \A p \in Places, k \in Tokens :
               stored'[p][k] = IF p \in {"memory"} /\ k = t THEN Absent ELSE stored[p][k]
      BY <1>2, <2>2, DropEffect DEF RInv
    <2>4. "memory" \in left[t] => ~Live(t)
      <3> SUFFICES ASSUME "memory" \in left[t], Live(t) PROVE FALSE
        OBVIOUS
      <3>1. stored["memory"][t] >= grant[t].refreshExp /\ now < grant[t].refreshExp
        BY <2>2 DEF RInv, TokenInv, Live
      <3>2. stored["memory"][t] \in Nat /\ grant[t].refreshExp \in Nat /\ now \in Nat
        BY <2>2, IssuedType, TokenCacheAssumption, AuthAssumption DEF RInv, IsStore, Times, Live, Issued
      <3> QED  BY <1>2, <3>1, <3>2 DEF Absent
    <2>5. Shrunk(stored', left')
      BY <2>3, <2>4 DEF Shrunk, RInv
    <2> QED  BY <2>1, <2>5, GoingOnKeepsRInv
  <1> QED  BY <1>1, <1>2 DEF CheckMemory

-----------------------------------------------------------------------------
(* The whole of it.                                                          *)

IInv == GInv /\ KInv /\ RInv

LEMMA InitInv == Init => IInv
  <1> SUFFICES ASSUME Init PROVE IInv
    OBVIOUS
  <1>1. GInv
    BY TokenCacheAssumption DEF Init, CacheInit, GInv, Issued
  <1>2. KInv
    <2>1. CInv(tokenCache, now) /\ Keys(tokenCache) = {}
      BY EmptyCacheInv DEF Init, CacheInit, EmptyCache, Keys
    <2> QED  BY <2>1 DEF Init, CacheInit, KInv, IndexIsOfUser
  <1>3. RInv
    <2>1. Absent \in Times
      BY TokenCacheAssumption, AuthAssumption DEF Absent, Times
    <2>2. IsStore(stored) /\ IsLeft(left) /\ request \in [Requests -> Waits]
      BY <2>1 DEF Init, IsStore, IsLeft, Waits
    <2>3. ASSUME NEW t \in Tokens PROVE TokenInv(t)
      BY DEF Init, TokenInv, Live
    <2>4. ASSUME NEW r \in Requests PROVE RequestInv(r)
      BY DEF Init, RequestInv, Idle
    <2> QED  BY <2>2, <2>3, <2>4 DEF RInv
  <1> QED  BY <1>1, <1>2, <1>3 DEF IInv

LEMMA GrantStays == GInv /\ UNCHANGED <<now, grant>> => GInv'
  BY DEF GInv, Issued

LEMMA CacheStays == GInv /\ KInv /\ UNCHANGED <<now, cacheVars, grant>> => KInv'
  BY IssuingKeepsKInv

LEMMA LoginKeepsInv ==
    ASSUME IInv, NEW r \in Requests, NEW u \in Users, Login(r, u) PROVE IInv'
  <1>1. GenerateTokens(r, u, stored, left) /\ UNCHANGED <<now, cacheVars>> /\ request[r].phase # "store"
    BY DEF Login, Idle
  <1>2. GInv' /\ RInv' /\ \A t \in Tokens : Issued(t) => grant'[t] = grant[t]
    BY <1>1, SameIsShrunk, IssuingKeepsInv DEF IInv
  <1>3. KInv'
    BY <1>1, <1>2, IssuingKeepsKInv DEF IInv
  <1> QED  BY <1>2, <1>3 DEF IInv

LEMMA RefreshTokenKeepsInv ==
    ASSUME IInv, NEW r \in Requests, NEW t \in Tokens, RefreshToken(r, t) PROVE IInv'
  <1>1. /\ request[r].phase # "store" /\ Delivered(t) /\ Live(t)
        /\ UNCHANGED <<now, cacheVars, grant, left>>
    BY DEF RefreshToken, Idle, Verified
  <1>2. PICK late \in BOOLEAN :
          /\ late => left[t] = {}
          /\ \/ Await(r, [phase |-> "check", token |-> t, late |-> late]) /\ UNCHANGED stored
             \/ CheckMemory(r, t, late)
    BY DEF RefreshToken
  <1>3. late => \A p \in Places : stored[p][t] = Absent
    BY <1>1, <1>2 DEF IInv, RInv, TokenInv
  <1>4. CASE Await(r, [phase |-> "check", token |-> t, late |-> late]) /\ UNCHANGED stored
    <2> DEFINE new == [phase |-> "check", token |-> t, late |-> late]
    <2>1. new \in Waits /\ new.phase = "check" /\ new.token = t /\ new.late = late
      BY DEF Waits
    <2>2. request' = [request EXCEPT ![r] = new] /\ Shrunk(stored', left') /\ stored' = stored
      BY <1>1, <1>4, SameIsShrunk DEF Await, IInv
    <2> HIDE DEF new
    <2>3. RInv'
      BY <1>1, <1>3, <2>1, <2>2, GoingOnKeepsRInv DEF IInv
    <2> QED  BY <1>1, <2>3, GrantStays, CacheStays DEF IInv
  <1>5. CASE CheckMemory(r, t, late)
    <2>1. RInv'
      BY <1>1, <1>3, <1>5, CheckMemoryKeepsRInv DEF IInv
    <2> QED  BY <1>1, <2>1, GrantStays, CacheStays DEF IInv
  <1> QED  BY <1>2, <1>4, <1>5

\* What a request that awaits carries.
LEMMA WaitType ==
    ASSUME RInv, NEW r \in Requests, request[r].phase \in {"check", "user", "revoke"}
    PROVE  /\ request[r].token \in Tokens /\ Delivered(request[r].token)
           /\ request[r].phase # "revoke" => request[r].late \in BOOLEAN
           /\ request[r].phase = "revoke" => request[r].kind \in {"refresh", "logout"}
  <1>1. request[r] \in Waits /\ RequestInv(r)
    BY DEF RInv
  <1> QED  BY <1>1 DEF Waits, Idle, RequestInv

LEMMA CheckRepliesKeepsInv ==
    ASSUME IInv, NEW r \in Requests, CheckReplies(r) PROVE IInv'
  <1>1. /\ request[r].phase = "check" /\ UNCHANGED <<now, cacheVars, grant, left>>
    BY DEF CheckReplies
  <1>2. PICK t \in Tokens, late \in BOOLEAN : request[r].token = t /\ request[r].late = late /\ Delivered(t)
    BY <1>1, WaitType DEF IInv
  <1>3. late => \A p \in Places : stored[p][t] = Absent
    BY <1>1, <1>2 DEF IInv, RInv, RequestInv
  <1>4. CASE stored["redis"][t] # Absent /\ FindUser(r, t, late) /\ UNCHANGED stored
    <2> DEFINE new == [phase |-> "user", token |-> t, late |-> late]
    <2>1. new \in Waits /\ new.phase = "user" /\ new.token = t /\ new.late = late /\ ~late
      BY <1>3, <1>4 DEF Waits, Places
    <2>2. request' = [request EXCEPT ![r] = new] /\ Shrunk(stored', left')
      BY <1>1, <1>4, SameIsShrunk DEF FindUser, Await, IInv
    <2> HIDE DEF new
    <2>3. RInv'
      BY <1>1, <1>2, <2>1, <2>2, GoingOnKeepsRInv DEF IInv
    <2> QED  BY <1>1, <2>3, GrantStays, CacheStays DEF IInv
  <1>5. CASE Answer(r) /\ UNCHANGED stored
    <2>1. Idle \in Waits /\ Idle.phase = "idle" /\ request' = [request EXCEPT ![r] = Idle] /\ Shrunk(stored', left')
      BY <1>1, <1>5, SameIsShrunk DEF Waits, Idle, Answer, IInv
    <2>2. RInv'
      BY <1>1, <2>1, GoingOnKeepsRInv DEF IInv
    <2> QED  BY <1>1, <2>2, GrantStays, CacheStays DEF IInv
  <1>6. CASE CheckMemory(r, t, late)
    <2>1. RInv'
      BY <1>1, <1>2, <1>3, <1>6, CheckMemoryKeepsRInv DEF IInv
    <2> QED  BY <1>1, <2>1, GrantStays, CacheStays DEF IInv
  <1> QED  BY <1>2, <1>4, <1>5, <1>6 DEF CheckReplies

LEMMA RevokedKeepsInv ==
    ASSUME IInv, NEW r \in Requests, NEW t \in Tokens, Issued(t), request[r].phase # "store",
           NEW kind, NEW places \in SUBSET Places, Revoked(r, t, kind, places), UNCHANGED now
    PROVE  IInv'
  <1> DEFINE l == [left EXCEPT ![t] = @ \ places]
             s == Drop(stored, t, places)
  <1>1. Shrunk(s, l)
    BY RevokedIsShrunk DEF IInv
  <1>2. grant[t].user \in Users
    BY IssuedType DEF IInv
  <1>3. CASE kind = "refresh"
    <2>1. GenerateTokens(r, grant[t].user, s, l) /\ UNCHANGED cacheVars
      BY <1>3 DEF Revoked
    <2> HIDE DEF s, l
    <2>2. PICK u \in Users : u = grant[t].user
      BY <1>2
    <2>3. GenerateTokens(r, u, s, l)
      BY <2>1, <2>2
    <2>4. PICK s0, l0 : s0 = s /\ l0 = l
      OBVIOUS
    <2>5. GenerateTokens(r, u, s0, l0) /\ Shrunk(s0, l0)
      BY <1>1, <2>3, <2>4
    <2>6. GInv' /\ RInv' /\ \A k \in Tokens : Issued(k) => grant'[k] = grant[k]
      BY <2>5, IssuingKeepsInv DEF IInv
    <2>7. KInv'
      BY <2>1, <2>6, IssuingKeepsKInv DEF IInv
    <2> QED  BY <2>6, <2>7 DEF IInv
  <1>4. CASE kind # "refresh"
    <2>1. /\ stored' = s /\ left' = l /\ request' = [request EXCEPT ![r] = Idle]
          /\ InvalidateAllTokensForUser(grant[t].user) /\ UNCHANGED grant
      BY <1>4 DEF Revoked, Answer
    <2>2. Idle \in Waits /\ Idle.phase = "idle"
      BY DEF Waits, Idle
    <2>3. Shrunk(stored', left')
      BY <1>1, <2>1
    <2> HIDE DEF s, l
    <2>4. RInv'
      BY <2>1, <2>2, <2>3, GoingOnKeepsRInv DEF IInv
    <2>5. KInv'
      BY <1>2, <2>1, InvalidateAllKeepsKInv DEF IInv
    <2> QED  BY <2>1, <2>4, <2>5, GrantStays DEF IInv
  <1> QED  BY <1>3, <1>4

LEMMA RevokeKeepsInv ==
    ASSUME IInv, NEW r \in Requests, NEW t \in Tokens, Delivered(t), request[r].phase # "store",
           NEW kind \in {"refresh", "logout"}, Revoke(r, t, kind), UNCHANGED now
    PROVE  IInv'
  <1>1. CASE /\ Await(r, [phase |-> "revoke", token |-> t, kind |-> kind])
             /\ UNCHANGED <<cacheVars, grant, stored, left>>
    <2> DEFINE new == [phase |-> "revoke", token |-> t, kind |-> kind]
    <2>1. new \in Waits /\ new.phase = "revoke" /\ new.token = t
      BY DEF Waits
    <2>2. request' = [request EXCEPT ![r] = new] /\ Shrunk(stored', left')
      BY <1>1, SameIsShrunk DEF Await, IInv
    <2> HIDE DEF new
    <2>3. RInv'
      BY <1>1, <2>1, <2>2, GoingOnKeepsRInv DEF IInv
    <2> QED  BY <1>1, <2>3, GrantStays, CacheStays DEF IInv
  <1>2. CASE Revoked(r, t, kind, {"memory"})
    BY <1>2, RevokedKeepsInv DEF Places, Delivered, Issued
  <1> QED  BY <1>1, <1>2 DEF Revoke

LEMMA UserRepliesKeepsInv ==
    ASSUME IInv, NEW r \in Requests, UserReplies(r) PROVE IInv'
  <1>1. request[r].phase = "user" /\ request[r].phase # "store" /\ UNCHANGED now
    BY DEF UserReplies
  <1>2. PICK t \in Tokens : request[r].token = t /\ Delivered(t)
    BY <1>1, WaitType DEF IInv
  <1>3. CASE Revoke(r, t, "refresh")
    BY <1>1, <1>2, <1>3, RevokeKeepsInv
  <1>4. CASE Answer(r) /\ UNCHANGED <<cacheVars, grant, stored, left>>
    <2>1. Idle \in Waits /\ Idle.phase = "idle" /\ request' = [request EXCEPT ![r] = Idle] /\ Shrunk(stored', left')
      BY <1>4, SameIsShrunk DEF Waits, Idle, Answer, IInv
    <2>2. RInv'
      BY <1>1, <1>4, <2>1, GoingOnKeepsRInv DEF IInv
    <2> QED  BY <1>1, <1>4, <2>2, GrantStays, CacheStays DEF IInv
  <1> QED  BY <1>2, <1>3, <1>4 DEF UserReplies

LEMMA RevokeRepliesKeepsInv ==
    ASSUME IInv, NEW r \in Requests, RevokeReplies(r) PROVE IInv'
  <1>1. request[r].phase = "revoke" /\ request[r].phase # "store" /\ UNCHANGED now
    BY DEF RevokeReplies
  <1>2. PICK t \in Tokens, kind \in {"refresh", "logout"} :
          request[r].token = t /\ request[r].kind = kind /\ Delivered(t)
    BY <1>1, WaitType DEF IInv
  <1>3. PICK places \in Replies : Revoked(r, t, kind, places)
    BY <1>2 DEF RevokeReplies
  <1>4. places \in SUBSET Places
    BY RepliesType
  <1> QED  BY <1>1, <1>2, <1>3, <1>4, RevokedKeepsInv DEF Delivered, Issued

LEMMA LogoutKeepsInv ==
    ASSUME IInv, NEW r \in Requests, NEW t \in Tokens, Logout(r, t) PROVE IInv'
  <1>1. request[r].phase # "store" /\ Delivered(t) /\ Revoke(r, t, "logout") /\ UNCHANGED now
    BY DEF Logout, Idle, Verified
  <1> QED  BY <1>1, RevokeKeepsInv

LEMMA StoreRepliesKeepsInv ==
    ASSUME IInv, NEW r \in Requests, StoreReplies(r) PROVE IInv'
  <1>1. UNCHANGED <<now, cacheVars, grant>>
    BY DEF StoreReplies
  <1> QED  BY <1>1, StoreRepliesKeepsRInv, GrantStays, CacheStays DEF IInv

\* Tokens and requests stay as they are.
LEMMA StayingKeepsRInv == RInv /\ UNCHANGED <<now, authVars>> => RInv'
  BY DEF authVars, RInv, TokenInv, RequestInv, Delivered, Live, Issued

LEMMA ValidateAccessTokenKeepsInv ==
    ASSUME IInv, NEW t \in Tokens, ValidateAccessToken(t) PROVE IInv'
  <1>1. Issued(t) /\ Validate(t) /\ UNCHANGED <<now, authVars>> /\ UNCHANGED grant
    BY DEF ValidateAccessToken, Delivered, Issued, authVars
  <1> QED  BY <1>1, StayingKeepsRInv, ValidateKeepsKInv, GrantStays DEF IInv

LEMMA CacheCallsKeepInv ==
    ASSUME IInv, CacheCalls PROVE IInv'
  <1>1. UNCHANGED <<now, authVars>> /\ UNCHANGED grant
    BY DEF CacheCalls, authVars
  <1> QED  BY <1>1, StayingKeepsRInv, CacheCallsKeepKInv, GrantStays DEF IInv

LEMMA TimePassesKeepsInv ==
    ASSUME IInv, TimePasses PROVE IInv'
  <1>1. /\ UNCHANGED <<cacheVars, grant, request>> /\ Tick
        /\ stored' = [stored EXCEPT !["redis"] =
                         [t \in Tokens |-> IF @[t] > now' THEN @[t] ELSE Absent]]
        /\ left' = [t \in Tokens |-> IF Live(t)' THEN left[t] ELSE {}]
    BY DEF TimePasses
  <1>2. now \in Nat /\ now' = now + 1 /\ now' \in 0 .. Horizon
    BY <1>1, TokenCacheAssumption DEF IInv, GInv, Tick
  <1>3. GInv'
    <2>1. ASSUME NEW t \in Tokens, Issued(t)'
          PROVE  /\ grant'[t].accessExp > 0 /\ grant'[t].accessExp <= now' + AccessTtl
                 /\ grant'[t].refreshExp <= now' + RefreshTtl
      <3>1. Issued(t) /\ grant' = grant
        BY <1>1, <2>1 DEF Issued
      <3>2. /\ grant[t].accessExp > 0 /\ grant[t].accessExp <= now + AccessTtl
            /\ grant[t].refreshExp <= now + RefreshTtl
        BY <3>1 DEF IInv, GInv
      <3> QED  BY <1>2, <3>1, <3>2, IssuedType, AuthAssumption DEF IInv
    <2> QED  BY <1>1, <1>2, <2>1 DEF IInv, GInv
  <1>4. KInv'
    BY <1>1, WaitingKeepsKInv DEF IInv
  <1>5. \A p \in Places, t \in Tokens :
          stored'[p][t] = IF p = "redis" /\ ~(stored[p][t] > now') THEN Absent ELSE stored[p][t]
    BY <1>1 DEF IInv, RInv, IsStore, Places
  <1>6. IsStore(stored') /\ IsLeft(left')
    <2>1. Absent \in Times
      BY TokenCacheAssumption, AuthAssumption DEF Absent, Times
    <2> QED  BY <1>1, <2>1 DEF IInv, RInv, IsStore, IsLeft, Places
  <1>7. \A t \in Tokens : Delivered(t)' <=> Delivered(t)
    BY <1>1 DEF Delivered
  <1>8. ASSUME NEW t \in Tokens, Live(t)' PROVE Live(t) /\ grant[t].refreshExp > now' /\ left'[t] = left[t]
    <2>1. grant' = grant /\ Issued(t) /\ now' < grant[t].refreshExp
      BY <1>1, <1>8 DEF Live, Issued
    <2>2. now < grant[t].refreshExp
      BY <1>2, <2>1, IssuedType DEF IInv
    <2> QED  BY <1>1, <1>2, <1>8, <2>1, <2>2, IssuedType DEF Live, Issued, IInv
  <1>9. ASSUME NEW t \in Tokens PROVE TokenInv(t)'
    <2>1. ~Delivered(t)' => left'[t] = {} /\ \A p \in Places : stored'[p][t] = Absent
      BY <1>1, <1>5, <1>7 DEF IInv, RInv, TokenInv
    <2>2. ASSUME Live(t)', NEW p \in Places
          PROVE  IF p \in left'[t] THEN stored'[p][t] >= grant'[t].refreshExp ELSE stored'[p][t] = Absent
      <3>1. Live(t) /\ grant[t].refreshExp > now' /\ left'[t] = left[t] /\ grant' = grant
        BY <1>1, <1>8, <2>2
      <3>2. IF p \in left[t] THEN stored[p][t] >= grant[t].refreshExp ELSE stored[p][t] = Absent
        BY <3>1 DEF IInv, RInv, TokenInv
      <3>3. stored[p][t] \in Nat /\ grant[t].refreshExp \in Nat
        BY <3>1, IssuedType, TokenCacheAssumption, AuthAssumption DEF IInv, RInv, IsStore, Times, Live, Issued
      <3>4. p \in left[t] => stored[p][t] > now'
        BY <1>2, <3>1, <3>2, <3>3
      <3> QED  BY <1>5, <3>1, <3>2, <3>4
    <2> QED  BY <2>1, <2>2 DEF TokenInv
  <1>10. ASSUME NEW r \in Requests PROVE RequestInv(r)'
    <2>1. RequestInv(r) /\ request[r] \in Waits
      BY DEF IInv, RInv
    <2>2. request[r].phase # "idle" => request[r].token \in Tokens
      BY <2>1 DEF Waits, Idle
    <2> QED  BY <1>1, <1>5, <1>7, <2>1, <2>2 DEF RequestInv, Issued
  <1>11. request' \in [Requests -> Waits]
    BY <1>1 DEF IInv, RInv
  <1>12. RInv'
    BY <1>6, <1>9, <1>10, <1>11 DEF RInv
  <1> QED  BY <1>3, <1>4, <1>12 DEF IInv

LEMMA NextKeepsInv == IInv /\ [Next]_vars => IInv'
  <1> SUFFICES ASSUME IInv, [Next]_vars PROVE IInv'
    OBVIOUS
  <1>1. ASSUME NEW r \in Requests, NEW u \in Users, Login(r, u) PROVE IInv'
    BY <1>1, LoginKeepsInv
  <1>2. ASSUME NEW r \in Requests, NEW t \in Tokens, RefreshToken(r, t) \/ Logout(r, t) PROVE IInv'
    BY <1>2, RefreshTokenKeepsInv, LogoutKeepsInv
  <1>3. ASSUME NEW r \in Requests, StoreReplies(r) \/ CheckReplies(r) \/ UserReplies(r) \/ RevokeReplies(r)
        PROVE  IInv'
    BY <1>3, StoreRepliesKeepsInv, CheckRepliesKeepsInv, UserRepliesKeepsInv, RevokeRepliesKeepsInv
  <1>4. CASE Handlers
    BY <1>1, <1>2, <1>3, <1>4 DEF Handlers
  <1>5. ASSUME NEW t \in Tokens, ValidateAccessToken(t) PROVE IInv'
    BY <1>5, ValidateAccessTokenKeepsInv
  <1>6. CASE CacheCalls
    BY <1>6, CacheCallsKeepInv
  <1>7. CASE TimePasses
    BY <1>7, TimePassesKeepsInv
  <1>8. CASE UNCHANGED vars
    BY <1>8, StayingKeepsRInv, GrantStays, CacheStays DEF IInv, vars, authVars
  <1> QED  BY <1>4, <1>5, <1>6, <1>7, <1>8 DEF Next

LEMMA Invariance == Spec => []IInv
  BY InitInv, NextKeepsInv, PTL DEF Spec

-----------------------------------------------------------------------------
(* The theorems.                                                             *)

LEMMA InvImpliesTypeOK == IInv => TypeOK
  <1> SUFFICES ASSUME IInv PROVE TypeOK
    OBVIOUS
  <1>1. /\ now \in 0 .. Horizon /\ Keys(tokenCache) \subseteq Tokens
        /\ userToTokenHashes \in [Users -> SUBSET Tokens]
    BY DEF IInv, GInv, KInv, CInv
  <1>2. ASSUME NEW t \in Keys(tokenCache)
        PROVE  tokenCache.entry[t] \in [value : Users, accessedAt : Times, expiresAt : Times]
    <2>1. tokenCache.entry[t] \in Entries(now) /\ Cached(t) /\ t \in Tokens
      BY DEF IInv, KInv, CInv
    <2>2. tokenCache.entry[t].expiresAt \in Times
      BY <2>1, IssuedType DEF IInv, Cached, Grants
    <2>3. 0 .. now \subseteq Times
      BY <1>1, TokenCacheAssumption, AuthAssumption DEF Times
    <2> QED  BY <2>1, <2>2, <2>3 DEF Entries
  <1>3. grant \in [Tokens -> {NotIssued} \cup [user : Users, accessExp : Times, refreshExp : Times]]
    BY DEF IInv, GInv, Grants
  <1>4. /\ stored \in [Places -> [Tokens -> Times]] /\ left \in [Tokens -> SUBSET Places]
        /\ request \in [Requests -> Waits]
    BY DEF IInv, RInv, IsStore, IsLeft
  <1> QED  BY <1>1, <1>2, <1>3, <1>4 DEF TypeOK, Waits

\* Every variable of the authentication service and its cache has its type, in
\* every state that auth.service.ts and cache.service.ts can reach.
THEOREM TypeCorrect == Spec => []TypeOK
  BY Invariance, InvImpliesTypeOK, PTL

\* The reverse index of CacheService and the cache it indexes agree: a cached
\* token is in the Set of its user and in no other user's.
THEOREM IndexIsExact == Spec => []IndexCoversCache
  <1>1. IInv => IndexCoversCache
    <2> SUFFICES ASSUME IInv, NEW t \in Keys(tokenCache), NEW u \in Users
                 PROVE  t \in userToTokenHashes[u] <=> u = Value(tokenCache, t)
      BY DEF IndexCoversCache
    <2>1. Cached(t) /\ IndexIsOfUser
      BY DEF IInv, KInv
    <2> QED  BY <2>1 DEF Cached, IndexIsOfUser, Value
  <1> QED  BY <1>1, Invariance, PTL

\* The token cache never holds more than maxSize entries, and the insertion order
\* of its Map is at all times the order in which its entries were last used.
THEOREM CacheKeepsItsOrder == Spec => []CacheIsLRU
  <1>1. IInv => CacheIsLRU
    BY DEF IInv, KInv, CInv, CacheIsLRU
  <1> QED  BY <1>1, Invariance, PTL

\* No refresh that began after its token had been revoked in every place where it
\* was stored gets as far as the look-up of the user, and so to a new pair.
THEOREM RevocationIsFinal == Spec => []NoLateExchange
  <1>1. IInv => NoLateExchange
    BY DEF IInv, RInv, RequestInv, NoLateExchange
  <1> QED  BY <1>1, Invariance, PTL

\* A refresh token that lives is found wherever it was stored and not revoked,
\* whichever of the Redis commands failed.
THEOREM LiveTokensAreFound == Spec => []UnrevokedTokensAreKept
  <1>1. IInv => UnrevokedTokensAreKept
    <2> SUFFICES ASSUME IInv, NEW t \in Tokens, NEW p \in left[t], now < grant[t].refreshExp
                 PROVE  stored[p][t] > now
      BY DEF UnrevokedTokensAreKept
    <2>1. TokenInv(t) /\ p \in Places
      BY DEF IInv, RInv, IsLeft
    <2>2. Issued(t)
      BY <2>1 DEF TokenInv, Delivered, Issued
    <2>3. stored[p][t] >= grant[t].refreshExp
      BY <2>1, <2>2 DEF TokenInv, Live, Issued
    <2>4. stored[p][t] \in Nat /\ grant[t].refreshExp \in Nat /\ now \in Nat
      BY <2>1, <2>2, IssuedType, TokenCacheAssumption, AuthAssumption DEF IInv, RInv, IsStore, Times
    <2> QED  BY <2>3, <2>4
  <1> QED  BY <1>1, Invariance, PTL

\* validateAccessToken's cache answers with the token's own user, and not after
\* the token's own expiry.
THEOREM CacheDoesNotOutliveTokens == Spec => []CachedTokensAreAlive
  <1>1. IInv => CachedTokensAreAlive
    <2> SUFFICES ASSUME IInv, NEW t \in Keys(tokenCache)
                 PROVE  /\ Value(tokenCache, t) = grant[t].user
                        /\ Hit(tokenCache, t, now) => now <= grant[t].accessExp
      BY DEF CachedTokensAreAlive
    <2>1. Cached(t) /\ t \in Tokens
      BY DEF IInv, KInv, CInv
    <2>2. grant[t].accessExp \in Nat \ {0} /\ now \in Nat
      BY <2>1, IssuedType DEF IInv, Cached
    <2> QED  BY <2>1, <2>2 DEF Cached, Value, Hit, IsExpired, Never
  <1> QED  BY <1>1, Invariance, PTL

\* A handler moves on no request but its own.
LEMMA HandlersKeepToTheirRequest ==
    ASSUME NEW q \in Requests,
           \/ \E u \in Users : Login(q, u)
           \/ \E t \in Tokens : RefreshToken(q, t) \/ Logout(q, t)
           \/ StoreReplies(q) \/ CheckReplies(q) \/ UserReplies(q) \/ RevokeReplies(q)
    PROVE  \E new : request' = [request EXCEPT ![q] = new]
  <1>1. ASSUME NEW user, NEW s, NEW l, GenerateTokens(q, user, s, l)
        PROVE  \E new : request' = [request EXCEPT ![q] = new]
    BY <1>1 DEF GenerateTokens, Await, Answer
  <1>2. ASSUME NEW t, NEW late, CheckMemory(q, t, late)
        PROVE  \E new : request' = [request EXCEPT ![q] = new]
    BY <1>2 DEF CheckMemory, FindUser, Await, Answer
  <1>3. ASSUME NEW t, NEW kind, NEW places, Revoked(q, t, kind, places)
        PROVE  \E new : request' = [request EXCEPT ![q] = new]
    <2>1. CASE kind = "refresh"
      <3>1. GenerateTokens(q, grant[t].user, Drop(stored, t, places), [left EXCEPT ![t] = @ \ places])
        BY <1>3, <2>1 DEF Revoked
      <3>2. PICK user, s, l : /\ user = grant[t].user /\ s = Drop(stored, t, places)
                              /\ l = [left EXCEPT ![t] = @ \ places]
        OBVIOUS
      <3>3. GenerateTokens(q, user, s, l)
        BY <3>1, <3>2
      <3> QED  BY <3>3, <1>1
    <2>2. CASE kind # "refresh"
      BY <1>3, <2>2 DEF Revoked, Answer
    <2> QED  BY <2>1, <2>2
  <1>4. ASSUME NEW t, NEW kind, Revoke(q, t, kind)
        PROVE  \E new : request' = [request EXCEPT ![q] = new]
    BY <1>3, <1>4 DEF Revoke, Await
  <1>5. ASSUME NEW u \in Users, Login(q, u) PROVE \E new : request' = [request EXCEPT ![q] = new]
    <2>1. GenerateTokens(q, u, stored, left)
      BY <1>5 DEF Login
    <2>2. PICK s, l : s = stored /\ l = left
      OBVIOUS
    <2>3. GenerateTokens(q, u, s, l)
      BY <2>1, <2>2
    <2> QED  BY <2>3, <1>1
  <1>6. ASSUME NEW t \in Tokens, RefreshToken(q, t) PROVE \E new : request' = [request EXCEPT ![q] = new]
    <2>1. PICK late : late = (left[t] = {})
      OBVIOUS
    <2>2. Await(q, [phase |-> "check", token |-> t, late |-> late]) \/ CheckMemory(q, t, late)
      BY <1>6, <2>1 DEF RefreshToken
    <2> QED  BY <1>2, <2>2 DEF Await
  <1>7. ASSUME CheckReplies(q) PROVE \E new : request' = [request EXCEPT ![q] = new]
    <2>1. PICK t, late : t = request[q].token /\ late = request[q].late
      OBVIOUS
    <2>2. FindUser(q, t, late) \/ Answer(q) \/ CheckMemory(q, t, late)
      BY <1>7, <2>1 DEF CheckReplies
    <2> QED  BY <1>2, <2>2 DEF FindUser, Await, Answer
  <1>8. ASSUME UserReplies(q) PROVE \E new : request' = [request EXCEPT ![q] = new]
    <2>1. PICK t : t = request[q].token
      OBVIOUS
    <2>2. Revoke(q, t, "refresh") \/ Answer(q)
      BY <1>8, <2>1 DEF UserReplies
    <2> QED  BY <1>4, <2>2 DEF Answer
  <1>9. ASSUME RevokeReplies(q) PROVE \E new : request' = [request EXCEPT ![q] = new]
    <2>1. PICK t, kind : t = request[q].token /\ kind = request[q].kind
      OBVIOUS
    <2>2. PICK places \in Replies : Revoked(q, t, kind, places)
      BY <1>9, <2>1 DEF RevokeReplies
    <2> QED  BY <1>3, <2>2
  <1>10. ASSUME StoreReplies(q) PROVE \E new : request' = [request EXCEPT ![q] = new]
    BY <1>10 DEF StoreReplies, Answer
  <1>11. ASSUME NEW t \in Tokens, Logout(q, t) PROVE \E new : request' = [request EXCEPT ![q] = new]
    BY <1>4, <1>11 DEF Logout
  <1> QED  BY <1>5, <1>6, <1>7, <1>8, <1>9, <1>10, <1>11

\* Whoever validates a token takes another's place only in a full cache, only one
\* place, and that of the token unused for the longest time.  (The session store
\* breaks the same promise: EvictsLeastRecentlyUsed.)
THEOREM EvictionsAreLeastRecent ==
    Spec => [][\A t \in Tokens : ValidateAccessToken(t) =>
                 \A k \in Keys(tokenCache) \ (Keys(tokenCache') \cup {t}) :
                   /\ Cardinality(Keys(tokenCache)) = TokenMaxSize
                   /\ Keys(tokenCache') = (Keys(tokenCache) \ {k}) \cup {t}
                   /\ \A l \in Keys(tokenCache) :
                        tokenCache.entry[k].accessedAt <= tokenCache.entry[l].accessedAt]_vars
  <1> DEFINE Right(t, k) ==
               /\ Cardinality(Keys(tokenCache)) = TokenMaxSize
               /\ Keys(tokenCache') = (Keys(tokenCache) \ {k}) \cup {t}
               /\ \A l \in Keys(tokenCache) :
                    tokenCache.entry[k].accessedAt <= tokenCache.entry[l].accessedAt
  <1>1. ASSUME IInv, NEW t \in Tokens, ValidateAccessToken(t),
               NEW k \in Keys(tokenCache) \ (Keys(tokenCache') \cup {t})
        PROVE  Right(t, k)
    <2>1. Validate(t) /\ CInv(tokenCache, now) /\ now \in Nat
      BY <1>1, TokenCacheAssumption DEF ValidateAccessToken, IInv, KInv, GInv
    <2>2. CASE GetTokenValidation(t)
      <3>1. Keys(tokenCache') = Keys(tokenCache)
        BY <2>1, <2>2, HitEffect DEF GetTokenValidation, Hit
      <3> QED  BY <1>1, <3>1
    <2>3. CASE MissTokenValidation(t)
      <3>1. Keys(tokenCache') = Keys(tokenCache) \ {t}
        <4>1. tokenCache' = Without(tokenCache, {t})
          BY <2>3, MissEffect DEF MissTokenValidation
        <4> QED  BY <4>1, WithoutEffect
      <3> QED  BY <1>1, <3>1
    <2>4. CASE SetTokenValidation(t, grant[t].user, grant[t].accessExp - now)
      <3>1. PICK u, ttl : tokenCache' = AfterSet(tokenCache, t, u, ttl, now, TokenMaxSize)
        BY <2>4 DEF SetTokenValidation
      <3>2. k \in Keys(tokenCache)
            /\ k \notin Keys(AfterSet(tokenCache, t, u, ttl, now, TokenMaxSize)) \cup {t}
        BY <1>1, <3>1
      <3>3. /\ Cardinality(Keys(tokenCache)) = TokenMaxSize
            /\ Keys(AfterSet(tokenCache, t, u, ttl, now, TokenMaxSize)) = (Keys(tokenCache) \ {k}) \cup {t}
            /\ \A l \in Keys(tokenCache) :
                 tokenCache.entry[k].accessedAt <= tokenCache.entry[l].accessedAt
        BY <2>1, <3>2, EvictionEffect
      <3> QED  BY <3>1, <3>3
    <2> QED  BY <2>1, <2>2, <2>3, <2>4 DEF Validate
  <1>2. IInv /\ [Next]_vars =>
          [\A t \in Tokens : ValidateAccessToken(t) =>
             \A k \in Keys(tokenCache) \ (Keys(tokenCache') \cup {t}) : Right(t, k)]_vars
    BY <1>1
  <1> QED  BY <1>2, Invariance, PTL DEF Spec

\* The answer to a logout that awaited Redis leaves none of its user's tokens in
\* the cache, and takes no other user's with them.
THEOREM LogoutIsExact == Spec => LogoutDropsCachedTokens
  <1> DEFINE Exact(r) ==
               request[r].phase = "revoke" /\ request[r].kind = "logout" /\ request'[r] = Idle
                 => Keys(tokenCache') = {t \in Keys(tokenCache) :
                                           grant[t].user # grant[request[r].token].user}
  <1>1. ASSUME IInv, [Next]_vars, NEW r \in Requests PROVE Exact(r)
    <2> SUFFICES ASSUME request[r].phase = "revoke", request[r].kind = "logout", request'[r] = Idle
                 PROVE  Keys(tokenCache') = {t \in Keys(tokenCache) :
                                               grant[t].user # grant[request[r].token].user}
      OBVIOUS
    <2>1. request[r] # Idle /\ request[r].phase \notin {"idle", "store", "check", "user"}
      BY DEF Idle
    <2>2. request \in [Requests -> Waits] /\ request # request'
      BY <1>1, <2>1 DEF IInv, RInv
    <2>3. Handlers
      BY <1>1, <2>2 DEF Next, vars, authVars, ValidateAccessToken, CacheCalls, TimePasses
    <2>4. PICK q \in Requests :
            \/ \E u \in Users : Login(q, u)
            \/ \E t \in Tokens : RefreshToken(q, t) \/ Logout(q, t)
            \/ StoreReplies(q) \/ CheckReplies(q) \/ UserReplies(q) \/ RevokeReplies(q)
      BY <2>3 DEF Handlers
    <2>5. PICK new : request' = [request EXCEPT ![q] = new]
      BY <2>4, HandlersKeepToTheirRequest
    <2>6. q = r
      BY <2>1, <2>2, <2>5
    <2>7. RevokeReplies(r)
      BY <2>1, <2>4, <2>6 DEF Login, RefreshToken, Logout, StoreReplies, CheckReplies, UserReplies, Idle
    <2>8. PICK t0 \in Tokens : request[r].token = t0 /\ Delivered(t0)
      BY <1>1, WaitType DEF IInv
    <2>9. PICK u \in Users : u = grant[t0].user
      BY <1>1, <2>8, IssuedType DEF IInv, Delivered, Issued
    <2>10. InvalidateAllTokensForUser(u)
      BY <2>7, <2>8, <2>9 DEF RevokeReplies, Revoked
    <2>11. Keys(tokenCache') = Keys(tokenCache) \ userToTokenHashes[u]
      BY <2>10, WithoutEffect DEF InvalidateAllTokensForUser
    <2>12. \A t \in Keys(tokenCache) : t \in userToTokenHashes[u] <=> grant[t].user = u
      BY <1>1 DEF IInv, KInv, Cached, IndexIsOfUser
    <2> QED  BY <2>8, <2>9, <2>11, <2>12
  <1>2. IInv /\ [Next]_vars => [\A r \in Requests : Exact(r)]_vars
    BY <1>1
  <1> QED  BY <1>2, Invariance, PTL DEF Spec, LogoutDropsCachedTokens
=============================================================================
