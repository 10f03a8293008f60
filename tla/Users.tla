------------------------------- MODULE Users -------------------------------
(* UserService (src/src/user/user.service.ts) with the user side of          *)
(* CacheService, for the accounts that one email address may have: accounts  *)
(* are registered, read, given a new password and deleted by requests that   *)
(* overlap.  A command may fail before or after Redis executed it; the       *)
(* service's own Maps then take its place, as they do while there is no      *)
(* client.  One connection carries all commands in order, so a command takes *)
(* effect with its reply, in one step that runs to the next await; answers   *)
(* out of the cache or a Map do not wait.                                    *)
EXTENDS Naturals, FiniteSets

CONSTANTS
    Ids,            \* the uuids that registrations draw
    Requests,       \* places for requests; one that ended may start anew
    MaxVersion      \* passwords hashed in a finite instance

\* No uuid is the answer of an empty index.
NoId == "none"

ASSUME UsersAssumption == MaxVersion \in Nat /\ NoId \notin Ids

VARIABLES
    connected,  \* redisPool.getClient() returns a client
    store,      \* Redis, and the Maps users and emailIndex: accounts by id, the email's id
    userCache,  \* CacheService.userCache
    emailToId,  \* CacheService.emailToIdCache
    request,
    version,    \* passwords hashed so far; an account's record is known by its password
    latest,     \* history: the password an id was last given by a write that took effect
    born,       \* history: ids drawn
    astray,     \* history: ids of which some store missed a change while it held them
    steady,     \* history: one store has answered all there was to ask
    overlapped  \* history: requests overlapped that the code does not keep apart

accounts == <<store, latest, astray>>
caches == <<userCache, emailToId>>
vars == <<connected, accounts, caches, request, version, born, steady, overlapped>>

Stores == {"redis", "memory"}
Kinds == {"read", "create", "update", "delete"}
Absent == 0
Idle == [phase |-> "idle"]

Init ==
    /\ connected \in BOOLEAN
    /\ store = [s \in Stores |-> [user |-> [i \in Ids |-> Absent], email |-> NoId]]
    /\ userCache = [i \in Ids |-> Absent] /\ emailToId = NoId
    /\ request = [r \in Requests |-> Idle]
    /\ version = 0 /\ latest = [i \in Ids |-> Absent] /\ born = {}
    /\ astray = {} /\ steady = TRUE /\ overlapped = FALSE

-----------------------------------------------------------------------------
Await(r, fields) == request' = [request EXCEPT ![r] = fields]
Answer(r) == request' = [request EXCEPT ![r] = Idle]

\* Mutant: the id is cached in place of the account as well.
SetUserId(i, v) == userCache' = [userCache EXCEPT ![i] = i] /\ emailToId' = i

\* CacheService.setUser.
SetUser(i, v) == userCache' = [userCache EXCEPT ![i] = v] /\ emailToId' = i

\* Mutant: the id is invalidated and not its email.
InvalidateId(users, i) == userCache' = [users EXCEPT ![i] = Absent] /\ UNCHANGED emailToId

\* CacheService.invalidateUser.
InvalidateUser(users, i) == userCache' = [users EXCEPT ![i] = Absent] /\ emailToId' = NoId

\* Stores after writes: the users they then hold and where the email leads.
WithUser(s, i, v) == [s EXCEPT !.user[i] = v]
WithEmail(s, i) == [s EXCEPT !.email = i]

Stored(redis, memory) == store' = [s \in Stores |-> IF s = "redis" THEN redis ELSE memory]

\* An account's password becomes v wherever it was to be written by then.
Took(i, v) ==
    /\ latest' = [latest EXCEPT ![i] = v]
    /\ astray' = IF \E s \in Stores : store'[s].user[i] \notin {Absent, v}
                 THEN astray \cup {i} ELSE astray

-----------------------------------------------------------------------------
\* What the caller of findById or findByEmail does next, without an account:
\* create goes on to hash the password.
NotFound(r, kind) ==
    /\ IF kind = "create" THEN Await(r, [phase |-> "hash", kind |-> kind]) ELSE Answer(r)
    /\ UNCHANGED <<accounts, caches>>

\* deleteUser in the Maps.
DeleteFromMaps(i, redis) ==
    /\ Stored(redis, WithEmail(WithUser(store["memory"], i, Absent), NoId))
    /\ Took(i, Absent)

\* With an account: login, refresh or me have their answer and create its
\* conflict, updatePassword goes on to hash, deleteUser empties the cache first.
Found(r, kind, i, users, toId) ==
    \/ /\ kind \in {"read", "create"} /\ Answer(r)
       /\ userCache' = users /\ emailToId' = toId /\ UNCHANGED accounts
    \/ /\ kind = "update" /\ Await(r, [phase |-> "hash", kind |-> kind, id |-> i])
       /\ userCache' = users /\ emailToId' = toId /\ UNCHANGED accounts
    \/ /\ kind = "delete"
       /\ InvalidateUser(users, i)
       /\ IF connected
          THEN Await(r, [phase |-> "delUser", kind |-> kind, id |-> i]) /\ UNCHANGED accounts
          ELSE Answer(r) /\ DeleteFromMaps(i, store["redis"])

\* findById once a store has answered: an account that is there is cached.
Fetched(r, kind, i, v) ==
    IF v = Absent THEN NotFound(r, kind)
    ELSE Found(r, kind, i, [userCache EXCEPT ![i] = v], i)

FindById(r, kind, i) ==
    IF userCache[i] # Absent THEN Found(r, kind, i, userCache, emailToId)
    ELSE IF connected
         THEN Await(r, [phase |-> "getUser", kind |-> kind, id |-> i]) /\ UNCHANGED <<accounts, caches>>
         ELSE Fetched(r, kind, i, store["memory"].user[i])

\* An email index has answered.
Lead(r, kind, i) == IF i = NoId THEN NotFound(r, kind) ELSE FindById(r, kind, i)

FindByEmail(r, kind) ==
    IF emailToId # NoId THEN FindById(r, kind, emailToId)
    ELSE IF connected
         THEN Await(r, [phase |-> "getEmail", kind |-> kind]) /\ UNCHANGED <<accounts, caches>>
         ELSE Lead(r, kind, store["memory"].email)

GetEmailReplies(r) ==
    /\ request[r].phase = "getEmail"
    /\ \/ Lead(r, request[r].kind, store["redis"].email) /\ UNCHANGED steady
       \/ Lead(r, request[r].kind, store["memory"].email) /\ steady' = FALSE
    /\ UNCHANGED <<connected, version, born, overlapped>>

\* The Map is asked only if there is no client any more when Redis had nothing.
GetUserReplies(r) ==
    /\ request[r].phase = "getUser"
    /\ LET i == request[r].id
           kind == request[r].kind
           inMap == IF connected THEN Absent ELSE store["memory"].user[i]
       IN \/ /\ Fetched(r, kind, i, IF store["redis"].user[i] # Absent THEN store["redis"].user[i] ELSE inMap)
             /\ UNCHANGED steady
          \/ Fetched(r, kind, i, inMap) /\ steady' = FALSE
    /\ UNCHANGED <<connected, version, born, overlapped>>

-----------------------------------------------------------------------------
\* create, from the hash on: the new account into the Maps.
CreateInMaps(r, i, v, redis) ==
    /\ Stored(redis, WithEmail(WithUser(store["memory"], i, v), i))
    /\ Took(i, v)
    /\ SetUser(i, v)
    /\ Answer(r)

CreateHashed(r) ==
    /\ request[r].phase = "hash" /\ request[r].kind = "create"
    /\ version < MaxVersion /\ version' = version + 1
    /\ \E i \in Ids \ born :
         /\ born' = born \cup {i}
         /\ IF connected
            THEN /\ Await(r, [phase |-> "setUser", kind |-> "create", id |-> i, to |-> version'])
                 /\ UNCHANGED <<accounts, caches>>
            ELSE CreateInMaps(r, i, version', store["redis"])
    /\ UNCHANGED <<connected, steady, overlapped>>

CreateUserReplies(r) ==
    /\ request[r].phase = "setUser" /\ request[r].kind = "create"
    /\ LET i == request[r].id
           v == request[r].to
           done == WithUser(store["redis"], i, v)
       IN \/ /\ Stored(done, store["memory"]) /\ Took(i, v)
             /\ Await(r, [request[r] EXCEPT !.phase = "setEmail"])
             /\ UNCHANGED <<caches, steady>>
          \/ \E redis \in {store["redis"], done} : CreateInMaps(r, i, v, redis) /\ steady' = FALSE
    /\ UNCHANGED <<connected, version, born, overlapped>>

CreateEmailReplies(r) ==
    /\ request[r].phase = "setEmail"
    /\ LET i == request[r].id
           v == request[r].to
           done == WithEmail(store["redis"], i)
       IN \/ /\ Stored(done, store["memory"])
             /\ SetUser(i, v) /\ Answer(r) /\ UNCHANGED <<latest, astray, steady>>
          \/ \E redis \in {store["redis"], done} : CreateInMaps(r, i, v, redis) /\ steady' = FALSE
    /\ UNCHANGED <<connected, version, born, overlapped>>

-----------------------------------------------------------------------------
\* Mutant: the cache is left as it is after a change of password.
UpdatedBehindCache(r, i, v, redis, memory) ==
    /\ Stored(redis, memory)
    /\ Took(i, v)
    /\ UNCHANGED caches
    /\ Answer(r)

\* updatePassword, from the hash on: the write, then the caches (what it drops of
\* the token cache, as deleteUser does, is in CacheCalls of Auth).
Updated(r, i, v, redis, memory) ==
    /\ Stored(redis, memory)
    /\ Took(i, v)
    /\ SetUser(i, v)
    /\ Answer(r)

UpdateHashed(r) ==
    /\ request[r].phase = "hash" /\ request[r].kind = "update"
    /\ version < MaxVersion /\ version' = version + 1
    /\ LET i == request[r].id IN
         IF connected
         THEN /\ Await(r, [phase |-> "setUser", kind |-> "update", id |-> i, to |-> version'])
              /\ UNCHANGED <<accounts, caches>>
         ELSE Updated(r, i, version', store["redis"], WithUser(store["memory"], i, version'))
    /\ UNCHANGED <<connected, born, steady, overlapped>>

UpdateUserReplies(r) ==
    /\ request[r].phase = "setUser" /\ request[r].kind = "update"
    /\ LET i == request[r].id
           v == request[r].to
           done == WithUser(store["redis"], i, v)
       IN \/ Updated(r, i, v, done, store["memory"]) /\ UNCHANGED steady
          \/ \E redis \in {store["redis"], done} :
               Updated(r, i, v, redis, WithUser(store["memory"], i, v)) /\ steady' = FALSE
    /\ UNCHANGED <<connected, version, born, overlapped>>

-----------------------------------------------------------------------------
\* deleteUser's two commands.
DeleteUserReplies(r) ==
    /\ request[r].phase = "delUser"
    /\ LET i == request[r].id
           done == WithUser(store["redis"], i, Absent)
       IN \/ /\ Stored(done, store["memory"]) /\ Took(i, Absent)
             /\ Await(r, [request[r] EXCEPT !.phase = "delEmail"])
             /\ UNCHANGED steady
          \/ \E redis \in {store["redis"], done} :
               DeleteFromMaps(i, redis) /\ Answer(r) /\ steady' = FALSE
    /\ UNCHANGED <<connected, caches, version, born, overlapped>>

DeleteEmailReplies(r) ==
    /\ request[r].phase = "delEmail"
    /\ LET i == request[r].id
           done == WithEmail(store["redis"], NoId)
       IN \/ Stored(done, store["memory"]) /\ UNCHANGED <<latest, astray, steady>>
          \/ \E redis \in {store["redis"], done} : DeleteFromMaps(i, redis) /\ steady' = FALSE
    /\ Answer(r)
    /\ UNCHANGED <<connected, caches, version, born, overlapped>>

-----------------------------------------------------------------------------
\* A deletion and anything else on the account, or two registrations of the
\* email, get in each other's way.
Conflict(k, l) == (k # l /\ "delete" \in {k, l}) \/ (k = "create" /\ l = "create")

\* A finite instance lets such requests end and begins no more.
Begin(r, kind) ==
    /\ request[r] = Idle /\ ~overlapped
    /\ overlapped' = (overlapped \/ \E q \in Requests : request[q] # Idle /\ Conflict(kind, request[q].kind))
    /\ UNCHANGED <<connected, version, born, steady>>

\* A registration's id is known once it is answered.
Known(i) == i \in born /\ \A q \in Requests :
    request[q].phase \in {"setUser", "setEmail"} /\ request[q].kind = "create" => request[q].id # i

Create(r) == Begin(r, "create") /\ FindByEmail(r, "create")
Login(r) == Begin(r, "read") /\ FindByEmail(r, "read")

\* findById for refresh and me, updatePassword, deleteUser.
ById(r, i, kind) == Known(i) /\ Begin(r, kind) /\ FindById(r, kind, i)

\* An entry expires or makes room for another email's.
CacheForgets ==
    /\ \/ /\ \E i \in Ids : userCache[i] # Absent /\ userCache' = [userCache EXCEPT ![i] = Absent]
          /\ UNCHANGED emailToId
       \/ emailToId # NoId /\ emailToId' = NoId /\ UNCHANGED userCache
    /\ UNCHANGED <<connected, accounts, request, version, born, steady, overlapped>>

\* The pool's connection comes or goes.
ConnectionChanges ==
    /\ connected' = ~connected /\ steady' = FALSE
    /\ UNCHANGED <<accounts, caches, request, version, born, overlapped>>

Next ==
    \/ \E r \in Requests :
         \/ Create(r) \/ Login(r)
         \/ \E i \in Ids : \E kind \in {"read", "update", "delete"} : ById(r, i, kind)
         \/ GetEmailReplies(r) \/ GetUserReplies(r)
         \/ CreateHashed(r) \/ CreateUserReplies(r) \/ CreateEmailReplies(r)
         \/ UpdateHashed(r) \/ UpdateUserReplies(r)
         \/ DeleteUserReplies(r) \/ DeleteEmailReplies(r)
    \/ CacheForgets \/ ConnectionChanges

Spec == Init /\ [][Next]_vars

-----------------------------------------------------------------------------
(* Properties.                                                               *)

Versions == 0 .. MaxVersion

\* Every variable has its type.
TypeOK ==
    /\ connected \in BOOLEAN /\ steady \in BOOLEAN /\ overlapped \in BOOLEAN
    /\ store \in [Stores -> [user : [Ids -> Versions], email : Ids \cup {NoId}]]
    /\ userCache \in [Ids -> Versions] /\ emailToId \in Ids \cup {NoId}
    /\ version \in Versions /\ latest \in [Ids -> Versions]
    /\ born \subseteq Ids /\ astray \subseteq Ids
    /\ request \in [Requests -> {Idle}
         \cup [phase : {"getEmail"}, kind : Kinds]
         \cup [phase : {"getUser"}, kind : Kinds, id : Ids]
         \cup [phase : {"hash"}, kind : {"create"}]
         \cup [phase : {"hash"}, kind : {"update"}, id : Ids]
         \cup [phase : {"setUser", "setEmail"}, kind : {"create", "update"}, id : Ids, to : Versions]
         \cup [phase : {"delUser", "delEmail"}, kind : {"delete"}, id : Ids]]

\* A read answers with the password that was last written: no cache and no store
\* holds an older one of an account, or any of a deleted one, unless another
\* request overlapped a deletion or an outage left a change out of one of two
\* stores that hold the account.
PasswordsAreCurrent ==
    ~overlapped => \A i \in Ids \ astray :
        \A v \in {userCache[i]} \cup {store[s].user[i] : s \in Stores} : v \in {Absent, latest[i]}

\* While one store answers everything and neither registrations nor deletions
\* overlap, the email has one account at most, both its index and its cache
\* lead to it, and a login without an account finds neither.
Settled(i) == latest[i] # Absent /\ Known(i)
EmailLeadsToItsAccount ==
    steady /\ ~overlapped =>
        /\ \A i, j \in Ids : latest[i] # Absent /\ latest[j] # Absent => i = j
        /\ \A i \in Ids : Settled(i) => \E s \in Stores : store[s].email = i
        /\ emailToId # NoId => latest[emailToId] # Absent
=============================================================================
