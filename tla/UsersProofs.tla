---------------------------- MODULE UsersProofs ----------------------------
(* The accounts of one email, for any number of ids, passwords and requests  *)
(* that overlap.  Three invariants, each with the one before it: no two      *)
(* registrations write one id (LInv); while nothing has overlapped that the  *)
(* code does not keep apart, passwords are the latest (PInv); and while one  *)
(* store answers as well, what each waiting request has found out still      *)
(* holds, and the email leads to its account (EInv).                         *)
EXTENDS Users, TLAPS

Accounts == [user : [Ids -> Versions], email : Ids \cup {NoId}]

Waits ==
    {Idle}
      \cup [phase : {"getEmail"}, kind : Kinds]
      \cup [phase : {"getUser"}, kind : Kinds, id : Ids]
      \cup [phase : {"hash"}, kind : {"create"}]
      \cup [phase : {"hash"}, kind : {"update"}, id : Ids]
      \cup [phase : {"setUser", "setEmail"}, kind : {"create", "update"}, id : Ids, to : Versions]
      \cup [phase : {"delUser", "delEmail"}, kind : {"delete"}, id : Ids]

LEMMA VersionsType == Versions \subseteq Nat /\ Absent \in Versions
  BY UsersAssumption DEF Versions, Absent

LEMMA WithUserEffect ==
    ASSUME NEW s \in Accounts, NEW i \in Ids, NEW v \in Versions
    PROVE  /\ WithUser(s, i, v) \in Accounts /\ WithUser(s, i, v).email = s.email
           /\ \A j \in Ids : WithUser(s, i, v).user[j] = IF j = i THEN v ELSE s.user[j]
  BY DEF WithUser, Accounts

LEMMA WithEmailEffect ==
    ASSUME NEW s \in Accounts, NEW i \in Ids \cup {NoId}
    PROVE  /\ WithEmail(s, i) \in Accounts /\ WithEmail(s, i).email = i
           /\ WithEmail(s, i).user = s.user
  BY DEF WithEmail, Accounts

LEMMA StoredEffect ==
    ASSUME NEW redis \in Accounts, NEW memory \in Accounts, Stored(redis, memory)
    PROVE  /\ store' \in [Stores -> Accounts]
           /\ store'["redis"] = redis /\ store'["memory"] = memory
  BY DEF Stored, Stores

\* Each store either keeps an id's account or has it with its new password.
Frame(i, v) ==
    \A s \in Stores, j \in Ids :
        store'[s].user[j] = store[s].user[j] \/ (j = i /\ store'[s].user[j] = v)

Changes(i, v) == Frame(i, v) /\ Took(i, v)

LEMMA ChangeType ==
    ASSUME TypeOK, NEW i \in Ids, NEW v \in Versions, Took(i, v)
    PROVE  latest' \in [Ids -> Versions] /\ astray' \subseteq Ids
  BY DEF TypeOK, Took

\* Redis holds what a command left there, the Map what follows a failure.
LEMMA StoresType ==
    ASSUME TypeOK
    PROVE  store \in [Stores -> Accounts] /\ store["redis"] \in Accounts /\ store["memory"] \in Accounts
  BY DEF TypeOK, Accounts, Stores

\* The account is no longer in the Map, and nor does the email lead there.
LEMMA DeleteFromMapsEffect ==
    ASSUME TypeOK, NEW i \in Ids, NEW redis \in Accounts, DeleteFromMaps(i, redis),
           \A j \in Ids : redis.user[j] = store["redis"].user[j] \/ (j = i /\ redis.user[j] = Absent)
    PROVE  /\ Changes(i, Absent) /\ store' \in [Stores -> Accounts]
           /\ latest' \in [Ids -> Versions] /\ astray' \subseteq Ids
           /\ store'["redis"] = redis /\ store'["memory"].email = NoId
           /\ \A j \in Ids : store'["memory"].user[j] = IF j = i THEN Absent ELSE store["memory"].user[j]
  <1> DEFINE gone == WithUser(store["memory"], i, Absent)
             memory == WithEmail(gone, NoId)
  <1>1. gone \in Accounts /\ \A j \in Ids : gone.user[j] = IF j = i THEN Absent ELSE store["memory"].user[j]
    BY StoresType, VersionsType, WithUserEffect
  <1> HIDE DEF gone
  <1>2. memory \in Accounts /\ memory.email = NoId /\ memory.user = gone.user
    BY <1>1, WithEmailEffect
  <1> HIDE DEF memory
  <1>3. Stored(redis, memory) /\ Took(i, Absent)
    BY DEF DeleteFromMaps, memory, gone
  <1>4. store' \in [Stores -> Accounts] /\ store'["redis"] = redis /\ store'["memory"] = memory
    BY <1>2, <1>3, StoredEffect
  <1>5. Frame(i, Absent)
    BY <1>1, <1>2, <1>4 DEF Frame, Stores
  <1> QED  BY <1>1, <1>2, <1>3, <1>4, <1>5, ChangeType, VersionsType DEF Changes

LEMMA CreateInMapsEffect ==
    ASSUME TypeOK, NEW r \in Requests, NEW i \in Ids, NEW v \in Versions, NEW redis \in Accounts,
           CreateInMaps(r, i, v, redis),
           \A j \in Ids : redis.user[j] = store["redis"].user[j] \/ (j = i /\ redis.user[j] = v)
    PROVE  /\ Changes(i, v) /\ store' \in [Stores -> Accounts]
           /\ latest' \in [Ids -> Versions] /\ astray' \subseteq Ids
           /\ store'["redis"] = redis /\ store'["memory"].email = i
           /\ \A j \in Ids : store'["memory"].user[j] = IF j = i THEN v ELSE store["memory"].user[j]
           /\ userCache' = [userCache EXCEPT ![i] = v] /\ emailToId' = i
           /\ request' = [request EXCEPT ![r] = Idle]
  <1> DEFINE new == WithUser(store["memory"], i, v)
             memory == WithEmail(new, i)
  <1>1. new \in Accounts /\ \A j \in Ids : new.user[j] = IF j = i THEN v ELSE store["memory"].user[j]
    BY StoresType, WithUserEffect
  <1> HIDE DEF new
  <1>2. memory \in Accounts /\ memory.email = i /\ memory.user = new.user
    BY <1>1, WithEmailEffect
  <1> HIDE DEF memory
  <1>3. Stored(redis, memory) /\ Took(i, v)
    BY DEF CreateInMaps, memory, new
  <1>4. store' \in [Stores -> Accounts] /\ store'["redis"] = redis /\ store'["memory"] = memory
    BY <1>2, <1>3, StoredEffect
  <1>5. Frame(i, v)
    BY <1>1, <1>2, <1>4 DEF Frame, Stores
  <1> QED  BY <1>1, <1>2, <1>3, <1>4, <1>5, ChangeType DEF Changes, CreateInMaps, SetUser, Answer

LEMMA UpdatedEffect ==
    ASSUME TypeOK, NEW r \in Requests, NEW i \in Ids, NEW v \in Versions,
           NEW redis \in Accounts, NEW memory \in Accounts, Updated(r, i, v, redis, memory),
           \A j \in Ids : redis.user[j] = store["redis"].user[j] \/ (j = i /\ redis.user[j] = v),
           \A j \in Ids : memory.user[j] = store["memory"].user[j] \/ (j = i /\ memory.user[j] = v)
    PROVE  /\ Changes(i, v) /\ store' \in [Stores -> Accounts]
           /\ latest' \in [Ids -> Versions] /\ astray' \subseteq Ids
           /\ store'["redis"] = redis /\ store'["memory"] = memory
           /\ userCache' = [userCache EXCEPT ![i] = v] /\ emailToId' = i
           /\ request' = [request EXCEPT ![r] = Idle]
  <1>1. Stored(redis, memory) /\ Took(i, v)
    BY DEF Updated
  <1>2. store' \in [Stores -> Accounts] /\ store'["redis"] = redis /\ store'["memory"] = memory
    BY <1>1, StoredEffect
  <1>3. Frame(i, v)
    BY <1>2 DEF Frame, Stores
  <1> QED  BY <1>1, <1>2, <1>3, ChangeType DEF Changes, Updated, SetUser, Answer

-----------------------------------------------------------------------------
(* How the lookup of an account ends, or where it waits.                     *)

\* The account was in the cache or in a store, and is cached.
Cached(i) ==
    \E v \in Versions \ {Absent} :
        /\ v \in {userCache[i]} \cup {store[s].user[i] : s \in Stores}
        /\ userCache' = [userCache EXCEPT ![i] = v]
        /\ emailToId' \in {emailToId, i}

\* It was there, and its id and email are cached no longer.
Dropped(i) ==
    /\ userCache[i] # Absent \/ \E s \in Stores : store[s].user[i] # Absent
    /\ userCache' = [userCache EXCEPT ![i] = Absent]
    /\ emailToId' = NoId

Reading(r, kind, i) ==
    /\ Cached(i) /\ UNCHANGED accounts
    /\ \/ kind \in {"read", "create"} /\ Answer(r)
       \/ kind = "update" /\ Await(r, [phase |-> "hash", kind |-> kind, id |-> i])

Dropping(r, kind, i) ==
    /\ kind = "delete" /\ Dropped(i) /\ connected
    /\ Await(r, [phase |-> "delUser", kind |-> kind, id |-> i]) /\ UNCHANGED accounts

Deleting(r, kind, i) ==
    /\ kind = "delete" /\ Dropped(i) /\ ~connected
    /\ Answer(r) /\ DeleteFromMaps(i, store["redis"])

Asking(r, kind, i) ==
    /\ connected /\ UNCHANGED <<accounts, caches>>
    /\ Await(r, [phase |-> "getUser", kind |-> kind, id |-> i])

Has(r, kind, i) == Reading(r, kind, i) \/ Dropping(r, kind, i) \/ Deleting(r, kind, i)

\* A lookup by id comes to nothing only if a store, asked, has no account.
LEMMA FetchedForm ==
    ASSUME TypeOK, NEW r \in Requests, NEW kind \in Kinds, NEW i \in Ids,
           NEW v \in {Absent} \cup {store[s].user[i] : s \in Stores}, Fetched(r, kind, i, v)
    PROVE  (v = Absent /\ NotFound(r, kind)) \/ Has(r, kind, i)
  <1> DEFINE users == [userCache EXCEPT ![i] = v]
  <1>1. v \in Versions
    BY StoresType, VersionsType DEF Accounts
  <1>2. CASE v = Absent
    BY <1>2 DEF Fetched
  <1>3. CASE v # Absent
    <2>1. Found(r, kind, i, users, i)
      BY <1>3 DEF Fetched
    <2>2. userCache' = users /\ emailToId' = i => Cached(i)
      BY <1>1, <1>3 DEF Cached
    <2>3. InvalidateUser(users, i) => Dropped(i)
      BY <1>1, <1>3 DEF InvalidateUser, Dropped, TypeOK
    <2> QED
      BY <2>1, <2>2, <2>3 DEF Found, Has, Reading, Dropping, Deleting
  <1> QED  BY <1>2, <1>3

LEMMA FindByIdForm ==
    ASSUME TypeOK, NEW r \in Requests, NEW kind \in Kinds, NEW i \in Ids, FindById(r, kind, i)
    PROVE  \/ Has(r, kind, i) \/ Asking(r, kind, i)
           \/ NotFound(r, kind) /\ ~connected /\ store["memory"].user[i] = Absent
  <1>1. CASE userCache[i] # Absent
    <2>1. Found(r, kind, i, userCache, emailToId)
      BY <1>1 DEF FindById
    <2>2. userCache' = userCache /\ emailToId' = emailToId => Cached(i)
      <3>1. userCache[i] \in Versions \ {Absent} /\ userCache = [userCache EXCEPT ![i] = userCache[i]]
        BY <1>1 DEF TypeOK
      <3> QED  BY <3>1 DEF Cached
    <2>3. InvalidateUser(userCache, i) => Dropped(i)
      BY <1>1 DEF InvalidateUser, Dropped
    <2> QED
      BY <2>1, <2>2, <2>3 DEF Found, Has, Reading, Dropping, Deleting
  <1>2. CASE userCache[i] = Absent /\ connected
    BY <1>2 DEF FindById, Asking
  <1>3. CASE userCache[i] = Absent /\ ~connected
    <2>1. Fetched(r, kind, i, store["memory"].user[i])
      BY <1>3 DEF FindById
    <2> QED  BY <1>3, <2>1, FetchedForm DEF Stores
  <1> QED  BY <1>1, <1>2, <1>3

\* A lookup by an email that an index has led to an id, or to none.
LEMMA LeadForm ==
    ASSUME TypeOK, NEW r \in Requests, NEW kind \in Kinds, NEW i \in Ids \cup {NoId}, Lead(r, kind, i)
    PROVE  \/ i \in Ids /\ (Has(r, kind, i) \/ Asking(r, kind, i))
           \/ NotFound(r, kind) /\ (i = NoId \/ (~connected /\ store["memory"].user[i] = Absent))
  BY FindByIdForm, UsersAssumption DEF Lead

-----------------------------------------------------------------------------
(* Who may know an id.                                                       *)

\* A registration has drawn its id and is writing; a change has found its account.
Creating(w) == w.phase \in {"setUser", "setEmail"} /\ w.kind = "create"
Changing(w) == w.phase # "idle" /\ w.kind \in {"update", "delete"}

\* No two registrations write the same id; what a registration stored stays
\* until it is answered; only ids that were answered are changed.
KnowsItsId(q, w) ==
    /\ w.phase = "getEmail" => w.kind \in {"read", "create"}
    /\ w.phase = "setEmail" => w.kind = "create" /\ latest[w.id] = w.to
    /\ w.phase \in {"setUser", "setEmail"} => w.to # Absent
    /\ Creating(w) => w.id \in born /\ \A p \in Requests \ {q} : Creating(request[p]) => request[p].id # w.id
    /\ Changing(w) => Known(w.id)

IdInv == \A q \in Requests : KnowsItsId(q, request[q])

\* An id that is not drawn yet, or whose account is on its way to the store.
Fresh(i) == i \notin born \/ \E q \in Requests :
    request[q].phase = "setUser" /\ request[q].kind = "create" /\ request[q].id = i

FreshIsAbsent ==
    \A i \in Ids : Fresh(i) => userCache[i] = Absent /\ \A s \in Stores : store[s].user[i] = Absent

LInv == TypeOK /\ IdInv /\ FreshIsAbsent

LEMMA WaitForms ==
    ASSUME NEW w \in Waits
    PROVE  /\ w.phase \in {"idle", "getEmail", "getUser", "hash", "setUser", "setEmail", "delUser", "delEmail"}
           /\ w.phase = "idle" <=> w = Idle
           /\ w.phase # "idle" => w.kind \in Kinds
           /\ w.phase \in {"getUser", "setUser", "setEmail", "delUser", "delEmail"} => w.id \in Ids
           /\ w.phase = "hash" => w.kind \in {"create", "update"}
           /\ w.phase = "hash" /\ w.kind = "update" => w.id \in Ids
           /\ w.phase \in {"setUser", "setEmail"} => w.to \in Versions /\ w.kind \in {"create", "update"}
           /\ w.phase \in {"delUser", "delEmail"} => w.kind = "delete"
           /\ Creating(w) => w.id \in Ids
           /\ w.phase \in {"setUser", "setEmail"} =>
                w = [phase |-> w.phase, kind |-> w.kind, id |-> w.id, to |-> w.to]
           /\ w.phase \in {"delUser", "delEmail"} => w = [phase |-> w.phase, kind |-> w.kind, id |-> w.id]
  BY DEF Waits, Idle, Kinds, Creating

LEMMA RequestTypes ==
    ASSUME TypeOK
    PROVE  \A q \in Requests : request[q] \in Waits
  BY DEF TypeOK, Waits

\* What one step of a lookup knows: it begins or goes on.
Opens(r, kind) ==
    /\ UNCHANGED <<connected, version, born>> /\ steady' \in {steady, FALSE}
    /\ \/ Begin(r, kind)
       \/ request[r].phase \in {"getEmail", "getUser"} /\ request[r].kind = kind /\ overlapped' = overlapped

\* Why it finds nothing while one store answers.
Missed(r) ==
    \/ ~connected /\ emailToId = NoId /\ store["memory"].email = NoId
    \/ ~connected /\ \E i \in {emailToId, store["memory"].email} \ {NoId} : store["memory"].user[i] = Absent
    \/ request[r].phase = "getEmail" /\ (store["redis"].email = NoId \/ ~connected)
    \/ request[r].phase = "getUser" /\ store["redis"].user[request[r].id] = Absent

AskingEmail(r, kind) ==
    /\ kind \in {"read", "create"} /\ connected /\ UNCHANGED <<accounts, caches>>
    /\ Await(r, [phase |-> "getEmail", kind |-> kind])

Misses(r, kind) == NotFound(r, kind) /\ (steady' /\ kind = "create" => Missed(r))

Finds(r, kind, i) ==
    /\ kind \in {"update", "delete"} => Known(i)
    /\ \/ Has(r, kind, i)
       \/ Asking(r, kind, i) /\ (steady' /\ kind = "create" => i \in {emailToId, store["redis"].email})

Looks(r, kind) == Misses(r, kind) \/ AskingEmail(r, kind) \/ \E i \in Ids : Finds(r, kind, i)

LEMMA FindByEmailForm ==
    ASSUME TypeOK, NEW r \in Requests, NEW kind \in {"read", "create"}, FindByEmail(r, kind)
    PROVE  Looks(r, kind)
  <1> kind \in Kinds
    BY DEF Kinds
  <1>1. emailToId \in Ids \cup {NoId} /\ store["memory"].email \in Ids \cup {NoId}
    BY StoresType DEF TypeOK, Accounts
  <1>2. CASE emailToId # NoId
    <2>1. emailToId \in Ids /\ FindById(r, kind, emailToId)
      BY <1>1, <1>2 DEF FindByEmail
    <2> QED
      BY <1>2, <2>1, FindByIdForm DEF Looks, Misses, Missed, Finds
  <1>3. CASE emailToId = NoId /\ connected
    BY <1>3 DEF FindByEmail, Looks, AskingEmail
  <1>4. CASE emailToId = NoId /\ ~connected
    <2>1. Lead(r, kind, store["memory"].email)
      BY <1>4 DEF FindByEmail
    <2> QED
      BY <1>1, <1>4, <2>1, LeadForm DEF Looks, Misses, Missed, Finds, Asking
  <1> QED  BY <1>2, <1>3, <1>4

LEMMA GetEmailForm ==
    ASSUME LInv, NEW r \in Requests, GetEmailReplies(r)
    PROVE  \E kind \in Kinds : Opens(r, kind) /\ Looks(r, kind)
  <1> DEFINE kind == request[r].kind
  <1>1. kind \in {"read", "create"} /\ kind \in Kinds /\ request[r].phase = "getEmail"
    BY RequestTypes, WaitForms DEF GetEmailReplies, LInv, IdInv, KnowsItsId, Kinds
  <1>2. store["redis"].email \in Ids \cup {NoId} /\ store["memory"].email \in Ids \cup {NoId}
    BY StoresType DEF LInv, Accounts
  <1>3. Opens(r, kind)
    BY <1>1 DEF GetEmailReplies, Opens
  <1>4. ASSUME Lead(r, kind, store["redis"].email)
        PROVE  Looks(r, kind)
    BY <1>1, <1>2, <1>4, LeadForm DEF Looks, Misses, Missed, Finds, LInv
  <1>5. ASSUME Lead(r, kind, store["memory"].email), steady' = FALSE
        PROVE  Looks(r, kind)
    BY <1>1, <1>2, <1>5, LeadForm DEF Looks, Misses, Finds, LInv
  <1> QED  BY <1>1, <1>3, <1>4, <1>5 DEF GetEmailReplies

LEMMA GetUserForm ==
    ASSUME LInv, NEW r \in Requests, GetUserReplies(r)
    PROVE  \E kind \in Kinds : Opens(r, kind) /\ Looks(r, kind)
  <1> DEFINE kind == request[r].kind
             i == request[r].id
             inMap == IF connected THEN Absent ELSE store["memory"].user[i]
             inRedis == IF store["redis"].user[i] # Absent THEN store["redis"].user[i] ELSE inMap
  <1>1. kind \in Kinds /\ i \in Ids /\ request[r].phase = "getUser" /\ TypeOK
    BY RequestTypes, WaitForms DEF GetUserReplies, LInv
  <1>2. Opens(r, kind) /\ (kind \in {"update", "delete"} => Known(i))
    BY <1>1 DEF GetUserReplies, Opens, LInv, IdInv, KnowsItsId, Changing
  <1>3. inMap \in {Absent} \cup {store[s].user[i] : s \in Stores}
    BY DEF Stores
  <1>4. inRedis \in {Absent} \cup {store[s].user[i] : s \in Stores}
    BY <1>3 DEF Stores
  <1>5. inRedis = Absent => store["redis"].user[i] = Absent
    OBVIOUS
  <1>6. \/ Fetched(r, kind, i, inRedis)
        \/ Fetched(r, kind, i, inMap) /\ steady' = FALSE
    BY DEF GetUserReplies
  <1> HIDE DEF inRedis, inMap
  <1>7. ASSUME Fetched(r, kind, i, inRedis)
        PROVE  Looks(r, kind)
    <2>1. (inRedis = Absent /\ NotFound(r, kind)) \/ Has(r, kind, i)
      BY <1>1, <1>4, <1>7, FetchedForm
    <2> QED  BY <1>1, <1>2, <1>5, <2>1 DEF Looks, Misses, Missed, Finds
  <1>8. ASSUME Fetched(r, kind, i, inMap), steady' = FALSE
        PROVE  Looks(r, kind)
    <2>1. NotFound(r, kind) \/ Has(r, kind, i)
      BY <1>1, <1>3, <1>8, FetchedForm
    <2> QED  BY <1>1, <1>2, <1>8, <2>1 DEF Looks, Misses, Finds
  <1> QED  BY <1>1, <1>2, <1>6, <1>7, <1>8

\* Every step that looks an account up, begun or gone on with.
LEMMA LookupForm ==
    ASSUME LInv, NEW r \in Requests,
           \/ Create(r) \/ Login(r)
           \/ \E i \in Ids : \E kind \in {"read", "update", "delete"} : ById(r, i, kind)
           \/ GetEmailReplies(r) \/ GetUserReplies(r)
    PROVE  \E kind \in Kinds : Opens(r, kind) /\ Looks(r, kind)
  <1> USE DEF LInv
  <1>1. \A kind \in Kinds : Begin(r, kind) => Opens(r, kind)
    BY DEF Begin, Opens
  <1>2. CASE Create(r)
    BY <1>1, <1>2, FindByEmailForm DEF Create, Kinds
  <1>3. CASE Login(r)
    BY <1>1, <1>3, FindByEmailForm DEF Login, Kinds
  <1>4. ASSUME NEW i \in Ids, NEW kind \in {"read", "update", "delete"}, ById(r, i, kind)
        PROVE  Opens(r, kind) /\ Looks(r, kind)
    <2>1. kind \in Kinds /\ kind # "create" /\ Known(i) /\ FindById(r, kind, i) /\ Opens(r, kind)
      BY <1>1, <1>4 DEF ById, Kinds
    <2>2. Has(r, kind, i) \/ Asking(r, kind, i) \/ NotFound(r, kind)
      BY <2>1, FindByIdForm
    <2> QED  BY <2>1, <2>2 DEF Looks, Misses, Finds
  <1>5. CASE \E i \in Ids : \E kind \in {"read", "update", "delete"} : ById(r, i, kind)
    BY <1>4, <1>5 DEF Kinds
  <1> QED  BY <1>2, <1>3, <1>5, GetEmailForm, GetUserForm

-----------------------------------------------------------------------------
(* What a step leaves, whichever it is.                                      *)

DataTyped ==
    /\ store' \in [Stores -> Accounts] /\ latest' \in [Ids -> Versions] /\ astray' \subseteq Ids
    /\ userCache' \in [Ids -> Versions] /\ emailToId' \in Ids \cup {NoId}

\* Only what a store holds gets into the cache.
OnlyReads ==
    \A j \in Ids : userCache'[j] \in {Absent, userCache[j]} \cup {store[s].user[j] : s \in Stores}

OnlyForgets == \A j \in Ids : userCache'[j] \in {Absent, userCache[j]}

\* The request of a lookup waits as w.
Waiting(r, kind, w) ==
    /\ request' = [request EXCEPT ![r] = w]
    /\ w.phase \in {"idle", "getEmail", "getUser", "hash", "delUser"}
    /\ w.phase # "idle" => w.kind = kind
    /\ w.phase = "getEmail" => kind \in {"read", "create"}
    /\ w.phase # "idle" /\ kind \in {"update", "delete"} => Known(w.id)
    /\ w.phase = "delUser" => userCache'[w.id] = Absent

LEMMA UnchangedTyped ==
    ASSUME TypeOK, UNCHANGED accounts
    PROVE  store' \in [Stores -> Accounts] /\ latest' \in [Ids -> Versions] /\ astray' \subseteq Ids
  BY StoresType DEF TypeOK, accounts

LEMMA NotFoundEffect ==
    ASSUME LInv, NEW r \in Requests, NEW kind \in Kinds, NotFound(r, kind) \/ AskingEmail(r, kind)
    PROVE  /\ \E w \in Waits : Waiting(r, kind, w)
           /\ DataTyped /\ OnlyForgets /\ UNCHANGED <<accounts, caches>>
  <1> USE DEF LInv
  <1>1. UNCHANGED <<accounts, caches>>
    BY DEF NotFound, AskingEmail
  <1>2. DataTyped /\ OnlyForgets
    BY <1>1, UnchangedTyped DEF DataTyped, OnlyForgets, TypeOK, caches
  <1>3. ASSUME NEW w \in Waits, request' = [request EXCEPT ![r] = w],
               w.phase \in {"idle", "getEmail", "hash"}, w.phase # "idle" => w.kind = kind,
               w.phase # "idle" => kind \in {"read", "create"}
        PROVE  Waiting(r, kind, w)
    BY <1>3 DEF Waiting
  <1>4. CASE NotFound(r, kind)
    <2>1. CASE kind = "create" /\ request' = [request EXCEPT ![r] = [phase |-> "hash", kind |-> kind]]
      <3>1. [phase |-> "hash", kind |-> kind] \in Waits
        BY <2>1 DEF Waits
      <3> QED  BY <1>1, <1>2, <1>3, <2>1, <3>1
    <2>2. CASE request' = [request EXCEPT ![r] = Idle]
      <3>1. Idle \in Waits /\ Idle.phase = "idle"
        BY DEF Waits, Idle
      <3> QED  BY <1>1, <1>2, <1>3, <2>2, <3>1
    <2> QED  BY <1>4, <2>1, <2>2 DEF NotFound, Await, Answer
  <1>5. CASE AskingEmail(r, kind)
    <2>1. [phase |-> "getEmail", kind |-> kind] \in Waits
      BY DEF Waits
    <2> QED  BY <1>1, <1>2, <1>3, <1>5, <2>1 DEF AskingEmail, Await
  <1> QED  BY <1>1, <1>2, <1>4, <1>5

LEMMA FindsEffect ==
    ASSUME LInv, NEW r \in Requests, NEW kind \in Kinds, NEW i \in Ids, Finds(r, kind, i)
    PROVE  /\ \E w \in Waits : Waiting(r, kind, w)
           /\ DataTyped /\ OnlyReads /\ (kind = "delete" => OnlyForgets)
           /\ \/ UNCHANGED accounts
              \/ kind = "delete" /\ Known(i) /\ Changes(i, Absent) /\ userCache'[i] = Absent
  <1> USE DEF LInv
  <1>1. kind \in {"update", "delete"} => Known(i)
    BY DEF Finds
  <1>2. ASSUME NEW w \in Waits, request' = [request EXCEPT ![r] = w],
               w = Idle \/ (w.kind = kind /\ w.id = i), w.phase \in {"idle", "getUser", "hash", "delUser"},
               w.phase = "delUser" => userCache'[i] = Absent
        PROVE  Waiting(r, kind, w)
    BY <1>1, <1>2 DEF Waiting, Idle
  <1>3. CASE Asking(r, kind, i)
    <2>1. [phase |-> "getUser", kind |-> kind, id |-> i] \in Waits
      BY DEF Waits
    <2> QED
      BY <1>2, <1>3, <2>1, UnchangedTyped
      DEF Asking, Await, DataTyped, OnlyReads, OnlyForgets, TypeOK, caches
  <1>4. CASE Reading(r, kind, i)
    <2>1. \E w \in Waits : Waiting(r, kind, w)
      BY <1>2, <1>4 DEF Reading, Await, Answer, Waits, Idle
    <2>2. PICK v \in Versions : /\ v \in {userCache[i]} \cup {store[s].user[i] : s \in Stores}
                                /\ userCache' = [userCache EXCEPT ![i] = v]
                                /\ emailToId' \in {emailToId, i}
      BY <1>4 DEF Reading, Cached
    <2>3. OnlyReads
      BY <2>2 DEF OnlyReads, TypeOK
    <2>4. userCache' \in [Ids -> Versions] /\ emailToId' \in Ids \cup {NoId}
      BY <2>2 DEF TypeOK
    <2> QED
      BY <1>4, <2>1, <2>3, <2>4, UnchangedTyped DEF Reading, DataTyped
  <1>5. ASSUME Dropped(i)
        PROVE  /\ userCache' \in [Ids -> Versions] /\ emailToId' \in Ids \cup {NoId}
               /\ userCache'[i] = Absent /\ OnlyForgets /\ OnlyReads
    BY <1>5, VersionsType DEF Dropped, TypeOK, OnlyForgets, OnlyReads
  <1>6. CASE Dropping(r, kind, i)
    <2>1. [phase |-> "delUser", kind |-> kind, id |-> i] \in Waits
      BY <1>6 DEF Waits, Dropping
    <2> QED
      BY <1>2, <1>5, <1>6, <2>1, UnchangedTyped DEF Dropping, Await, DataTyped
  <1>7. CASE Deleting(r, kind, i)
    <2>1. Idle \in Waits /\ Idle.phase = "idle"
      BY DEF Waits, Idle
    <2>2. /\ Changes(i, Absent) /\ store' \in [Stores -> Accounts]
          /\ latest' \in [Ids -> Versions] /\ astray' \subseteq Ids
      BY <1>7, StoresType, DeleteFromMapsEffect DEF Deleting
    <2> QED
      BY <1>1, <1>2, <1>5, <1>7, <2>1, <2>2 DEF Deleting, Answer, DataTyped
  <1> QED  BY <1>3, <1>4, <1>6, <1>7 DEF Finds, Has

LEMMA LooksEffect ==
    ASSUME LInv, NEW r \in Requests, NEW kind \in Kinds, Looks(r, kind)
    PROVE  /\ \E w \in Waits : Waiting(r, kind, w)
           /\ DataTyped /\ OnlyReads /\ (kind = "delete" => OnlyForgets)
           /\ \/ UNCHANGED accounts
              \/ kind = "delete" /\ \E i \in Ids : Known(i) /\ Changes(i, Absent) /\ userCache'[i] = Absent
  <1>1. OnlyForgets => OnlyReads
    BY DEF OnlyForgets, OnlyReads
  <1>2. CASE Misses(r, kind) \/ AskingEmail(r, kind)
    BY <1>1, <1>2, NotFoundEffect DEF Misses
  <1>3. CASE \E i \in Ids : Finds(r, kind, i)
    BY <1>3, FindsEffect
  <1> QED  BY <1>2, <1>3 DEF Looks

LEMMA TypeStep ==
    ASSUME TypeOK, NEW r \in Requests, NEW w \in Waits, request' = [request EXCEPT ![r] = w], DataTyped,
           connected' \in BOOLEAN, steady' \in BOOLEAN, overlapped' \in BOOLEAN,
           version' \in Versions, born' \subseteq Ids
    PROVE  TypeOK'
  <1>1. request' \in [Requests -> Waits]
    BY DEF TypeOK, Waits
  <1>2. store' \in [Stores -> [user : [Ids -> Versions], email : Ids \cup {NoId}]]
    BY DEF DataTyped, Accounts
  <1> QED  BY <1>1, <1>2 DEF TypeOK, Waits, DataTyped, Versions, Stores

-----------------------------------------------------------------------------
(* Ids: the first half of the invariant.                                     *)

\* A step changes nothing of an id, but for what the cache may have read of it.
Quiet(j) ==
    /\ userCache'[j] \in {Absent, userCache[j]} \cup {store[s].user[j] : s \in Stores}
    /\ \A s \in Stores : store'[s].user[j] = store[s].user[j]
    /\ latest'[j] = latest[j]

\* What a request may write: an id that was answered, or its own.
Owned(r, i) ==
    \/ Known(i)
    \/ i \in born' \ born
    \/ Creating(request[r]) /\ request[r].id = i

Sound(w) ==
    /\ w.phase = "getEmail" => w.kind \in {"read", "create"}
    /\ w.phase = "setEmail" => w.kind = "create" /\ latest'[w.id] = w.to
    /\ w.phase \in {"setUser", "setEmail"} => w.to # Absent
    /\ Changing(w) => Known(w.id)

LEMMA IdsKept ==
    ASSUME LInv, TypeOK', NEW r \in Requests, NEW w \in Waits, request' = [request EXCEPT ![r] = w],
           born \subseteq born', Sound(w),
           Creating(w) => /\ w.id \in born'
                          /\ \/ w.id \notin born
                             \/ w.phase = "setEmail" /\ Creating(request[r]) /\ request[r].id = w.id,
           NEW i, \A j \in Ids : Quiet(j) \/ (j = i /\ Owned(r, i) /\ (Creating(w) => w.phase = "setEmail"))
    PROVE  IdInv' /\ FreshIsAbsent'
  <1> USE DEF LInv
  <1>1. request'[r] = w /\ \A q \in Requests \ {r} : request'[q] = request[q]
    BY DEF TypeOK
  <1>2. ASSUME NEW q \in Requests, Creating(request[q])
        PROVE  /\ request[q].id \in born /\ request[q].id \in Ids
               /\ \A p \in Requests \ {q} : Creating(request[p]) => request[p].id # request[q].id
    BY <1>2, RequestTypes, WaitForms DEF IdInv, KnowsItsId
  <1>3. ASSUME NEW j, Known(j)
        PROVE  Known(j)'
    BY <1>1, <1>2, <1>3 DEF Known, Creating
  <1>4. ASSUME NEW q \in Requests \ {r}, Creating(request[q]), Owned(r, i)
        PROVE  request[q].id # i
    BY <1>2, <1>4 DEF Owned, Known, Creating
  <1>5. ASSUME NEW q \in Requests \ {r}, Creating(request[q])
        PROVE  request[q].id # w.id \/ ~Creating(w)
    BY <1>2, <1>5
  <1>6. IdInv'
    <2>1. ASSUME NEW q \in Requests \ {r}, NEW u \in Waits, u = request[q]
          PROVE  KnowsItsId(q, u)'
      <3>1. u.phase = "setEmail" => Creating(u) /\ latest'[u.id] = latest[u.id]
        BY <1>2, <1>4, <2>1 DEF Quiet, IdInv, KnowsItsId, Creating
      <3>2. Creating(u) => \A p \in Requests \ {q} : Creating(request'[p]) => request'[p].id # u.id
        BY <1>1, <1>2, <1>5, <2>1
      <3>3. KnowsItsId(q, u)
        BY <2>1 DEF IdInv
      <3> QED  BY <1>3, <3>1, <3>2, <3>3 DEF KnowsItsId
    <2>2. KnowsItsId(r, w)'
      <3>1. Creating(w) => \A p \in Requests \ {r} : Creating(request'[p]) => request'[p].id # w.id
        BY <1>1, <1>5
      <3> QED  BY <1>3, <3>1 DEF KnowsItsId, Sound
    <2>3. \A q \in Requests : q = r \/ request[q] \in Waits
      BY RequestTypes
    <2>4. ASSUME NEW q \in Requests \ {r}
          PROVE  KnowsItsId(q, request[q])'
      BY <1>1, <2>1, <2>3
    <2> QED  BY <1>1, <2>2, <2>4 DEF IdInv
  <1>7. FreshIsAbsent'
    <2> SUFFICES ASSUME NEW j \in Ids, Fresh(j)'
                 PROVE  userCache'[j] = Absent /\ \A s \in Stores : store'[s].user[j] = Absent
      BY DEF FreshIsAbsent
    <2>1. Fresh(j)
      BY <1>1 DEF Fresh, Creating
    <2>2. Quiet(j)
      BY <1>1, <1>2, <1>4 DEF Fresh, Owned, Creating, Known
    <2> QED  BY <2>1, <2>2 DEF Quiet, FreshIsAbsent
  <1> QED  BY <1>6, <1>7

LEMMA LookupKeepsIds ==
    ASSUME LInv, NEW r \in Requests, NEW kind \in Kinds, Opens(r, kind), Looks(r, kind)
    PROVE  LInv'
  <1> USE DEF LInv
  <1>1. PICK w \in Waits : Waiting(r, kind, w)
    BY LooksEffect
  <1>2. /\ DataTyped /\ OnlyReads
        /\ \/ UNCHANGED accounts
           \/ \E i \in Ids : Known(i) /\ Changes(i, Absent)
    BY LooksEffect
  <1>3. connected' \in BOOLEAN /\ steady' \in BOOLEAN /\ overlapped' \in BOOLEAN /\ version' \in Versions /\ born' = born
    BY DEF Opens, Begin, TypeOK
  <1>4. TypeOK'
    BY <1>1, <1>2, <1>3, TypeStep DEF Waiting, TypeOK
  <1>5. Sound(w) /\ ~Creating(w) /\ request' = [request EXCEPT ![r] = w]
    BY <1>1 DEF Waiting, Sound, Creating, Changing
  <1>6. PICK i : \A j \in Ids : Quiet(j) \/ (j = i /\ Known(i))
    <2>1. CASE UNCHANGED accounts
      <3>1. \A j \in Ids : Quiet(j)
        BY <1>2, <2>1 DEF OnlyReads, Quiet, accounts
      <3> QED  BY <3>1
    <2>2. ASSUME NEW i \in Ids, Known(i), Changes(i, Absent)
          PROVE  \A j \in Ids : Quiet(j) \/ (j = i /\ Known(i))
      BY <1>2, <2>2 DEF OnlyReads, Quiet, Changes, Frame, Took, TypeOK
    <2> QED  BY <1>2, <2>1, <2>2
  <1>7. IdInv' /\ FreshIsAbsent'
    BY <1>3, <1>4, <1>5, <1>6, IdsKept DEF Owned
  <1> QED  BY <1>4, <1>7

-----------------------------------------------------------------------------
(* The steps that write: what each leaves in the stores and in the caches.   *)

ChangeTo(i, v) ==
    /\ Changes(i, v)
    /\ store' \in [Stores -> Accounts] /\ latest' \in [Ids -> Versions] /\ astray' \subseteq Ids

UserIn(s, i, v) == \A j \in Ids : store'[s].user[j] = IF j = i THEN v ELSE store[s].user[j]

RedisSame == store'["redis"] = store["redis"]
MemorySame == store'["memory"] = store["memory"]

\* A registration or a change of password wrote to its store, or will.
HashedForm(r, i, v) ==
    /\ UNCHANGED <<connected, steady, overlapped>> /\ version' = v /\ v \in Versions \ {Absent}
    /\ \/ /\ connected /\ UNCHANGED <<accounts, caches>>
          /\ Await(r, [phase |-> "setUser", kind |-> request[r].kind, id |-> i, to |-> v])
       \/ /\ ~connected /\ ChangeTo(i, v) /\ SetUser(i, v) /\ Answer(r)
          /\ UserIn("memory", i, v) /\ RedisSame
          /\ store'["memory"].email = IF request[r].kind = "create" THEN i ELSE store["memory"].email

LEMMA NextVersion ==
    ASSUME TypeOK, version < MaxVersion
    PROVE  version + 1 \in Versions \ {Absent}
  BY UsersAssumption DEF TypeOK, Versions, Absent

LEMMA CreateHashedForm ==
    ASSUME LInv, NEW r \in Requests, CreateHashed(r)
    PROVE  \E i \in Ids \ born, v \in Versions : born' = born \cup {i} /\ HashedForm(r, i, v)
  <1> USE DEF LInv
  <1>1. version' \in Versions \ {Absent} /\ request[r].kind = "create"
    BY NextVersion DEF CreateHashed
  <1>2. PICK v \in Versions \ {Absent} : v = version'
    BY <1>1
  <1>3. PICK i \in Ids \ born :
          /\ born' = born \cup {i}
          /\ IF connected
             THEN /\ Await(r, [phase |-> "setUser", kind |-> "create", id |-> i, to |-> v])
                  /\ UNCHANGED <<accounts, caches>>
             ELSE CreateInMaps(r, i, v, store["redis"])
    BY <1>2 DEF CreateHashed
  <1>4. UNCHANGED <<connected, steady, overlapped>>
    BY DEF CreateHashed
  <1>5. CASE connected
    BY <1>1, <1>2, <1>3, <1>4, <1>5 DEF HashedForm
  <1>6. CASE ~connected
    <2>1. CreateInMaps(r, i, v, store["redis"])
      BY <1>3, <1>6
    <2>2. /\ ChangeTo(i, v) /\ RedisSame /\ store'["memory"].email = i
          /\ UserIn("memory", i, v) /\ SetUser(i, v) /\ Answer(r)
      BY <2>1, CreateInMapsEffect, StoresType DEF ChangeTo, RedisSame, UserIn, SetUser, Answer
    <2> QED  BY <1>1, <1>2, <1>3, <1>4, <1>6, <2>2 DEF HashedForm
  <1> QED  BY <1>5, <1>6

LEMMA UpdateHashedForm ==
    ASSUME LInv, NEW r \in Requests, UpdateHashed(r)
    PROVE  /\ request[r].id \in Ids /\ born' = born
           /\ \E v \in Versions : HashedForm(r, request[r].id, v)
  <1> USE DEF LInv
  <1>1. version' \in Versions \ {Absent} /\ request[r].kind = "update" /\ request[r].id \in Ids
    BY NextVersion, RequestTypes, WaitForms DEF UpdateHashed
  <1>2. PICK v \in Versions \ {Absent} : v = version'
    BY <1>1
  <1>3. PICK i \in Ids : i = request[r].id
    BY <1>1
  <1>4. UNCHANGED <<connected, steady, overlapped, born>>
    BY DEF UpdateHashed
  <1>5. CASE connected
    <2>1. Await(r, [phase |-> "setUser", kind |-> "update", id |-> i, to |-> v]) /\ UNCHANGED <<accounts, caches>>
      BY <1>2, <1>3, <1>5 DEF UpdateHashed
    <2> QED  BY <1>1, <1>2, <1>3, <1>4, <1>5, <2>1 DEF HashedForm
  <1>6. CASE ~connected
    <2> DEFINE memory == WithUser(store["memory"], i, v)
    <2>1. Updated(r, i, v, store["redis"], memory)
      BY <1>2, <1>3, <1>6 DEF UpdateHashed
    <2>2. /\ memory \in Accounts /\ memory.email = store["memory"].email
          /\ \A j \in Ids : memory.user[j] = IF j = i THEN v ELSE store["memory"].user[j]
      BY StoresType, WithUserEffect
    <2> HIDE DEF memory
    <2>3. /\ ChangeTo(i, v) /\ RedisSame /\ store'["memory"] = memory
          /\ SetUser(i, v) /\ Answer(r)
      BY <2>1, <2>2, UpdatedEffect, StoresType DEF ChangeTo, RedisSame, SetUser, Answer
    <2>4. UserIn("memory", i, v) /\ store'["memory"].email = store["memory"].email
      BY <2>2, <2>3 DEF UserIn
    <2> QED  BY <1>1, <1>2, <1>3, <1>4, <1>6, <2>3, <2>4 DEF HashedForm
  <1> QED  BY <1>5, <1>6

\* What Redis holds after a command on an account, or on the index of the email.
LEMMA RedisUserEffect ==
    ASSUME TypeOK, NEW i \in Ids, NEW v \in Versions
    PROVE  /\ WithUser(store["redis"], i, v) \in Accounts
           /\ WithUser(store["redis"], i, v).email = store["redis"].email
           /\ \A redis \in {store["redis"], WithUser(store["redis"], i, v)}, j \in Ids :
                redis.user[j] = store["redis"].user[j] \/ (j = i /\ redis.user[j] = v)
  BY StoresType, WithUserEffect

\* The account's own command took effect, with nothing but Redis changed.
RedisUser(i, v) ==
    /\ ChangeTo(i, v) /\ UserIn("redis", i, v) /\ MemorySame
    /\ store'["redis"].email = store["redis"].email

LEMMA RedisUserForm ==
    ASSUME TypeOK, NEW i \in Ids, NEW v \in Versions,
           Stored(WithUser(store["redis"], i, v), store["memory"]), Took(i, v)
    PROVE  RedisUser(i, v)
  <1> DEFINE done == WithUser(store["redis"], i, v)
  <1>1. /\ done \in Accounts /\ done.email = store["redis"].email
        /\ \A j \in Ids : done.user[j] = IF j = i THEN v ELSE store["redis"].user[j]
    BY StoresType, WithUserEffect
  <1> HIDE DEF done
  <1>2. Stored(done, store["memory"])
    BY DEF done
  <1>3. store' \in [Stores -> Accounts] /\ store'["redis"] = done /\ store'["memory"] = store["memory"]
    BY <1>1, <1>2, StoresType, StoredEffect
  <1>4. Frame(i, v)
    BY <1>1, <1>3 DEF Frame, Stores
  <1> QED
    BY <1>1, <1>3, <1>4, ChangeType DEF RedisUser, ChangeTo, Changes, UserIn, MemorySame

\* The index's own command did.
RedisEmail(e) ==
    /\ store' \in [Stores -> Accounts] /\ UNCHANGED <<latest, astray>> /\ MemorySame
    /\ store'["redis"].email = e /\ store'["redis"].user = store["redis"].user

LEMMA RedisEmailForm ==
    ASSUME TypeOK, NEW e \in Ids \cup {NoId},
           Stored(WithEmail(store["redis"], e), store["memory"]), UNCHANGED <<latest, astray>>
    PROVE  RedisEmail(e)
  <1> DEFINE done == WithEmail(store["redis"], e)
  <1>1. done \in Accounts /\ done.email = e /\ done.user = store["redis"].user
    BY StoresType, WithEmailEffect
  <1> HIDE DEF done
  <1>2. Stored(done, store["memory"])
    BY DEF done
  <1> QED  BY <1>1, <1>2, StoresType, StoredEffect DEF RedisEmail, MemorySame

\* The command failed, executed or not: the Maps took the change.
FellBack(r, i, v) == ChangeTo(i, v) /\ Answer(r) /\ steady' = FALSE

Subject(r, phases) ==
    /\ request[r].phase \in phases /\ request[r].id \in Ids
    /\ UNCHANGED <<connected, version, born, overlapped>>

LEMMA CreateFellBack ==
    ASSUME TypeOK, NEW r \in Requests, NEW i \in Ids, NEW v \in Versions, NEW redis \in Accounts,
           \A j \in Ids : redis.user[j] = store["redis"].user[j] \/ (j = i /\ redis.user[j] = v),
           CreateInMaps(r, i, v, redis), steady' = FALSE
    PROVE  FellBack(r, i, v) /\ SetUser(i, v)
  BY CreateInMapsEffect DEF FellBack, ChangeTo, SetUser, Answer

LEMMA CreateUserForm ==
    ASSUME LInv, NEW r \in Requests, CreateUserReplies(r)
    PROVE  /\ Subject(r, {"setUser"}) /\ request[r].kind = "create" /\ request[r].to \in Versions
           /\ \/ /\ RedisUser(request[r].id, request[r].to) /\ UNCHANGED <<caches, steady>>
                 /\ Await(r, [request[r] EXCEPT !.phase = "setEmail"])
              \/ FellBack(r, request[r].id, request[r].to) /\ SetUser(request[r].id, request[r].to)
  <1> USE DEF LInv
  <1> DEFINE i == request[r].id
             v == request[r].to
             done == WithUser(store["redis"], i, v)
  <1>1. i \in Ids /\ v \in Versions
    BY RequestTypes, WaitForms DEF CreateUserReplies
  <1>2. Subject(r, {"setUser"}) /\ request[r].kind = "create"
    BY <1>1 DEF Subject, CreateUserReplies
  <1>3. CASE /\ Stored(done, store["memory"]) /\ Took(i, v)
             /\ Await(r, [request[r] EXCEPT !.phase = "setEmail"]) /\ UNCHANGED <<caches, steady>>
    BY <1>1, <1>2, <1>3, RedisUserForm
  <1>4. CASE \E redis \in {store["redis"], done} : CreateInMaps(r, i, v, redis) /\ steady' = FALSE
    <2>1. PICK redis \in {store["redis"], done} : CreateInMaps(r, i, v, redis)
      BY <1>4
    <2>2. /\ redis \in Accounts
          /\ \A j \in Ids : redis.user[j] = store["redis"].user[j] \/ (j = i /\ redis.user[j] = v)
      BY <1>1, RedisUserEffect, StoresType
    <2> HIDE DEF i, v
    <2>3. FellBack(r, i, v) /\ SetUser(i, v)
      BY <1>1, <1>4, <2>1, <2>2, CreateFellBack
    <2> QED  BY <1>1, <1>2, <2>3 DEF i, v
  <1> QED  BY <1>3, <1>4 DEF CreateUserReplies

LEMMA CreateEmailForm ==
    ASSUME LInv, NEW r \in Requests, CreateEmailReplies(r)
    PROVE  /\ Subject(r, {"setEmail"}) /\ request[r].to \in Versions
           /\ SetUser(request[r].id, request[r].to)
           /\ \/ RedisEmail(request[r].id) /\ Answer(r) /\ UNCHANGED steady
              \/ FellBack(r, request[r].id, request[r].to)
  <1> USE DEF LInv
  <1> DEFINE i == request[r].id
             v == request[r].to
             done == WithEmail(store["redis"], i)
  <1>1. i \in Ids /\ v \in Versions
    BY RequestTypes, WaitForms DEF CreateEmailReplies
  <1>2. Subject(r, {"setEmail"})
    BY <1>1 DEF Subject, CreateEmailReplies
  <1>3. CASE /\ Stored(done, store["memory"])
             /\ SetUser(i, v) /\ Answer(r) /\ UNCHANGED <<latest, astray, steady>>
    BY <1>1, <1>2, <1>3, RedisEmailForm
  <1>4. CASE \E redis \in {store["redis"], done} : CreateInMaps(r, i, v, redis) /\ steady' = FALSE
    <2>1. done \in Accounts /\ done.user = store["redis"].user
      BY <1>1, StoresType, WithEmailEffect
    <2> HIDE DEF done
    <2> QED  BY <1>1, <1>2, <1>4, <2>1, StoresType, CreateFellBack
  <1> QED  BY <1>3, <1>4 DEF CreateEmailReplies

LEMMA UpdateUserForm ==
    ASSUME LInv, NEW r \in Requests, UpdateUserReplies(r)
    PROVE  /\ Subject(r, {"setUser"}) /\ request[r].kind = "update" /\ request[r].to \in Versions
           /\ SetUser(request[r].id, request[r].to)
           /\ \/ RedisUser(request[r].id, request[r].to) /\ Answer(r) /\ UNCHANGED steady
              \/ FellBack(r, request[r].id, request[r].to)
  <1> USE DEF LInv
  <1> DEFINE i == request[r].id
             v == request[r].to
             done == WithUser(store["redis"], i, v)
             memory == WithUser(store["memory"], i, v)
  <1>1. i \in Ids /\ v \in Versions
    BY RequestTypes, WaitForms DEF UpdateUserReplies
  <1>2. Subject(r, {"setUser"}) /\ request[r].kind = "update"
    BY <1>1 DEF Subject, UpdateUserReplies
  <1>3. CASE Updated(r, i, v, done, store["memory"]) /\ UNCHANGED steady
    BY <1>1, <1>2, <1>3, RedisUserForm DEF Updated
  <1>4. CASE \E redis \in {store["redis"], done} : Updated(r, i, v, redis, memory) /\ steady' = FALSE
    <2>1. memory \in Accounts /\ \A j \in Ids : memory.user[j] = IF j = i THEN v ELSE store["memory"].user[j]
      BY <1>1, StoresType, WithUserEffect
    <2>2. PICK redis \in {store["redis"], done} : Updated(r, i, v, redis, memory)
      BY <1>4
    <2>3. /\ redis \in Accounts
          /\ \A j \in Ids : redis.user[j] = store["redis"].user[j] \/ (j = i /\ redis.user[j] = v)
      BY <1>1, RedisUserEffect, StoresType
    <2> HIDE DEF memory, i, v
    <2>4. Changes(i, v) /\ store' \in [Stores -> Accounts] /\ latest' \in [Ids -> Versions] /\ astray' \subseteq Ids
      BY <1>1, <2>1, <2>2, <2>3, UpdatedEffect
    <2>5. SetUser(i, v) /\ Answer(r)
      BY <2>2 DEF Updated
    <2> QED  BY <1>1, <1>2, <1>4, <2>4, <2>5 DEF FellBack, ChangeTo, i, v
  <1> QED  BY <1>3, <1>4 DEF UpdateUserReplies

LEMMA DeleteUserForm ==
    ASSUME LInv, NEW r \in Requests, DeleteUserReplies(r)
    PROVE  /\ Subject(r, {"delUser"}) /\ UNCHANGED caches
           /\ \/ /\ RedisUser(request[r].id, Absent) /\ UNCHANGED steady
                 /\ Await(r, [request[r] EXCEPT !.phase = "delEmail"])
              \/ FellBack(r, request[r].id, Absent)
  <1> USE DEF LInv
  <1> DEFINE i == request[r].id
             done == WithUser(store["redis"], i, Absent)
  <1>1. i \in Ids /\ Absent \in Versions
    BY RequestTypes, WaitForms, VersionsType DEF DeleteUserReplies
  <1>2. Subject(r, {"delUser"}) /\ UNCHANGED caches
    BY <1>1 DEF Subject, DeleteUserReplies
  <1>3. CASE /\ Stored(done, store["memory"]) /\ Took(i, Absent)
             /\ Await(r, [request[r] EXCEPT !.phase = "delEmail"]) /\ UNCHANGED steady
    BY <1>1, <1>2, <1>3, RedisUserForm
  <1>4. CASE \E redis \in {store["redis"], done} : DeleteFromMaps(i, redis) /\ Answer(r) /\ steady' = FALSE
    BY <1>1, <1>2, <1>4, RedisUserEffect, StoresType, DeleteFromMapsEffect DEF FellBack, ChangeTo
  <1> QED  BY <1>3, <1>4 DEF DeleteUserReplies

LEMMA DeleteEmailForm ==
    ASSUME LInv, NEW r \in Requests, DeleteEmailReplies(r)
    PROVE  /\ Subject(r, {"delEmail"}) /\ UNCHANGED caches
           /\ \/ RedisEmail(NoId) /\ Answer(r) /\ UNCHANGED steady
              \/ FellBack(r, request[r].id, Absent)
  <1> USE DEF LInv
  <1> DEFINE i == request[r].id
             done == WithEmail(store["redis"], NoId)
  <1>1. i \in Ids
    BY RequestTypes, WaitForms DEF DeleteEmailReplies
  <1>2. Subject(r, {"delEmail"}) /\ UNCHANGED caches /\ Answer(r)
    BY <1>1 DEF Subject, DeleteEmailReplies
  <1>3. CASE Stored(done, store["memory"]) /\ UNCHANGED <<latest, astray, steady>>
    BY <1>1, <1>2, <1>3, RedisEmailForm
  <1>4. CASE \E redis \in {store["redis"], done} : DeleteFromMaps(i, redis) /\ steady' = FALSE
    <2>1. done \in Accounts /\ done.user = store["redis"].user
      BY StoresType, WithEmailEffect
    <2> HIDE DEF done
    <2> QED
      BY <1>1, <1>2, <1>4, <2>1, StoresType, DeleteFromMapsEffect DEF FellBack, ChangeTo
  <1> QED  BY <1>3, <1>4 DEF DeleteEmailReplies

-----------------------------------------------------------------------------
(* The steps that write keep the first half of the invariant.                *)

LEMMA WriteKeepsIds ==
    ASSUME LInv, NEW r \in Requests, NEW w \in Waits, NEW i \in Ids, NEW v \in Versions,
           request' = [request EXCEPT ![r] = w],
           ChangeTo(i, v) \/ (\E e \in Ids \cup {NoId} : RedisEmail(e)),
           UNCHANGED caches \/ SetUser(i, v),
           connected' \in BOOLEAN, steady' \in BOOLEAN, overlapped' \in BOOLEAN,
           version' \in Versions, born' \subseteq Ids, born \subseteq born',
           Owned(r, i), Sound(w),
           Creating(w) => w.phase = "setEmail" /\ Creating(request[r]) /\ request[r].id = w.id
    PROVE  LInv'
  <1> USE DEF LInv
  <1>1. store' \in [Stores -> Accounts] /\ latest' \in [Ids -> Versions] /\ astray' \subseteq Ids
    BY DEF ChangeTo, RedisEmail, TypeOK
  <1>2. userCache' \in [Ids -> Versions] /\ emailToId' \in Ids \cup {NoId}
    BY DEF SetUser, TypeOK, caches
  <1>3. TypeOK'
    BY <1>1, <1>2, TypeStep DEF DataTyped
  <1>4. Creating(request[r]) => request[r].id \in born
    BY DEF IdInv, KnowsItsId
  <1>5. \A j \in Ids \ {i} : userCache'[j] = userCache[j] /\ latest'[j] = latest[j]
    BY DEF SetUser, TypeOK, caches, ChangeTo, Changes, Took, RedisEmail
  <1>6. \A j \in Ids \ {i}, s \in Stores : store'[s].user[j] = store[s].user[j]
    BY DEF ChangeTo, Changes, Frame, RedisEmail, MemorySame, Stores
  <1>7. \A j \in Ids : Quiet(j) \/ j = i
    BY <1>5, <1>6 DEF Quiet
  <1>8. IdInv' /\ FreshIsAbsent'
    BY <1>3, <1>4, <1>7, IdsKept
  <1> QED  BY <1>3, <1>8

LEMMA HashedKeepsIds ==
    ASSUME LInv, NEW r \in Requests, NEW i \in Ids, NEW v \in Versions, HashedForm(r, i, v),
           \/ request[r].kind = "create" /\ i \notin born /\ born' = born \cup {i}
           \/ request[r].kind = "update" /\ Known(i) /\ born' = born
    PROVE  LInv'
  <1> USE DEF LInv
  <1>1. /\ connected' \in BOOLEAN /\ steady' \in BOOLEAN /\ overlapped' \in BOOLEAN
        /\ version' \in Versions /\ born' \subseteq Ids /\ born \subseteq born' /\ v # Absent
    BY DEF HashedForm, TypeOK
  <1>2. Owned(r, i)
    BY DEF Owned
  <1>3. ASSUME ~connected
        PROVE  LInv'
    <2>1. Idle \in Waits /\ Sound(Idle) /\ ~Creating(Idle)
      BY DEF Idle, Waits, Sound, Creating, Changing
    <2> QED  BY <1>1, <1>2, <1>3, <2>1, WriteKeepsIds DEF HashedForm, Answer
  <1>4. ASSUME connected
        PROVE  LInv'
    <2> DEFINE w == [phase |-> "setUser", kind |-> request[r].kind, id |-> i, to |-> v]
    <2>1. w \in Waits /\ request' = [request EXCEPT ![r] = w] /\ UNCHANGED <<accounts, caches>>
      BY <1>4 DEF HashedForm, Waits, Await
    <2>2. Sound(w) /\ (Creating(w) => w.id \in born' /\ w.id \notin born)
      BY <1>1 DEF Sound, Creating, Changing
    <2>3. DataTyped /\ \A j \in Ids : Quiet(j)
      BY <2>1, UnchangedTyped DEF DataTyped, Quiet, TypeOK, caches, accounts
    <2> HIDE DEF w
    <2>4. TypeOK'
      BY <1>1, <2>1, <2>3, TypeStep
    <2>5. IdInv' /\ FreshIsAbsent'
      BY <1>1, <2>1, <2>2, <2>3, <2>4, IdsKept
    <2> QED  BY <2>4, <2>5
  <1> QED  BY <1>3, <1>4

LEMMA AnsweredKeepsIds ==
    ASSUME LInv, NEW r \in Requests, NEW v \in Versions, NEW phases, Subject(r, phases), Answer(r),
           ChangeTo(request[r].id, v) \/ (\E e \in Ids \cup {NoId} : RedisEmail(e)),
           UNCHANGED caches \/ SetUser(request[r].id, v),
           steady' \in {steady, FALSE},
           Owned(r, request[r].id)
    PROVE  LInv'
  <1>1. Idle \in Waits /\ Sound(Idle) /\ ~Creating(Idle)
    BY DEF Idle, Waits, Sound, Creating, Changing
  <1>2. PICK i \in Ids : i = request[r].id
    BY DEF Subject
  <1> QED  BY <1>1, <1>2, WriteKeepsIds DEF Subject, Answer, LInv, TypeOK

LEMMA WritesKeepIds ==
    ASSUME LInv, NEW r \in Requests,
           \/ CreateHashed(r) \/ CreateUserReplies(r) \/ CreateEmailReplies(r)
           \/ UpdateHashed(r) \/ UpdateUserReplies(r)
           \/ DeleteUserReplies(r) \/ DeleteEmailReplies(r)
    PROVE  LInv'
  <1> USE DEF LInv
  <1>1. request[r] \in Waits /\ KnowsItsId(r, request[r])
    BY RequestTypes DEF IdInv
  <1>2. CASE CreateHashed(r)
    BY <1>2, CreateHashedForm, HashedKeepsIds DEF CreateHashed
  <1>3. CASE UpdateHashed(r)
    <2>1. request[r].kind = "update" /\ Known(request[r].id)
      BY <1>1, <1>3 DEF UpdateHashed, KnowsItsId, Changing
    <2> QED  BY <1>3, <2>1, UpdateHashedForm, HashedKeepsIds
  <1>4. CASE CreateUserReplies(r)
    <2>1. PICK i \in Ids, v \in Versions :
            /\ i = request[r].id /\ v = request[r].to
            /\ request[r].phase = "setUser" /\ request[r].kind = "create" /\ Subject(r, {"setUser"})
            /\ \/ /\ RedisUser(i, v) /\ UNCHANGED <<caches, steady>>
                  /\ Await(r, [request[r] EXCEPT !.phase = "setEmail"])
               \/ FellBack(r, i, v) /\ SetUser(i, v)
      BY <1>4, CreateUserForm DEF Subject
    <2>2. Owned(r, i) /\ v # Absent /\ Creating(request[r])
      BY <1>1, <2>1 DEF Owned, Creating, KnowsItsId
    <2>3. CASE FellBack(r, i, v) /\ SetUser(i, v)
      BY <2>1, <2>2, <2>3, AnsweredKeepsIds DEF FellBack
    <2>4. CASE /\ RedisUser(i, v) /\ UNCHANGED <<caches, steady>>
               /\ Await(r, [request[r] EXCEPT !.phase = "setEmail"])
      <3> DEFINE w == [phase |-> "setEmail", kind |-> "create", id |-> i, to |-> v]
      <3>1. w \in Waits /\ w = [request[r] EXCEPT !.phase = "setEmail"]
        BY <1>1, <2>1, WaitForms DEF Waits
      <3>2. latest'[i] = v
        BY <2>4 DEF RedisUser, ChangeTo, Changes, Took, TypeOK
      <3>3. Sound(w) /\ w.id = request[r].id /\ w.phase = "setEmail"
        BY <2>1, <2>2, <3>2 DEF Sound, Changing
      <3> HIDE DEF w
      <3>4. ChangeTo(i, v) /\ request' = [request EXCEPT ![r] = w] /\ UNCHANGED <<caches, connected, steady, overlapped, version, born>>
        BY <2>1, <2>4, <3>1 DEF RedisUser, Await, Subject
      <3> QED  BY <2>2, <3>1, <3>3, <3>4, WriteKeepsIds DEF TypeOK
    <2> QED  BY <2>1, <2>3, <2>4
  <1>5. CASE CreateEmailReplies(r)
    <2>1. Creating(request[r])
      BY <1>1, <1>5 DEF CreateEmailReplies, KnowsItsId, Creating
    <2> QED  BY <1>5, <2>1, CreateEmailForm, AnsweredKeepsIds DEF Owned, FellBack, Subject
  <1>6. CASE UpdateUserReplies(r)
    <2>1. Known(request[r].id)
      BY <1>1, <1>6 DEF UpdateUserReplies, KnowsItsId, Changing
    <2> QED  BY <1>6, <2>1, UpdateUserForm, AnsweredKeepsIds DEF Owned, FellBack, RedisUser
  <1>7. CASE DeleteUserReplies(r) \/ DeleteEmailReplies(r)
    <2>1. request[r].kind = "delete" /\ Known(request[r].id)
      BY <1>1, <1>7, WaitForms DEF DeleteUserReplies, DeleteEmailReplies, KnowsItsId, Changing
    <2>2. CASE DeleteUserReplies(r) /\ RedisUser(request[r].id, Absent)
               /\ UNCHANGED steady /\ Await(r, [request[r] EXCEPT !.phase = "delEmail"])
      <3>1. PICK i \in Ids : i = request[r].id
        BY <2>2, DeleteUserForm DEF Subject
      <3> DEFINE w == [phase |-> "delEmail", kind |-> "delete", id |-> i]
      <3>2. w \in Waits /\ w = [request[r] EXCEPT !.phase = "delEmail"]
        BY <1>1, <2>1, <2>2, <3>1, WaitForms DEF Waits, DeleteUserReplies
      <3>3. Sound(w) /\ ~Creating(w)
        BY <2>1, <3>1 DEF Sound, Changing, Creating
      <3> HIDE DEF w
      <3>4. ChangeTo(i, Absent) /\ request' = [request EXCEPT ![r] = w] /\ UNCHANGED <<caches, connected, steady, overlapped, version, born>>
        BY <2>2, <3>1, <3>2, DeleteUserForm DEF RedisUser, Await, Subject
      <3> QED  BY <2>1, <3>1, <3>2, <3>3, <3>4, WriteKeepsIds, VersionsType DEF TypeOK, Owned
    <2>3. CASE FellBack(r, request[r].id, Absent)
      BY <1>7, <2>1, <2>3, DeleteUserForm, DeleteEmailForm, AnsweredKeepsIds, VersionsType DEF Owned, FellBack
    <2>4. CASE RedisEmail(NoId) /\ Answer(r) /\ UNCHANGED steady /\ DeleteEmailReplies(r)
      BY <2>1, <2>4, DeleteEmailForm, AnsweredKeepsIds, VersionsType DEF Owned
    <2> QED  BY <1>7, <2>2, <2>3, <2>4, DeleteUserForm, DeleteEmailForm
  <1> QED  BY <1>2, <1>3, <1>4, <1>5, <1>6, <1>7

LEMMA InitLInv == Init => LInv
  <1> SUFFICES ASSUME Init PROVE LInv
    OBVIOUS
  <1>1. request \in [Requests -> {Idle}] /\ \A q \in Requests : request[q] = Idle /\ Idle.phase = "idle"
    BY DEF Init, Idle
  <1>2. store \in [Stores -> Accounts]
    BY VersionsType DEF Init, Accounts
  <1>3. userCache \in [Ids -> Versions] /\ latest \in [Ids -> Versions] /\ version \in Versions
    BY VersionsType DEF Init, Absent
  <1>4. TypeOK
    BY <1>1, <1>2, <1>3 DEF Init, TypeOK, Accounts
  <1>5. IdInv /\ FreshIsAbsent
    BY <1>1 DEF Init, IdInv, KnowsItsId, Creating, Changing, FreshIsAbsent
  <1> QED  BY <1>4, <1>5 DEF LInv

LEMMA ForgettingForm ==
    ASSUME TypeOK, CacheForgets
    PROVE  /\ userCache' \in [Ids -> Versions] /\ emailToId' \in {emailToId, NoId} /\ OnlyForgets
           /\ UNCHANGED <<connected, accounts, request, version, born, steady, overlapped>>
  BY VersionsType DEF CacheForgets, TypeOK, OnlyForgets

LEMMA EnvironmentKeepsIds ==
    ASSUME LInv, CacheForgets \/ ConnectionChanges \/ UNCHANGED vars
    PROVE  LInv'
  <1> USE DEF LInv
  <1>1. UNCHANGED <<accounts, request, version, born>> /\ steady' \in BOOLEAN /\ overlapped' \in BOOLEAN /\ connected' \in BOOLEAN
    BY DEF CacheForgets, ConnectionChanges, vars, TypeOK
  <1>2. userCache' \in [Ids -> Versions] /\ emailToId' \in Ids \cup {NoId} /\ OnlyForgets
    <2>1. CASE CacheForgets
      BY <2>1, ForgettingForm DEF TypeOK
    <2>2. CASE UNCHANGED caches
      BY <2>2 DEF caches, TypeOK, OnlyForgets
    <2> QED  BY <2>1, <2>2 DEF ConnectionChanges, vars
  <1>3. TypeOK'
    BY <1>1, <1>2 DEF TypeOK, accounts, Versions
  <1>4. IdInv'
    BY <1>1 DEF IdInv, KnowsItsId, Known, accounts
  <1>5. FreshIsAbsent'
    BY <1>1, <1>2 DEF FreshIsAbsent, Fresh, accounts, OnlyForgets
  <1> QED  BY <1>3, <1>4, <1>5

LookupStep(r) ==
    \/ Create(r) \/ Login(r)
    \/ \E i \in Ids : \E kind \in {"read", "update", "delete"} : ById(r, i, kind)
    \/ GetEmailReplies(r) \/ GetUserReplies(r)

WriteStep(r) ==
    \/ CreateHashed(r) \/ CreateUserReplies(r) \/ CreateEmailReplies(r)
    \/ UpdateHashed(r) \/ UpdateUserReplies(r)
    \/ DeleteUserReplies(r) \/ DeleteEmailReplies(r)

LEMMA StepForm ==
    ASSUME [Next]_vars
    PROVE  \/ \E r \in Requests : LookupStep(r) \/ WriteStep(r)
           \/ CacheForgets \/ ConnectionChanges \/ UNCHANGED vars
  BY DEF Next, LookupStep, WriteStep

LEMMA NextLInv == LInv /\ [Next]_vars => LInv'
  <1> SUFFICES ASSUME LInv, [Next]_vars PROVE LInv'
    OBVIOUS
  <1>1. ASSUME NEW r \in Requests, LookupStep(r)
        PROVE  LInv'
    BY <1>1, LookupForm, LookupKeepsIds DEF LookupStep
  <1>2. ASSUME NEW r \in Requests, WriteStep(r)
        PROVE  LInv'
    BY <1>2, WritesKeepIds DEF WriteStep
  <1> QED  BY <1>1, <1>2, StepForm, EnvironmentKeepsIds

LEMMA LInvariance == Spec => []LInv
  BY InitLInv, NextLInv, PTL DEF Spec

\* TypeOK holds: every account, wait and cached entry of UserService has its type.
THEOREM TypeCorrect == Spec => []TypeOK
  BY LInvariance, PTL DEF LInv

-----------------------------------------------------------------------------
(* Passwords: the second half of the invariant.                              *)

\* Requests that the code does not keep apart do not overlap so far.
KeptApart ==
    \A p, q \in Requests : p # q /\ request[p].phase # "idle" /\ request[q].phase # "idle" =>
        ~Conflict(request[p].kind, request[q].kind)

\* While an account is deleted from its store the cache has none of it.
DeletedIsUncached ==
    \A q \in Requests : request[q].phase \in {"delUser", "delEmail"} => userCache[request[q].id] = Absent

Current(i) == \A v \in {userCache[i]} \cup {store[s].user[i] : s \in Stores} : v \in {Absent, latest[i]}

PInv ==
    /\ LInv
    /\ ~overlapped => KeptApart /\ DeletedIsUncached /\ \A i \in Ids \ astray : Current(i)

\* One request moves: either it goes on, or it begins beside none in its way.
LEMMA MovesApart ==
    ASSUME LInv, NEW r \in Requests, NEW w \in Waits, request' = [request EXCEPT ![r] = w],
           NEW kind, w.phase # "idle" => w.kind = kind,
           \/ overlapped' = overlapped /\ request[r].phase # "idle" /\ request[r].kind = kind
           \/ Begin(r, kind),
           ~overlapped => KeptApart, ~overlapped'
    PROVE  /\ KeptApart' /\ ~overlapped
           /\ \A q \in Requests \ {r} : request'[q] = request[q]
                /\ (request[q].phase # "idle" => ~Conflict(kind, request[q].kind))
  <1>1. request'[r] = w /\ \A q \in Requests \ {r} : request'[q] = request[q]
    BY DEF LInv, TypeOK
  <1>2. \A k, l : Conflict(k, l) => Conflict(l, k)
    BY DEF Conflict
  <1>3. ~overlapped /\ \A q \in Requests \ {r} : request[q].phase # "idle" => ~Conflict(kind, request[q].kind)
    <2>1. CASE Begin(r, kind)
      BY <2>1, RequestTypes, WaitForms DEF Begin, LInv
    <2>2. CASE overlapped' = overlapped /\ request[r].phase # "idle" /\ request[r].kind = kind
      BY <2>2 DEF KeptApart
    <2> QED  BY <2>1, <2>2
  <1> QED  BY <1>1, <1>2, <1>3 DEF KeptApart

LEMMA ReadingKeepsCurrent ==
    ASSUME UNCHANGED accounts, OnlyReads, \A j \in Ids \ astray : Current(j)
    PROVE  \A j \in Ids \ astray' : Current(j)'
  BY DEF Current, OnlyReads, accounts

LEMMA ChangingKeepsCurrent ==
    ASSUME TypeOK, NEW i \in Ids, NEW v \in Versions, Changes(i, v), userCache'[i] \in {Absent, v},
           \A j \in Ids \ {i} : userCache'[j] \in {Absent, userCache[j]},
           \A j \in Ids \ astray : Current(j)
    PROVE  \A j \in Ids \ astray' : Current(j)'
  <1> SUFFICES ASSUME NEW j \in Ids \ astray'
               PROVE  userCache'[j] \in {Absent, latest'[j]} /\ \A s \in Stores : store'[s].user[j] \in {Absent, latest'[j]}
    BY DEF Current
  <1>1. astray \subseteq astray' /\ latest' = [latest EXCEPT ![i] = v]
    BY DEF Changes, Took
  <1>2. CASE j = i
    <2>1. \A s \in Stores : store'[s].user[i] \in {Absent, v}
      BY <1>2 DEF Changes, Took
    <2> QED  BY <1>1, <1>2, <2>1 DEF TypeOK
  <1>3. CASE j # i
    <2>1. latest'[j] = latest[j] /\ j \in Ids \ astray
      BY <1>1, <1>3 DEF TypeOK
    <2>2. \A s \in Stores : store'[s].user[j] = store[s].user[j]
      BY <1>3 DEF Changes, Frame
    <2> QED  BY <1>3, <2>1, <2>2 DEF Current
  <1> QED  BY <1>2, <1>3

LEMMA LookupKeepsPasswords ==
    ASSUME PInv, NEW r \in Requests, NEW kind \in Kinds, Opens(r, kind), Looks(r, kind)
    PROVE  PInv'
  <1> USE DEF PInv
  <1>1. LInv'
    BY LookupKeepsIds
  <1> SUFFICES ASSUME ~overlapped'
               PROVE  KeptApart' /\ DeletedIsUncached' /\ \A i \in Ids \ astray' : Current(i)'
    BY <1>1
  <1>2. PICK w \in Waits : Waiting(r, kind, w)
    BY LooksEffect
  <1>3. /\ KeptApart' /\ ~overlapped
        /\ \A q \in Requests \ {r} : request'[q] = request[q]
             /\ (request[q].phase # "idle" => ~Conflict(kind, request[q].kind))
    BY <1>2, MovesApart DEF Waiting, Opens
  <1>4. request'[r] = w
    BY <1>2 DEF Waiting, LInv, TypeOK
  <1>5. DeletedIsUncached'
    <2>1. ASSUME NEW q \in Requests \ {r}, request[q].phase \in {"delUser", "delEmail"}
          PROVE  userCache'[request[q].id] = Absent
      <3>1. request[q].id \in Ids /\ request[q].kind = "delete" /\ userCache[request[q].id] = Absent
        BY <1>3, <2>1, RequestTypes, WaitForms DEF LInv, DeletedIsUncached
      <3>2. kind = "delete"
        BY <1>3, <2>1, <3>1 DEF Conflict
      <3> QED  BY <3>1, <3>2, LooksEffect DEF OnlyForgets
    <2>2. w.phase \in {"delUser", "delEmail"} => userCache'[w.id] = Absent
      BY <1>2 DEF Waiting
    <2> QED  BY <1>3, <1>4, <2>1, <2>2 DEF DeletedIsUncached
  <1>6. \A i \in Ids \ astray' : Current(i)'
    <2>1. CASE UNCHANGED accounts
      BY <1>3, <2>1, ReadingKeepsCurrent, LooksEffect
    <2>2. ASSUME NEW i \in Ids, Changes(i, Absent), userCache'[i] = Absent, OnlyForgets
          PROVE  \A j \in Ids \ astray' : Current(j)'
      BY <1>3, <2>2, ChangingKeepsCurrent, VersionsType DEF LInv, OnlyForgets
    <2> QED  BY <2>1, <2>2, LooksEffect
  <1> QED  BY <1>3, <1>5, <1>6

LEMMA WriteKeepsPasswords ==
    ASSUME PInv, NEW r \in Requests, NEW w \in Waits, NEW i \in Ids, NEW v \in Versions,
           LInv', request' = [request EXCEPT ![r] = w],
           overlapped' = overlapped, request[r].phase # "idle", w.phase # "idle" => w.kind = request[r].kind,
           \/ UNCHANGED <<accounts, caches>>
           \/ ChangeTo(i, v) /\ (SetUser(i, v) \/ (UNCHANGED caches /\ (~overlapped => userCache[i] = Absent)))
           \/ (\E e \in Ids \cup {NoId} : RedisEmail(e)) /\ (UNCHANGED caches \/ (SetUser(i, v) /\ latest[i] = v)),
           UNCHANGED caches \/ request[r].kind # "delete",
           w.phase \in {"delUser", "delEmail"} => request[r].phase \in {"delUser", "delEmail"} /\ request[r].id = w.id
    PROVE  PInv'
  <1> USE DEF PInv, LInv
  <1> SUFFICES ASSUME ~overlapped'
               PROVE  KeptApart' /\ DeletedIsUncached' /\ \A j \in Ids \ astray' : Current(j)'
    OBVIOUS
  <1>1. /\ KeptApart' /\ ~overlapped
        /\ \A q \in Requests \ {r} : request'[q] = request[q]
             /\ (request[q].phase # "idle" => ~Conflict(request[r].kind, request[q].kind))
    BY MovesApart
  <1>2. request'[r] = w
    BY DEF TypeOK
  <1>3. UNCHANGED caches \/ SetUser(i, v)
    OBVIOUS
  <1>4. DeletedIsUncached'
    <2>1. ASSUME NEW q \in Requests, request'[q].phase \in {"delUser", "delEmail"}
          PROVE  userCache'[request'[q].id] = Absent
      <3>1. /\ request[q].phase \in {"delUser", "delEmail"} /\ request[q].id = request'[q].id
            /\ request[q].kind = "delete"
        BY <1>1, <1>2, <2>1, RequestTypes, WaitForms
      <3>2. userCache[request[q].id] = Absent
        BY <1>1, <3>1 DEF DeletedIsUncached
      <3>3. request[r].kind = "delete"
        BY <1>1, <3>1 DEF Conflict
      <3> QED  BY <1>3, <3>1, <3>2, <3>3 DEF caches
    <2> QED  BY <2>1 DEF DeletedIsUncached
  <1>5. \A j \in Ids \ {i} : userCache'[j] = userCache[j]
    BY <1>3 DEF caches, SetUser, TypeOK
  <1>6. \A j \in Ids \ astray' : Current(j)'
    <2>1. CASE UNCHANGED <<accounts, caches>>
      BY <1>1, <2>1, ReadingKeepsCurrent DEF OnlyReads, caches
    <2>2. CASE ChangeTo(i, v) /\ (SetUser(i, v) \/ (UNCHANGED caches /\ userCache[i] = Absent))
      <3>1. userCache'[i] \in {Absent, v} /\ Changes(i, v)
        BY <2>2 DEF caches, SetUser, TypeOK, ChangeTo
      <3> QED  BY <1>1, <1>5, <3>1, ChangingKeepsCurrent
    <2>3. CASE (\E e \in Ids \cup {NoId} : RedisEmail(e)) /\ (UNCHANGED caches \/ (SetUser(i, v) /\ latest[i] = v))
      <3>1. latest' = latest /\ astray' = astray /\ \A s \in Stores, j \in Ids : store'[s].user[j] = store[s].user[j]
        BY <2>3 DEF RedisEmail, MemorySame, Stores
      <3>2. userCache'[i] \in {userCache[i], latest[i]}
        BY <2>3 DEF caches, SetUser, TypeOK
      <3> QED  BY <1>1, <1>5, <3>1, <3>2 DEF Current
    <2> QED  BY <1>1, <2>1, <2>2, <2>3
  <1> QED  BY <1>1, <1>4, <1>6

LEMMA HashedKeepsPasswords ==
    ASSUME PInv, LInv', NEW r \in Requests, NEW i \in Ids, NEW v \in Versions, HashedForm(r, i, v),
           request[r].phase = "hash", request[r].kind \in {"create", "update"}
    PROVE  PInv'
  <1> DEFINE u == [phase |-> "setUser", kind |-> request[r].kind, id |-> i, to |-> v]
  <1>1. PICK w \in Waits : request' = [request EXCEPT ![r] = w] /\ (w = Idle \/ w = u)
    BY DEF HashedForm, Await, Answer, Waits
  <1>2. w.phase \in {"idle", "setUser"} /\ (w.phase # "idle" => w.kind = request[r].kind)
    BY <1>1 DEF Idle
  <1>3. UNCHANGED <<accounts, caches>> \/ (ChangeTo(i, v) /\ SetUser(i, v))
    BY DEF HashedForm
  <1> HIDE DEF u
  <1>4. overlapped' = overlapped
    BY DEF HashedForm
  <1>5. request[r].phase # "idle" /\ request[r].kind # "delete" /\ w.phase \notin {"delUser", "delEmail"}
    BY <1>2
  <1> QED  BY <1>1, <1>2, <1>3, <1>4, <1>5, WriteKeepsPasswords

LEMMA RepliedKeepsPasswords ==
    ASSUME PInv, LInv', NEW r \in Requests, NEW i \in Ids, NEW v \in Versions, NEW w \in Waits,
           request' = [request EXCEPT ![r] = w], overlapped' = overlapped,
           w = Idle \/ w = [request[r] EXCEPT !.phase = "setEmail"] \/ w = [request[r] EXCEPT !.phase = "delEmail"],
           w = Idle \/ w.phase = "setEmail" \/ request[r].phase = "delUser",
           request[r].phase \in {"setUser", "setEmail", "delUser", "delEmail"},
           \/ ChangeTo(i, v) /\ (SetUser(i, v) \/ (UNCHANGED caches /\ (~overlapped => userCache[i] = Absent)))
           \/ (\E e \in Ids \cup {NoId} : RedisEmail(e)) /\ (UNCHANGED caches \/ (SetUser(i, v) /\ latest[i] = v)),
           UNCHANGED caches \/ request[r].kind # "delete"
    PROVE  PInv'
  <1>1. request[r] \in Waits
    BY RequestTypes DEF PInv, LInv
  <1>2. request[r].phase # "idle" /\ (w.phase # "idle" => w.kind = request[r].kind)
    BY <1>1, WaitForms DEF Idle
  <1>3. w.phase \in {"delUser", "delEmail"} => request[r].phase \in {"delUser", "delEmail"} /\ request[r].id = w.id
    BY <1>1, WaitForms DEF Idle
  <1> QED  BY <1>2, <1>3, WriteKeepsPasswords

LEMMA WritesKeepPasswords ==
    ASSUME PInv, NEW r \in Requests, WriteStep(r)
    PROVE  PInv'
  <1> USE DEF PInv
  <1>1. LInv' /\ request[r] \in Waits /\ KnowsItsId(r, request[r]) /\ Idle \in Waits
    BY WritesKeepIds, RequestTypes DEF WriteStep, LInv, IdInv, Waits
  <1>2. CASE CreateHashed(r)
    BY <1>1, <1>2, CreateHashedForm, HashedKeepsPasswords DEF CreateHashed
  <1>3. CASE UpdateHashed(r)
    BY <1>1, <1>3, UpdateHashedForm, HashedKeepsPasswords DEF UpdateHashed
  <1>4. CASE CreateUserReplies(r)
    <2>1. PICK i \in Ids, v \in Versions :
            /\ i = request[r].id /\ v = request[r].to /\ Subject(r, {"setUser"})
            /\ request[r].phase = "setUser" /\ request[r].kind = "create"
            /\ \/ /\ RedisUser(i, v) /\ UNCHANGED <<caches, steady>>
                  /\ Await(r, [request[r] EXCEPT !.phase = "setEmail"])
               \/ FellBack(r, i, v) /\ SetUser(i, v)
      BY <1>4, CreateUserForm DEF Subject
    <2>2. userCache[i] = Absent
      BY <2>1 DEF LInv, FreshIsAbsent, Fresh
    <2>3. PICK w \in Waits : /\ request' = [request EXCEPT ![r] = w]
                             /\ w = Idle \/ (w = [request[r] EXCEPT !.phase = "setEmail"] /\ w.phase = "setEmail")
      <3> DEFINE u == [request[r] EXCEPT !.phase = "setEmail"]
      <3>1. u \in Waits /\ u.phase = "setEmail"
        <4>1. u = [phase |-> "setEmail", kind |-> "create", id |-> i, to |-> v]
          BY <1>1, <2>1, WaitForms
        <4> HIDE DEF u
        <4> QED  BY <4>1 DEF Waits
      <3> QED  BY <1>1, <2>1, <3>1 DEF Await, Answer, FellBack
    <2>4. ChangeTo(i, v) /\ (SetUser(i, v) \/ UNCHANGED caches) /\ overlapped' = overlapped
      BY <2>1 DEF RedisUser, FellBack, Subject
    <2>5. request[r].kind # "delete" /\ request[r].phase \in {"setUser", "setEmail", "delUser", "delEmail"}
      BY <2>1
    <2> QED  BY <1>1, <2>2, <2>3, <2>4, <2>5, RepliedKeepsPasswords
  <1>5. CASE CreateEmailReplies(r)
    <2>1. /\ request[r].phase = "setEmail" /\ request[r].kind = "create"
          /\ latest[request[r].id] = request[r].to
      BY <1>1, <1>5 DEF CreateEmailReplies, KnowsItsId
    <2> QED
      BY <1>1, <1>5, <2>1, CreateEmailForm, RepliedKeepsPasswords DEF Subject, FellBack, Answer
  <1>6. CASE UpdateUserReplies(r)
    BY <1>1, <1>6, UpdateUserForm, RepliedKeepsPasswords DEF Subject, FellBack, RedisUser, Answer
  <1>7. CASE DeleteUserReplies(r)
    <2>1. PICK i \in Ids :
            /\ i = request[r].id /\ Subject(r, {"delUser"}) /\ UNCHANGED caches
            /\ \/ RedisUser(i, Absent) /\ Await(r, [request[r] EXCEPT !.phase = "delEmail"])
               \/ FellBack(r, i, Absent)
      BY <1>7, DeleteUserForm DEF Subject
    <2>2. request[r].phase = "delUser" /\ overlapped' = overlapped /\ request[r].kind = "delete"
      BY <1>1, <1>7, <2>1, WaitForms DEF Subject, DeleteUserReplies
    <2>3. PICK w \in Waits : /\ request' = [request EXCEPT ![r] = w]
                             /\ w = Idle \/ w = [request[r] EXCEPT !.phase = "delEmail"]
      <3> DEFINE u == [request[r] EXCEPT !.phase = "delEmail"]
      <3>1. u \in Waits
        <4>1. u = [phase |-> "delEmail", kind |-> "delete", id |-> i]
          BY <1>1, <2>1, <2>2, WaitForms
        <4> HIDE DEF u
        <4> QED  BY <4>1 DEF Waits
      <3> QED  BY <1>1, <2>1, <3>1 DEF Await, Answer, FellBack
    <2>4. ChangeTo(i, Absent) /\ (~overlapped => userCache[i] = Absent)
      BY <2>1, <2>2 DEF RedisUser, FellBack, DeletedIsUncached
    <2> QED  BY <1>1, <2>1, <2>2, <2>3, <2>4, RepliedKeepsPasswords, VersionsType
  <1>8. CASE DeleteEmailReplies(r)
    <2>1. /\ request[r].phase = "delEmail" /\ overlapped' = overlapped /\ request[r].id \in Ids
          /\ UNCHANGED caches /\ (RedisEmail(NoId) \/ ChangeTo(request[r].id, Absent)) /\ Answer(r)
      BY <1>8, DeleteEmailForm DEF Subject, FellBack
    <2>2. ~overlapped => userCache[request[r].id] = Absent
      BY <2>1 DEF DeletedIsUncached
    <2> QED  BY <1>1, <2>1, <2>2, RepliedKeepsPasswords, VersionsType DEF Answer
  <1> QED  BY <1>2, <1>3, <1>4, <1>5, <1>6, <1>7, <1>8 DEF WriteStep

LEMMA InitPInv == Init => PInv
  <1> SUFFICES ASSUME Init PROVE PInv
    OBVIOUS
  <1>1. LInv
    BY InitLInv
  <1>2. \A q \in Requests : request[q].phase = "idle"
    BY DEF Init, Idle
  <1>3. \A i \in Ids : Current(i)
    BY DEF Init, Current
  <1> QED  BY <1>1, <1>2, <1>3 DEF PInv, KeptApart, DeletedIsUncached

LEMMA EnvironmentKeepsPasswords ==
    ASSUME PInv, CacheForgets \/ ConnectionChanges \/ UNCHANGED vars
    PROVE  PInv'
  <1> USE DEF PInv
  <1>1. LInv'
    BY EnvironmentKeepsIds
  <1>2. UNCHANGED <<accounts, request, overlapped>> /\ OnlyForgets
    <2>1. CASE CacheForgets
      BY <2>1, ForgettingForm DEF LInv
    <2>2. CASE ConnectionChanges \/ UNCHANGED vars
      BY <2>2 DEF ConnectionChanges, vars, OnlyForgets, caches
    <2> QED  BY <2>1, <2>2
  <1>3. DeletedIsUncached => DeletedIsUncached'
    <2>1. \A q \in Requests : request[q].phase \in {"delUser", "delEmail"} => request[q].id \in Ids
      BY RequestTypes, WaitForms DEF LInv
    <2> QED  BY <1>2, <2>1 DEF DeletedIsUncached, OnlyForgets
  <1>4. KeptApart => KeptApart'
    BY <1>2 DEF KeptApart
  <1>5. (\A i \in Ids \ astray : Current(i)) => \A i \in Ids \ astray' : Current(i)'
    BY <1>2 DEF accounts, OnlyForgets, Current
  <1> QED  BY <1>1, <1>2, <1>3, <1>4, <1>5

LEMMA NextPInv == PInv /\ [Next]_vars => PInv'
  <1> SUFFICES ASSUME PInv, [Next]_vars PROVE PInv'
    OBVIOUS
  <1>1. ASSUME NEW r \in Requests, LookupStep(r)
        PROVE  PInv'
    BY <1>1, LookupForm, LookupKeepsPasswords DEF LookupStep, PInv
  <1> QED  BY <1>1, WritesKeepPasswords, StepForm, EnvironmentKeepsPasswords

LEMMA PInvariance == Spec => []PInv
  BY InitPInv, NextPInv, PTL DEF Spec

\* PasswordsAreCurrent holds: however reads, changes of password, registrations,
\* evictions and outages interleave, neither UserService's cache nor a store
\* holds a password of an account that is not its last.
THEOREM PasswordsNeverGoBack == Spec => []PasswordsAreCurrent
  <1>1. PInv => PasswordsAreCurrent
    BY DEF PInv, PasswordsAreCurrent, Current
  <1> QED  BY <1>1, PInvariance, PTL

-----------------------------------------------------------------------------
(* The email, while one store answers and nothing overlaps that the code     *)
(* does not keep apart.                                                      *)

Answering == IF connected THEN "redis" ELSE "memory"
Silent == IF connected THEN "memory" ELSE "redis"

Alive(i) == latest[i] # Absent

\* The other store was never written, and this one has every last password.
OneStore ==
    /\ astray = {}
    /\ store[Silent].email = NoId /\ \A i \in Ids : store[Silent].user[i] = Absent
    /\ \A i \in Ids : store[Answering].user[i] = latest[i]

OneAccount == \A i, j \in Ids : Alive(i) /\ Alive(j) => i = j

\* Index and cache lead to the account; the index outlives it only until the
\* deletion's second command.
Leads ==
    /\ \A i \in Ids : Alive(i) /\ Known(i) => store[Answering].email = i
    /\ store[Answering].email # NoId =>
         Alive(store[Answering].email) \/ \E q \in Requests : request[q].phase = "delEmail"
    /\ emailToId # NoId => Alive(emailToId)

\* What a request has found is still so when it goes on.
Reckons(w) ==
    /\ ~connected => w.phase \in {"idle", "hash"}
    /\ w.phase \in {"hash", "setUser"} /\ w.kind = "create" => \A i \in Ids : ~Alive(i)
    /\ w.phase = "getUser" /\ w.kind = "create" => Alive(w.id)
    /\ w.phase = "setEmail" => Alive(w.id)
    /\ w.phase \in {"hash", "setUser"} /\ w.kind = "update" => Alive(w.id)
    /\ w.phase = "delUser" => emailToId = NoId /\ \A i \in Ids : Alive(i) => i = w.id
    /\ w.phase = "delEmail" => emailToId = NoId /\ \A i \in Ids : ~Alive(i)

EmailInv == OneStore /\ OneAccount /\ Leads /\ \A q \in Requests : Reckons(request[q])

EInv == PInv /\ (steady /\ ~overlapped => EmailInv)

\* The step is of one request, and the others are of kinds it may overlap with.
Others(r, kind) ==
    \A q \in Requests \ {r} :
        request'[q] = request[q] /\ (request[q].phase # "idle" => ~Conflict(kind, request[q].kind))

LEMMA AccountsKept ==
    ASSUME UNCHANGED <<accounts, connected>>, OneStore
    PROVE  /\ OneStore' /\ Answering' = Answering /\ store' = store
           /\ \A i : Alive(i)' <=> Alive(i)
  BY DEF accounts, OneStore, Answering, Silent, Alive

LEMMA AccountChanged ==
    ASSUME TypeOK, OneStore, NEW i \in Ids, NEW v \in Versions, connected' = connected,
           ChangeTo(i, v), UserIn(Answering, i, v), store'[Silent] = store[Silent]
    PROVE  /\ OneStore' /\ Answering' = Answering
           /\ \A j \in Ids : Alive(j)' <=> IF j = i THEN v # Absent ELSE Alive(j)
  <1>1. Answering' = Answering /\ Silent' = Silent /\ Stores = {Answering, Silent}
    BY DEF Answering, Silent, Stores, TypeOK
  <1>2. \A j \in Ids : latest'[j] = IF j = i THEN v ELSE latest[j]
    BY DEF ChangeTo, Changes, Took, TypeOK
  <1>3. \A j \in Ids : store'[Answering].user[j] = latest'[j]
    BY <1>2 DEF UserIn, OneStore
  <1>4. store'[Silent].email = NoId /\ \A j \in Ids : store'[Silent].user[j] = Absent
    BY DEF OneStore
  <1>5. astray' = {}
    <2>1. \A s \in Stores : store'[s].user[i] \in {Absent, v}
      BY <1>1, <1>2, <1>3, <1>4
    <2> QED  BY <2>1 DEF ChangeTo, Changes, Took, OneStore
  <1> QED  BY <1>1, <1>2, <1>3, <1>4, <1>5 DEF OneStore, Alive

\* Which ids are known changes only with what the moving request writes.
LEMMA KnownBefore ==
    ASSUME NEW r \in Requests, NEW kind, Others(r, kind), born' = born, ~Creating(request[r])
    PROVE  \A i : Known(i)' => Known(i)
  BY DEF Others, Known, Creating

\* Accounts that are read are alive.
LEMMA SeenIsAlive ==
    ASSUME PInv, EmailInv, ~overlapped, NEW i \in Ids,
           NEW v \in {userCache[i]} \cup {store[s].user[i] : s \in Stores}, v # Absent
    PROVE  Alive(i)
  BY DEF PInv, EmailInv, OneStore, Current, Alive

\* No deletion is at work beside a request that is none.
LEMMA NoDeletion ==
    ASSUME LInv, NEW r \in Requests, NEW kind \in Kinds \ {"delete"}, Others(r, kind), NEW q \in Requests \ {r}
    PROVE  request[q].phase \notin {"delUser", "delEmail"}
  BY RequestTypes, WaitForms DEF LInv, Others, Conflict

LEMMA MissKeepsEmail ==
    ASSUME PInv, EmailInv, ~overlapped, NEW r \in Requests, NEW kind \in Kinds, Others(r, kind),
           Opens(r, kind), steady', Misses(r, kind) \/ AskingEmail(r, kind)
    PROVE  EmailInv'
  <1> USE DEF PInv, EmailInv
  <1>1. UNCHANGED <<accounts, caches, connected, born>>
    BY DEF Opens, Misses, NotFound, AskingEmail
  <1>2. OneStore' /\ Answering' = Answering /\ store' = store /\ \A i : Alive(i)' <=> Alive(i)
    BY <1>1, AccountsKept
  <1>3. request[r].phase \in {"idle", "getEmail", "getUser"} /\ ~Creating(request[r])
    BY RequestTypes, WaitForms DEF Opens, Begin, Idle, Creating, LInv
  <1>4. Leads'
    BY <1>1, <1>2, <1>3, KnownBefore DEF Leads, Others, caches
  <1>5. \A q \in Requests \ {r} : Reckons(request[q])'
    <2>1. ASSUME NEW q \in Requests \ {r}, NEW u, u = request[q]
          PROVE  Reckons(u)'
      BY <1>1, <1>2, <2>1 DEF Reckons, caches
    <2> QED  BY <2>1 DEF Others
  <1>6. OneAccount'
    BY <1>2 DEF OneAccount
  <1>7. ASSUME kind = "create", Misses(r, kind)
        PROVE  \A i \in Ids : ~Alive(i)
    <2>1. \A q \in Requests : request[q].phase # "delEmail"
      BY <1>3, <1>7, NoDeletion DEF Kinds
    <2>2. \A q \in Requests \ {r} : ~Creating(request[q])
      BY <1>7, RequestTypes, WaitForms DEF Others, Conflict, Creating, LInv
    <2>3. \A i \in Ids : Alive(i) => Known(i)
      <3>1. \A i \in Ids : i \notin born => store[Answering].user[i] = Absent
        BY DEF LInv, FreshIsAbsent, Fresh, Answering, Stores
      <3> QED  BY <1>3, <2>2, <3>1 DEF Known, OneStore, Alive, Creating
    <2>4. store[Answering].email = NoId => \A i \in Ids : ~Alive(i)
      BY <2>3, UsersAssumption DEF Leads
    <2>5. \A i \in Ids : i = emailToId \/ i = store[Answering].email => Alive(i)
      BY <2>1, UsersAssumption DEF Leads
    <2>6. emailToId \in Ids \cup {NoId} /\ store["memory"].email \in Ids \cup {NoId}
      BY StoresType DEF LInv, TypeOK, Accounts
    <2>7. Missed(r)
      BY <1>7 DEF Misses
    <2>8. CASE ~connected
      BY <1>3, <2>4, <2>5, <2>6, <2>7, <2>8 DEF Missed, Answering, OneStore, Alive, Reckons
    <2>9. CASE connected
      <3>1. CASE request[r].phase = "getEmail"
        BY <2>4, <2>7, <2>9, <3>1 DEF Missed, Answering
      <3>2. CASE request[r].phase = "getUser" /\ store["redis"].user[request[r].id] = Absent
        <4>1. request[r].kind = "create" /\ request[r].id \in Ids
          BY <1>7, <3>2, RequestTypes, WaitForms DEF Opens, Begin, Idle, LInv
        <4> QED  BY <2>9, <3>2, <4>1 DEF Answering, OneStore, Alive, Reckons
      <3> QED  BY <2>7, <2>9, <3>1, <3>2 DEF Missed
    <2> QED  BY <2>8, <2>9
  <1>8. Reckons(request[r])'
    <2>1. CASE AskingEmail(r, kind)
      <3>1. request'[r] = [phase |-> "getEmail", kind |-> kind] /\ connected'
        BY <1>1, <2>1 DEF AskingEmail, Await, LInv, TypeOK
      <3> QED  BY <3>1 DEF Reckons
    <2>2. CASE Misses(r, kind)
      <3>1. \/ kind = "create" /\ request'[r] = [phase |-> "hash", kind |-> kind]
            \/ request'[r] = Idle
        BY <2>2 DEF Misses, NotFound, Await, Answer, LInv, TypeOK
      <3>2. CASE request'[r] = Idle
        BY <3>2 DEF Reckons, Idle
      <3>3. CASE kind = "create" /\ request'[r] = [phase |-> "hash", kind |-> kind]
        BY <1>2, <1>7, <2>2, <3>3 DEF Reckons
      <3> QED  BY <3>1, <3>2, <3>3
    <2> QED  BY <2>1, <2>2
  <1> QED  BY <1>2, <1>4, <1>5, <1>6, <1>8

LEMMA FindKeepsEmail ==
    ASSUME PInv, EmailInv, ~overlapped, NEW r \in Requests, NEW kind \in Kinds, Others(r, kind),
           Opens(r, kind), steady', NEW i \in Ids, Finds(r, kind, i)
    PROVE  EmailInv'
  <1> USE DEF PInv, EmailInv
  <1>1. connected' = connected /\ born' = born /\ TypeOK
    BY DEF Opens, LInv
  <1>2. request[r].phase \in {"idle", "getEmail", "getUser"} /\ ~Creating(request[r])
    BY RequestTypes, WaitForms DEF Opens, Begin, Idle, Creating, LInv
  <1>3. \A j : Known(j)' => Known(j)
    BY <1>1, <1>2, KnownBefore
  <1>4. ASSUME UNCHANGED accounts
        PROVE  /\ OneStore' /\ Answering' = Answering /\ store' = store /\ (\A j : Alive(j)' <=> Alive(j))
               /\ OneAccount'
               /\ (emailToId' # NoId => Alive(emailToId)') => Leads'
    <2>1. OneStore' /\ Answering' = Answering /\ store' = store /\ \A j : Alive(j)' <=> Alive(j)
      BY <1>1, <1>4, AccountsKept
    <2> QED  BY <1>2, <1>3, <2>1 DEF OneAccount, Leads, Others
  <1>5. CASE Asking(r, kind, i) /\ (kind = "create" => i \in {emailToId, store["redis"].email})
    <2>1. UNCHANGED <<accounts, caches>> /\ connected /\ request'[r] = [phase |-> "getUser", kind |-> kind, id |-> i]
      BY <1>1, <1>5 DEF Asking, Await, TypeOK
    <2>2. kind = "create" => Alive(i)
      <3>1. kind = "create" => i \in {emailToId, store["redis"].email}
        BY <1>5
      <3>2. kind = "create" => \A q \in Requests : request[q].phase # "delEmail"
        BY <1>2, NoDeletion DEF Kinds
      <3> QED  BY <2>1, <3>1, <3>2, UsersAssumption DEF Leads, Answering
    <2>3. Leads'
      BY <1>4, <2>1 DEF Leads, caches
    <2>4. \A q \in Requests \ {r} : Reckons(request[q])'
      <3>1. ASSUME NEW q \in Requests \ {r}, NEW u, u = request[q]
            PROVE  Reckons(u)'
        BY <1>1, <1>4, <2>1, <3>1 DEF Reckons, caches
      <3> QED  BY <3>1 DEF Others
    <2>5. Reckons(request[r])'
      BY <1>1, <1>4, <2>1, <2>2 DEF Reckons
    <2> QED  BY <1>4, <2>1, <2>3, <2>4, <2>5
  <1>6. CASE Reading(r, kind, i)
    <2>1. UNCHANGED accounts /\ emailToId' \in {emailToId, i} /\ Alive(i) /\ kind \in Kinds \ {"delete"}
      BY <1>6, SeenIsAlive DEF Reading, Cached, Kinds
    <2>2. Leads'
      BY <1>4, <2>1 DEF Leads
    <2>3. \A q \in Requests \ {r} : Reckons(request[q])'
      <3>1. ASSUME NEW q \in Requests \ {r}, NEW u, u = request[q]
            PROVE  Reckons(u)'
        <4>1. u.phase \notin {"delUser", "delEmail"}
          BY <2>1, <3>1, NoDeletion
        <4> QED  BY <1>1, <1>4, <2>1, <3>1, <4>1 DEF Reckons
      <3> QED  BY <3>1 DEF Others
    <2>4. Reckons(request[r])'
      <3>1. request'[r] = Idle \/ request'[r] = [phase |-> "hash", kind |-> "update", id |-> i]
        BY <1>1, <1>6 DEF Reading, Answer, Await, TypeOK
      <3> QED  BY <1>4, <2>1, <3>1 DEF Reckons, Idle
    <2> QED  BY <1>4, <2>1, <2>2, <2>3, <2>4
  <1>7. ASSUME Dropped(i)
        PROVE  emailToId' = NoId /\ \A j \in Ids : Alive(j) => j = i
    <2>1. Alive(i)
      BY <1>7, SeenIsAlive DEF Dropped
    <2> QED  BY <1>7, <2>1 DEF Dropped, OneAccount
  <1>8. CASE Dropping(r, kind, i)
    <2>1. /\ UNCHANGED accounts /\ connected /\ emailToId' = NoId /\ (\A j \in Ids : Alive(j) => j = i)
          /\ request'[r] = [phase |-> "delUser", kind |-> kind, id |-> i]
      BY <1>1, <1>7, <1>8 DEF Dropping, Await, TypeOK
    <2>2. Leads'
      BY <1>4, <2>1 DEF Leads
    <2>3. \A q \in Requests \ {r} : Reckons(request[q])'
      <3>1. ASSUME NEW q \in Requests \ {r}, NEW u, u = request[q]
            PROVE  Reckons(u)'
        BY <1>1, <1>4, <2>1, <3>1 DEF Reckons
      <3> QED  BY <3>1 DEF Others
    <2>4. Reckons(request[r])'
      BY <1>1, <1>4, <2>1 DEF Reckons
    <2> QED  BY <1>4, <2>1, <2>2, <2>3, <2>4
  <1>9. CASE Deleting(r, kind, i)
    <2>1. ~connected /\ kind = "delete" /\ emailToId' = NoId /\ (\A j \in Ids : Alive(j) => j = i) /\ request'[r] = Idle
      BY <1>1, <1>7, <1>9 DEF Deleting, Answer, TypeOK
    <2>2. /\ ChangeTo(i, Absent) /\ store'["redis"] = store["redis"] /\ store'["memory"].email = NoId
          /\ UserIn("memory", i, Absent)
      BY <1>1, <1>9, StoresType, DeleteFromMapsEffect DEF Deleting, ChangeTo, UserIn
    <2>3. Answering = "memory" /\ Silent = "redis"
      BY <2>1 DEF Answering, Silent
    <2>4. OneStore' /\ Answering' = Answering /\ \A j \in Ids : ~Alive(j)'
      BY <1>1, <2>1, <2>2, <2>3, AccountChanged, VersionsType
    <2>5. OneAccount' /\ Leads'
      BY <2>1, <2>2, <2>3, <2>4 DEF OneAccount, Leads
    <2>6. \A q \in Requests \ {r} : request[q].phase = "idle"
      BY <2>1, RequestTypes, WaitForms DEF Others, Conflict, Reckons, LInv
    <2>7. \A q \in Requests : request'[q].phase = "idle"
      BY <2>1, <2>6 DEF Others, Idle
    <2> QED  BY <2>4, <2>5, <2>7 DEF Reckons
  <1> QED  BY <1>5, <1>6, <1>8, <1>9 DEF Finds, Has

\* Creating, changing and deleting an account are never at work together, nor
\* two creations: what the others reckon with survives each of them.
LEMMA HashedKeepsEmail ==
    ASSUME PInv, EmailInv, NEW r \in Requests, NEW i \in Ids, NEW v \in Versions, HashedForm(r, i, v),
           request[r].phase = "hash", Others(r, request[r].kind),
           \/ request[r].kind = "create" /\ i \notin born /\ born' = born \cup {i}
           \/ request[r].kind = "update" /\ i = request[r].id /\ born' = born
    PROVE  EmailInv'
  <1> USE DEF PInv, EmailInv
  <1>1. connected' = connected /\ v # Absent /\ TypeOK
    BY DEF HashedForm, LInv
  <1>2. /\ request[r].kind = "create" => \A j \in Ids : ~Alive(j)
        /\ request[r].kind = "update" => Alive(i)
        /\ Reckons(request[r])
    BY DEF Reckons
  <1>3. \A q \in Requests \ {r} : request[q].phase \notin {"delUser", "delEmail"}
    BY NoDeletion DEF Kinds
  <1>4. CASE connected
    <2>1. /\ UNCHANGED <<accounts, caches>>
          /\ request'[r] = [phase |-> "setUser", kind |-> request[r].kind, id |-> i, to |-> v]
      BY <1>1, <1>4 DEF HashedForm, Await, TypeOK
    <2>2. OneStore' /\ Answering' = Answering /\ store' = store /\ \A j : Alive(j)' <=> Alive(j)
      BY <1>1, <2>1, AccountsKept
    <2>3. \A j \in Ids : Known(j)' => Known(j)
      BY <2>1 DEF Others, Known
    <2>4. Leads'
      BY <1>3, <2>1, <2>2, <2>3 DEF Leads, Others, caches
    <2>5. \A q \in Requests \ {r} : Reckons(request[q])'
      <3>1. ASSUME NEW q \in Requests \ {r}, NEW u, u = request[q]
            PROVE  Reckons(u)'
        BY <1>1, <2>1, <2>2, <3>1 DEF Reckons, caches
      <3> QED  BY <3>1 DEF Others
    <2>6. Reckons(request[r])'
      BY <1>1, <1>2, <1>4, <2>1, <2>2 DEF Reckons
    <2> QED  BY <2>2, <2>4, <2>5, <2>6 DEF OneAccount
  <1>5. CASE ~connected
    <2>1. /\ ChangeTo(i, v) /\ UserIn("memory", i, v) /\ store'["redis"] = store["redis"]
          /\ store'["memory"].email = IF request[r].kind = "create" THEN i ELSE store["memory"].email
          /\ emailToId' = i /\ request'[r] = Idle
      BY <1>1, <1>5 DEF HashedForm, RedisSame, SetUser, Answer, TypeOK
    <2>2. Answering = "memory" /\ Silent = "redis"
      BY <1>5 DEF Answering, Silent
    <2>3. OneStore' /\ Answering' = Answering /\ \A j \in Ids : Alive(j)' <=> (j = i \/ Alive(j))
      BY <1>1, <2>1, <2>2, AccountChanged
    <2>4. OneAccount'
      BY <1>2, <2>3 DEF OneAccount
    <2>5. Leads'
      <3>1. request[r].kind = "create" => store'["memory"].email = i
        BY <2>1
      <3>2. ASSUME request[r].kind = "update"
            PROVE  /\ \A j : Known(j)' => Known(j)
                   /\ \A j \in Ids : Alive(j)' <=> Alive(j)
                   /\ store'["memory"].email = store["memory"].email
        <4>1. ~Creating(request[r]) /\ born' = born
          BY <3>2 DEF Creating
        <4> QED  BY <1>2, <2>1, <2>3, <3>2, <4>1, KnownBefore
      <3>3. CASE request[r].kind = "create"
        BY <1>2, <2>1, <2>2, <2>3, <3>1, <3>3 DEF Leads
      <3>4. CASE request[r].kind = "update"
        <4>1. store["memory"].email \in Ids \cup {NoId}
          BY StoresType DEF LInv, Accounts
        <4>2. store["memory"].email # NoId => Alive(store["memory"].email)
          BY <1>3, <2>2, <3>4 DEF Leads
        <4> QED  BY <2>1, <2>2, <2>3, <3>2, <3>4, <4>1, <4>2 DEF Leads
      <3> QED  BY <3>3, <3>4
    <2>6. ASSUME NEW q \in Requests \ {r}, NEW u \in Waits, u = request[q]
          PROVE  Reckons(u)'
      <3>1. Reckons(u) /\ u.phase \in {"idle", "hash"}
        BY <1>5, <2>6 DEF Reckons
      <3>2. u.phase # "idle" => ~Conflict(request[r].kind, u.kind)
        BY <2>6 DEF Others
      <3>3. u.phase = "hash" /\ u.kind = "create" => FALSE
        BY <1>2, <3>1, <3>2 DEF Conflict, Reckons
      <3>4. u.phase = "hash" /\ u.kind = "update" => Alive(u.id)'
        BY <2>3, <3>1, WaitForms DEF Reckons
      <3> QED  BY <1>1, <1>5, <3>1, <3>3, <3>4 DEF Reckons
    <2>7. \A q \in Requests : Reckons(request[q])'
      <3>1. \A q \in Requests : request[q] \in Waits
        BY RequestTypes DEF LInv
      <3>2. Reckons(request[r])'
        BY <2>1 DEF Reckons, Idle
      <3> QED  BY <2>6, <3>1, <3>2 DEF Others
    <2> QED  BY <2>3, <2>4, <2>5, <2>7
  <1> QED  BY <1>4, <1>5

LEMMA CreateUserKeepsEmail ==
    ASSUME PInv, EmailInv, ~overlapped, NEW r \in Requests, Others(r, "create"), steady', CreateUserReplies(r)
    PROVE  EmailInv'
  <1> USE DEF PInv, EmailInv
  <1>1. PICK i \in Ids, v \in Versions :
        /\ request[r].phase = "setUser" /\ request[r].kind = "create" /\ i = request[r].id /\ v = request[r].to
        /\ UNCHANGED <<connected, born, caches>> /\ RedisUser(i, v)
        /\ request'[r] = [request[r] EXCEPT !.phase = "setEmail"] /\ request[r] \in Waits
    BY CreateUserForm, RequestTypes DEF Subject, FellBack, Await, LInv, TypeOK
  <1>2. request'[r].phase = "setEmail" /\ request'[r].kind = "create" /\ request'[r].id = i
    BY <1>1, WaitForms
  <1>3. connected /\ v # Absent /\ (\A j \in Ids : ~Alive(j))
    <2>1. Reckons(request[r]) /\ KnowsItsId(r, request[r])
      BY DEF LInv, IdInv
    <2> QED  BY <1>1, <2>1 DEF Reckons, KnowsItsId
  <1>4. Answering = "redis" /\ Silent = "memory"
    BY <1>3 DEF Answering, Silent
  <1>5. OneStore' /\ Answering' = Answering /\ \A j \in Ids : Alive(j)' <=> j = i
    BY <1>1, <1>3, <1>4, AccountChanged DEF RedisUser, MemorySame, LInv
  <1>6. \A q \in Requests \ {r} : request[q].phase \notin {"delUser", "delEmail"}
    BY NoDeletion DEF Kinds
  <1>7. emailToId' = NoId /\ store'["redis"].email = NoId
    <2>1. emailToId \in Ids \cup {NoId} /\ store["redis"].email \in Ids \cup {NoId}
      BY StoresType DEF LInv, TypeOK, Accounts
    <2>2. emailToId' = emailToId /\ store'["redis"].email = store["redis"].email
      BY <1>1 DEF RedisUser, caches
    <2> QED  BY <1>1, <1>3, <1>4, <1>6, <2>1, <2>2 DEF Leads
  <1>8. Leads'
    <2>1. ~Known(i)'
      BY <1>2 DEF Known
    <2> QED  BY <1>4, <1>5, <1>7, <2>1 DEF Leads
  <1>9. ASSUME NEW q \in Requests \ {r}, NEW u \in Waits, u = request[q]
        PROVE  Reckons(u)'
    <2>1. Reckons(u) /\ u.phase \notin {"delUser", "delEmail"} /\ (u.phase # "idle" => u.kind # "create")
      BY <1>6, <1>9 DEF Others, Conflict
    <2>2. u.phase # "setEmail"
      BY <1>9, <2>1 DEF LInv, IdInv, KnowsItsId
    <2>3. u.phase \in {"hash", "setUser"} => u.kind # "update"
      BY <1>3, <2>1, WaitForms DEF Reckons
    <2> QED  BY <1>1, <1>3, <2>1, <2>2, <2>3 DEF Reckons
  <1>10. Reckons(request[r])'
    BY <1>1, <1>2, <1>3, <1>5 DEF Reckons
  <1>11. \A q \in Requests : Reckons(request[q])'
    BY <1>9, <1>10, RequestTypes DEF Others, LInv
  <1>12. OneAccount'
    BY <1>5 DEF OneAccount
  <1> QED  BY <1>5, <1>8, <1>11, <1>12

LEMMA CreateEmailKeepsEmail ==
    ASSUME PInv, EmailInv, ~overlapped, NEW r \in Requests, Others(r, "create"), steady', CreateEmailReplies(r)
    PROVE  EmailInv'
  <1> USE DEF PInv, EmailInv
  <1>1. PICK i \in Ids :
        /\ request[r].phase = "setEmail" /\ i = request[r].id
        /\ connected' = connected /\ RedisEmail(i) /\ emailToId' = i /\ request'[r] = Idle
    BY CreateEmailForm DEF Subject, FellBack, SetUser, Answer, LInv, TypeOK
  <1>2. connected /\ Alive(i)
    <2>1. Reckons(request[r])
      OBVIOUS
    <2> QED  BY <1>1, <2>1 DEF Reckons
  <1>3. Answering = "redis" /\ Silent = "memory" /\ Answering' = "redis" /\ Silent' = "memory"
    BY <1>1, <1>2 DEF Answering, Silent
  <1>4. OneStore' /\ store'["redis"].email = i /\ \A j : Alive(j)' <=> Alive(j)
    BY <1>1, <1>3 DEF RedisEmail, MemorySame, OneStore, Alive
  <1>5. OneAccount' /\ Leads'
    BY <1>1, <1>2, <1>3, <1>4 DEF OneAccount, Leads
  <1>6. ASSUME NEW q \in Requests \ {r}, NEW u, u = request[q]
        PROVE  Reckons(u)'
    <2>1. u.phase \notin {"delUser", "delEmail"} /\ Reckons(u)
      BY <1>6, NoDeletion DEF Kinds
    <2> QED  BY <1>1, <1>4, <2>1 DEF Reckons
  <1>7. Reckons(request[r])'
    BY <1>1 DEF Reckons, Idle
  <1> QED  BY <1>4, <1>5, <1>6, <1>7 DEF Others

LEMMA UpdateUserKeepsEmail ==
    ASSUME PInv, EmailInv, ~overlapped, NEW r \in Requests, Others(r, "update"), steady', UpdateUserReplies(r)
    PROVE  EmailInv'
  <1> USE DEF PInv, EmailInv
  <1>1. PICK i \in Ids, v \in Versions :
        /\ request[r].phase = "setUser" /\ request[r].kind = "update" /\ i = request[r].id /\ v = request[r].to
        /\ UNCHANGED <<connected, born>> /\ RedisUser(i, v) /\ emailToId' = i /\ request'[r] = Idle
    BY UpdateUserForm DEF Subject, FellBack, SetUser, Answer, LInv, TypeOK
  <1>2. connected /\ v # Absent /\ Alive(i)
    <2>1. Reckons(request[r]) /\ KnowsItsId(r, request[r])
      BY DEF LInv, IdInv
    <2> QED  BY <1>1, <2>1 DEF Reckons, KnowsItsId
  <1>3. Answering = "redis" /\ Silent = "memory" /\ Answering' = "redis"
    BY <1>1, <1>2 DEF Answering, Silent
  <1>4. OneStore' /\ \A j \in Ids : Alive(j)' <=> Alive(j)
    <2>1. OneStore' /\ \A j \in Ids : Alive(j)' <=> IF j = i THEN v # Absent ELSE Alive(j)
      BY <1>1, <1>3, AccountChanged DEF RedisUser, MemorySame, LInv
    <2> QED  BY <1>2, <2>1
  <1>5. store'["redis"].email = store["redis"].email /\ store["redis"].email \in Ids \cup {NoId}
    BY <1>1, StoresType DEF RedisUser, LInv, Accounts
  <1>6. \A q \in Requests : request[q].phase \notin {"delUser", "delEmail"}
    BY <1>1, NoDeletion DEF Kinds
  <1>7. \A j : Known(j)' => Known(j)
    <2>1. ~Creating(request[r])
      BY <1>1 DEF Creating
    <2> QED  BY <1>1, <2>1, KnownBefore
  <1>8. OneAccount' /\ Leads'
    BY <1>1, <1>2, <1>3, <1>4, <1>5, <1>6, <1>7 DEF OneAccount, Leads
  <1>9. ASSUME NEW q \in Requests \ {r}, NEW u \in Waits, u = request[q]
        PROVE  Reckons(u)'
    <2>1. u.phase \notin {"delUser", "delEmail"} /\ Reckons(u)
      BY <1>6, <1>9
    <2>2. u.phase \in {"getUser", "setUser", "setEmail"} \/ (u.phase = "hash" /\ u.kind = "update") => u.id \in Ids
      BY WaitForms
    <2> QED  BY <1>1, <1>4, <2>1, <2>2 DEF Reckons
  <1>10. Reckons(request[r])'
    BY <1>1 DEF Reckons, Idle
  <1>11. \A q \in Requests : Reckons(request[q])'
    BY <1>9, <1>10, RequestTypes DEF Others, LInv
  <1> QED  BY <1>4, <1>8, <1>11

LEMMA DeleteUserKeepsEmail ==
    ASSUME PInv, EmailInv, ~overlapped, NEW r \in Requests, Others(r, "delete"), steady', DeleteUserReplies(r)
    PROVE  EmailInv'
  <1> USE DEF PInv, EmailInv
  <1>1. PICK i \in Ids :
        /\ request[r].phase = "delUser" /\ i = request[r].id /\ request[r] \in Waits
        /\ UNCHANGED <<connected, caches>> /\ RedisUser(i, Absent)
        /\ request'[r] = [request[r] EXCEPT !.phase = "delEmail"]
    BY DeleteUserForm, RequestTypes DEF Subject, FellBack, Await, LInv, TypeOK
  <1>2. request'[r].phase = "delEmail"
    BY <1>1, WaitForms
  <1>3. connected /\ emailToId = NoId /\ (\A j \in Ids : Alive(j) => j = i)
    <2>1. Reckons(request[r])
      OBVIOUS
    <2> QED  BY <1>1, <2>1 DEF Reckons
  <1>4. Answering = "redis" /\ Silent = "memory"
    BY <1>3 DEF Answering, Silent
  <1>5. OneStore' /\ \A j \in Ids : ~Alive(j)'
    BY <1>1, <1>3, <1>4, VersionsType, AccountChanged DEF RedisUser, MemorySame, LInv
  <1>6. emailToId' = NoId
    BY <1>1, <1>3 DEF caches
  <1>7. OneAccount' /\ Leads'
    BY <1>2, <1>5, <1>6 DEF OneAccount, Leads
  <1>8. ASSUME NEW q \in Requests \ {r}, NEW u \in Waits, u = request[q]
        PROVE  Reckons(u)'
    <2>1. Reckons(u) /\ (u.phase # "idle" => u.kind = "delete")
      BY <1>8 DEF Others, Conflict
    <2>2. KnowsItsId(q, u)
      BY <1>8 DEF LInv, IdInv
    <2>3. u.phase = "idle" \/ (u.phase \in {"getUser", "delUser", "delEmail"} /\ u.kind = "delete")
      BY <2>1, <2>2, WaitForms DEF KnowsItsId
    <2> QED  BY <1>1, <1>3, <1>5, <1>6, <2>1, <2>3 DEF Reckons
  <1>9. Reckons(request[r])'
    BY <1>1, <1>2, <1>3, <1>5, <1>6 DEF Reckons
  <1>10. \A q \in Requests : Reckons(request[q])'
    BY <1>8, <1>9, RequestTypes DEF Others, LInv
  <1> QED  BY <1>5, <1>7, <1>10

LEMMA DeleteEmailKeepsEmail ==
    ASSUME PInv, EmailInv, ~overlapped, NEW r \in Requests, Others(r, "delete"), steady', DeleteEmailReplies(r)
    PROVE  EmailInv'
  <1> USE DEF PInv, EmailInv
  <1>1. /\ request[r].phase = "delEmail" /\ UNCHANGED <<connected, caches>>
        /\ RedisEmail(NoId) /\ request'[r] = Idle
    BY DeleteEmailForm DEF Subject, FellBack, Answer, LInv, TypeOK
  <1>2. connected /\ emailToId = NoId /\ \A j \in Ids : ~Alive(j)
    <2>1. Reckons(request[r])
      OBVIOUS
    <2> QED  BY <1>1, <2>1 DEF Reckons
  <1>3. Answering = "redis" /\ Silent = "memory" /\ Answering' = "redis" /\ Silent' = "memory"
    BY <1>1, <1>2 DEF Answering, Silent
  <1>4. OneStore' /\ store'["redis"].email = NoId /\ emailToId' = NoId /\ \A j : Alive(j)' <=> Alive(j)
    BY <1>1, <1>2, <1>3 DEF RedisEmail, MemorySame, OneStore, Alive, caches
  <1>5. OneAccount' /\ Leads'
    BY <1>2, <1>3, <1>4 DEF OneAccount, Leads
  <1>6. ASSUME NEW q \in Requests \ {r}, NEW u, u = request[q]
        PROVE  Reckons(u)'
    BY <1>1, <1>4, <1>6 DEF Reckons
  <1>7. Reckons(request[r])'
    BY <1>1 DEF Reckons, Idle
  <1> QED  BY <1>4, <1>5, <1>6, <1>7 DEF Others

LEMMA WriteKeepsOthers ==
    ASSUME PInv, NEW r \in Requests, NEW kind,
           request[r].phase # "idle", request[r].kind = kind, overlapped' = overlapped, ~overlapped,
           \E w \in Waits : request' = [request EXCEPT ![r] = w] /\ (w.phase # "idle" => w.kind = kind)
    PROVE  Others(r, kind)
  BY MovesApart DEF PInv, Others

LEMMA LookupKeepsEmail ==
    ASSUME EInv, NEW r \in Requests, LookupStep(r)
    PROVE  EInv'
  <1> USE DEF EInv
  <1>1. PICK kind \in Kinds : Opens(r, kind) /\ Looks(r, kind)
    BY LookupForm DEF LookupStep, PInv
  <1>2. PInv'
    BY <1>1, LookupKeepsPasswords
  <1> SUFFICES ASSUME steady', ~overlapped'
               PROVE  EmailInv'
    BY <1>2
  <1>3. PICK w \in Waits : Waiting(r, kind, w)
    BY <1>1, LooksEffect DEF PInv
  <1>4. Others(r, kind) /\ ~overlapped
    BY <1>1, <1>3, MovesApart DEF PInv, Others, Opens, Waiting
  <1>5. steady
    BY <1>1 DEF Opens
  <1> QED  BY <1>1, <1>4, <1>5, MissKeepsEmail, FindKeepsEmail DEF Looks

LEMMA WriteKeepsEmail ==
    ASSUME EInv, NEW r \in Requests, WriteStep(r)
    PROVE  EInv'
  <1> USE DEF EInv
  <1>1. PInv'
    BY WritesKeepPasswords
  <1>2. TypeOK /\ LInv /\ request[r] \in Waits /\ Idle \in Waits /\ Idle.phase = "idle"
    BY RequestTypes DEF PInv, LInv, Waits, Idle
  <1> SUFFICES ASSUME steady', ~overlapped'
               PROVE  EmailInv'
    BY <1>1
  <1>3. overlapped' = overlapped /\ steady /\ request[r].phase # "idle"
    BY <1>2 DEF WriteStep, CreateHashed, CreateUserReplies, CreateEmailReplies, UpdateHashed,
                UpdateUserReplies, DeleteUserReplies, DeleteEmailReplies
  <1>4. request[r].kind \in Kinds
    BY <1>2, <1>3, WaitForms
  <1>5. \E w \in Waits : request' = [request EXCEPT ![r] = w] /\ (w.phase # "idle" => w.kind = request[r].kind)
    <2>1. request'[r] \in Waits /\ request' = [request EXCEPT ![r] = request'[r]]
      <3>1. request' \in [Requests -> Waits]
        BY <1>1 DEF PInv, LInv, TypeOK, Waits
      <3>2. \E u : request' = [request EXCEPT ![r] = u]
        BY DEF WriteStep, CreateHashed, CreateUserReplies, CreateEmailReplies, UpdateHashed,
               UpdateUserReplies, DeleteUserReplies, DeleteEmailReplies, Await, Answer, CreateInMaps, Updated
      <3> QED  BY <1>2, <3>1, <3>2 DEF TypeOK
    <2>2. request'[r] = Idle \/ request'[r].kind = request[r].kind
      <3>1. CASE CreateHashed(r) \/ UpdateHashed(r)
        <4>1. PICK i, v : HashedForm(r, i, v)
          BY <1>2, <3>1, CreateHashedForm, UpdateHashedForm
        <4>2. request'[r] = Idle \/ request'[r] = [phase |-> "setUser", kind |-> request[r].kind, id |-> i, to |-> v]
          BY <1>2, <4>1 DEF HashedForm, Await, Answer, TypeOK
        <4> QED  BY <4>2
      <3>2. CASE CreateUserReplies(r) \/ DeleteUserReplies(r)
        <4>1. request[r].phase \in {"setUser", "delUser"}
          BY <3>2 DEF CreateUserReplies, DeleteUserReplies
        <4>2. \A phase : [request[r] EXCEPT !.phase = phase].kind = request[r].kind
          BY <1>2, <4>1, WaitForms
        <4>3. request'[r] = Idle \/ \E phase : request'[r] = [request[r] EXCEPT !.phase = phase]
          BY <1>2, <3>2, CreateUserForm, DeleteUserForm DEF FellBack, Await, Answer, TypeOK
        <4> QED  BY <4>2, <4>3
      <3>3. CASE CreateEmailReplies(r) \/ UpdateUserReplies(r) \/ DeleteEmailReplies(r)
        BY <1>2, <3>3, CreateEmailForm, UpdateUserForm, DeleteEmailForm DEF FellBack, Answer, TypeOK
      <3> QED  BY <3>1, <3>2, <3>3 DEF WriteStep
    <2> QED  BY <1>2, <2>1, <2>2
  <1>6. Others(r, request[r].kind)
    BY <1>3, <1>5, WriteKeepsOthers
  <1>7. CASE CreateHashed(r)
    BY <1>2, <1>3, <1>6, <1>7, CreateHashedForm, HashedKeepsEmail DEF CreateHashed
  <1>8. CASE UpdateHashed(r)
    <2>1. PICK i \in Ids, v \in Versions : i = request[r].id /\ HashedForm(r, i, v)
      BY <1>2, <1>8, UpdateHashedForm
    <2> QED  BY <1>2, <1>3, <1>6, <1>8, <2>1, UpdateHashedForm, HashedKeepsEmail DEF UpdateHashed
  <1>9. CASE CreateUserReplies(r)
    BY <1>3, <1>6, <1>9, CreateUserKeepsEmail DEF CreateUserReplies
  <1>10. CASE CreateEmailReplies(r)
    <2>1. request[r].kind = "create"
      BY <1>2, <1>10 DEF CreateEmailReplies, LInv, IdInv, KnowsItsId
    <2> QED  BY <1>3, <1>6, <1>10, <2>1, CreateEmailKeepsEmail
  <1>11. CASE UpdateUserReplies(r)
    BY <1>3, <1>6, <1>11, UpdateUserKeepsEmail DEF UpdateUserReplies
  <1>12. CASE DeleteUserReplies(r) \/ DeleteEmailReplies(r)
    <2>1. request[r].kind = "delete"
      BY <1>2, <1>12, WaitForms DEF DeleteUserReplies, DeleteEmailReplies
    <2> QED  BY <1>3, <1>6, <1>12, <2>1, DeleteUserKeepsEmail, DeleteEmailKeepsEmail
  <1> QED  BY <1>7, <1>8, <1>9, <1>10, <1>11, <1>12 DEF WriteStep

LEMMA EnvironmentKeepsEmail ==
    ASSUME EInv, CacheForgets \/ ConnectionChanges \/ UNCHANGED vars
    PROVE  EInv'
  <1> USE DEF EInv
  <1>1. PInv'
    BY EnvironmentKeepsPasswords
  <1> SUFFICES ASSUME steady', ~overlapped'
               PROVE  EmailInv'
    BY <1>1
  <1>2. /\ UNCHANGED <<connected, accounts, request, born, steady, overlapped>>
        /\ emailToId' \in {emailToId, NoId}
    BY DEF CacheForgets, ConnectionChanges, vars, caches
  <1>3. EmailInv
    BY <1>2
  <1>4. OneStore' /\ Answering' = Answering /\ store' = store /\ \A j : Alive(j)' <=> Alive(j)
    BY <1>2, <1>3, AccountsKept DEF EmailInv
  <1>5. \A j : Known(j)' <=> Known(j)
    BY <1>2 DEF Known
  <1>6. OneAccount' /\ Leads'
    BY <1>2, <1>3, <1>4, <1>5 DEF EmailInv, OneAccount, Leads
  <1>7. ASSUME NEW q \in Requests, NEW u, u = request[q]
        PROVE  Reckons(u)'
    BY <1>2, <1>3, <1>4, <1>7 DEF EmailInv, Reckons
  <1> QED  BY <1>2, <1>4, <1>6, <1>7 DEF EmailInv

LEMMA EInvariance == Spec => []EInv
  <1>1. Init => EInv
    <2> SUFFICES ASSUME Init PROVE EInv
      OBVIOUS
    <2>1. PInv
      BY InitPInv
    <2>2. /\ \A i \in Ids : ~Alive(i)
          /\ \A q \in Requests : request[q].phase = "idle"
      BY DEF Init, Alive, Idle
    <2>3. OneStore
      BY DEF Init, OneStore, Answering, Silent, Stores
    <2>4. store[Answering].email = NoId /\ emailToId = NoId
      BY DEF Init, Answering, Stores
    <2> QED  BY <2>1, <2>2, <2>3, <2>4 DEF EInv, EmailInv, OneAccount, Leads, Reckons
  <1>2. EInv /\ [Next]_vars => EInv'
    BY StepForm, LookupKeepsEmail, WriteKeepsEmail, EnvironmentKeepsEmail
  <1> QED  BY <1>1, <1>2, PTL DEF Spec

\* EmailLeadsToItsAccount holds: while one store answers and neither
\* registrations nor deletions overlap, create never gives the email a second
\* account, and emailIndex and the cache lead to the one it has.
THEOREM EmailIsOneAccounts == Spec => []EmailLeadsToItsAccount
  <1>1. EInv => EmailLeadsToItsAccount
    <2> SUFFICES ASSUME EInv, steady, ~overlapped
                 PROVE  /\ \A i, j \in Ids : latest[i] # Absent /\ latest[j] # Absent => i = j
                        /\ \A i \in Ids : Settled(i) => \E s \in Stores : store[s].email = i
                        /\ emailToId # NoId => latest[emailToId] # Absent
      BY DEF EmailLeadsToItsAccount
    <2>1. Answering \in Stores
      BY DEF Answering, Stores
    <2> QED  BY <2>1 DEF EInv, EmailInv, OneAccount, Leads, Settled, Alive
  <1> QED  BY <1>1, EInvariance, PTL
=============================================================================
