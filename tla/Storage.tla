------------------------------ MODULE Storage ------------------------------
(* StorageService (src/src/storage/storage.service.ts) over its two          *)
(* adapters and the Redis pool, for one key: operations go to the active     *)
(* adapter, and one that fails on Redis switches to the other and is tried   *)
(* again there, with an await before it is.  A command takes effect with its *)
(* reply; without a reply it has been executed or not.  Time is abstracted:  *)
(* a session that was stored with a TTL may expire at any moment.            *)
EXTENDS RedisPool

CONSTANTS
    Sessions,   \* what may be stored at the key
    Timed,      \* those stored with a TTL
    Requests    \* places for operations; one that ended may start anew

ASSUME StorageAssumption == Timed \subseteq Sessions

Nothing == "nothing"
ASSUME NothingAssumption == Nothing \notin Sessions

VARIABLES
    activeAdapter,
    usingFallback,
    redis,      \* the session at the key in Redis
    memory,     \* the session in the InMemoryStorageAdapter's Map
    timers,     \* setTimeouts of the adapter that are pending
    request,
    last,       \* history: what the last change that was answered left at the key
    home        \* history: the adapter it took place in, if it is still known

storageVars == <<activeAdapter, usingFallback, redis, memory, timers, request, last, home>>
vars == <<poolVars, storageVars>>

NoAdapter == "undefined"
Idle == [op |-> "idle"]
Ops == {"read", "scan", "set", "delete", "clear"}
Wants(op) == IF op = "set" THEN Sessions ELSE {Nothing}

Init ==
    /\ PoolInit
    /\ activeAdapter = NoAdapter /\ usingFallback = FALSE
    /\ redis = Nothing /\ memory = Nothing /\ timers = 0
    /\ request = [r \in Requests |-> Idle]
    /\ last = Nothing /\ home = NoAdapter

Answer(r) == request' = [request EXCEPT ![r] = Idle]

\* An operation that changes the key is answered by an adapter.
Answered(op, session, adapter) ==
    IF op \in {"set", "delete", "clear"}
    THEN last' = session /\ home' = adapter
    ELSE UNCHANGED <<last, home>>

\* A command that nobody answered has changed the key in Redis.
Unanswered ==
    IF home = "redis" /\ redis' # redis
    THEN last' = Nothing /\ home' = NoAdapter
    ELSE UNCHANGED <<last, home>>

\* initializeStorage, once the pool's own onModuleInit is over.
InitializeStorage ==
    /\ activeAdapter = NoAdapter /\ connectionPromise = NoClient
    /\ activeAdapter' = IF Available THEN "redis" ELSE "memory"
    /\ usingFallback' = ~Available
    /\ UNCHANGED <<poolVars, redis, memory, timers, request, last, home>>

-----------------------------------------------------------------------------
\* InMemoryStorageAdapter.  An entry's timer is pending as long as the entry is.
TimersOf(session) == IF session \in Timed THEN 1 ELSE 0

\* Mutant: set leaves the timer of the entry it replaces.
SetOverTimer(session) ==
    /\ memory' = session
    /\ timers' = timers + TimersOf(session)

\* set clears the timer of the entry it replaces.
SetInMemory(session) ==
    /\ memory' = session
    /\ timers' = timers - TimersOf(memory) + TimersOf(session)

DeleteInMemory ==
    /\ memory' = Nothing
    /\ timers' = timers - TimersOf(memory)

InMemory(r, op, session) ==
    /\ \/ op = "set" /\ SetInMemory(session) /\ Answered(op, session, "memory")
       \/ op \in {"delete", "clear"} /\ DeleteInMemory /\ Answered(op, Nothing, "memory")
       \/ op \in {"read", "scan"} /\ UNCHANGED <<memory, timers, last, home>>
       \/ \* get and has find the session expired.
          /\ op = "read" /\ memory \in Timed /\ DeleteInMemory
          /\ last' = (IF home = "memory" THEN Nothing ELSE last) /\ UNCHANGED home
    /\ Answer(r)

TimerFires ==
    /\ timers > 0 /\ timers' = timers - 1
    /\ memory' = Nothing
    /\ last' = IF home = "memory" THEN Nothing ELSE last
    /\ UNCHANGED <<poolVars, activeAdapter, usingFallback, redis, request, home>>

\* The adapter's onModuleDestroy; operations may still come.
OnModuleDestroy ==
    /\ DeleteInMemory
    /\ last' = IF home = "memory" THEN Nothing ELSE last
    /\ UNCHANGED <<poolVars, activeAdapter, usingFallback, redis, request, home>>

-----------------------------------------------------------------------------
\* An operation on the active adapter: the Map's is over at once, that on Redis
\* awaits a command, or is about to fail for want of a client.
Perform(r, op, session, stage) ==
    \/ activeAdapter = "memory" /\ InMemory(r, op, session)
    \/ /\ activeAdapter = "redis"
       /\ request' = [request EXCEPT ![r] =
            [op |-> op, session |-> session, client |-> GetClient, stage |-> stage]]
       /\ UNCHANGED <<memory, timers, last, home>>

Start(r, op, session) ==
    /\ request[r] = Idle
    /\ Perform(r, op, session, "first")
    /\ UNCHANGED <<poolVars, activeAdapter, usingFallback, redis>>

\* On Redis, not between the switch and the second try.
Awaits(r) == request[r] # Idle /\ request[r].stage # "switched"

HasReply(r) == request[r].client # NoClient /\ link[request[r].client] = "up"

\* What a command leaves in Redis; clear asks for the keys first.
Executed(r) == IF request[r].op \in {"set", "delete"} THEN request[r].session ELSE redis

Replies(r) ==
    /\ Awaits(r) /\ HasReply(r)
    /\ \/ /\ request[r].op = "clear" => redis = Nothing
          /\ redis' = Executed(r)
          /\ Answered(request[r].op, request[r].session, "redis")
          /\ Answer(r)
       \/ \* clear has found the key; it deletes it with another command.
          /\ request[r].op = "clear" /\ redis # Nothing
          /\ request' = [request EXCEPT ![r].op = "delete"]
          /\ UNCHANGED <<redis, last, home>>
    /\ UNCHANGED <<poolVars, activeAdapter, usingFallback, memory, timers>>

\* An error reply, or none: then the command may have been executed.
FailedCommand(r) ==
    redis' \in IF request[r].client = NoClient \/ HasReply(r) THEN {redis} ELSE {redis, Executed(r)}

\* switchToFallback, if Redis is still the active adapter and this the first try;
\* or else the caller gets the error.
Fails(r) ==
    /\ Awaits(r)
    /\ FailedCommand(r) /\ Unanswered
    /\ IF request[r].stage = "first" /\ activeAdapter = "redis"
       THEN /\ activeAdapter' = "memory" /\ usingFallback' = TRUE
            /\ request' = [request EXCEPT ![r].stage = "switched", ![r].client = NoClient]
       ELSE Answer(r) /\ UNCHANGED <<activeAdapter, usingFallback>>
    /\ UNCHANGED <<poolVars, memory, timers>>

\* Mutant: the switch is all that a failed operation does.
RetryForgotten(r) ==
    /\ request[r] # Idle /\ request[r].stage = "switched"
    /\ Answered(request[r].op, request[r].session, "memory") /\ Answer(r)
    /\ UNCHANGED <<poolVars, activeAdapter, usingFallback, redis, memory, timers>>

\* The operation again, on the adapter that is the active one after the await.
Retry(r) ==
    /\ request[r] # Idle /\ request[r].stage = "switched"
    /\ Perform(r, request[r].op, request[r].session, "again")
    /\ UNCHANGED <<poolVars, activeAdapter, usingFallback, redis>>

\* Mutant: back on Redis, the flag still tells of the fallback.
ReconnectWithFlag ==
    /\ usingFallback /\ Available
    /\ activeAdapter' = "redis"
    /\ UNCHANGED <<poolVars, usingFallback, redis, memory, timers, request, last, home>>

AttemptRedisReconnection ==
    /\ usingFallback /\ Available
    /\ activeAdapter' = "redis" /\ usingFallback' = FALSE
    /\ UNCHANGED <<poolVars, redis, memory, timers, request, last, home>>

RedisExpires ==
    /\ redis \in Timed /\ redis' = Nothing
    /\ last' = IF home = "redis" THEN Nothing ELSE last
    /\ UNCHANGED <<poolVars, activeAdapter, usingFallback, memory, timers, request, home>>

PoolMoves == PoolSteps /\ UNCHANGED storageVars

Next ==
    \/ \E r \in Requests :
         \/ \E op \in Ops : \E session \in Wants(op) : Start(r, op, session)
         \/ Replies(r) \/ Fails(r) \/ Retry(r)
    \/ InitializeStorage \/ AttemptRedisReconnection
    \/ TimerFires \/ OnModuleDestroy \/ RedisExpires
    \/ PoolMoves

Spec == Init /\ [][Next]_vars

-----------------------------------------------------------------------------
(* Properties.                                                               *)

\* Every variable has its type, and the flag tells the adapter.
TypeOK ==
    /\ PoolTypeOK
    /\ activeAdapter \in {NoAdapter, "redis", "memory"}
    /\ usingFallback = (activeAdapter = "memory")
    /\ redis \in Sessions \cup {Nothing} /\ memory \in Sessions \cup {Nothing}
    /\ last \in Sessions \cup {Nothing} /\ home \in {NoAdapter, "redis", "memory"}
    /\ timers \in Nat
    /\ request \in [Requests -> {Idle}
         \cup [op : Ops, session : Sessions \cup {Nothing}, client : Clients \cup {NoClient},
               stage : {"first", "switched", "again"}]]

\* The in-memory adapter's timers are those of the entries it has: none outlives
\* its entry, to cut short another that takes its place.
TimersFollowEntries == timers = TimersOf(memory)

\* A change that was answered is what the next operation finds as long as the
\* adapter that took it is the active one, or when it is so again: operations that
\* overlap, fail, switch and are tried again lose none.  A change that failed and
\* has taken place in Redis all the same ends the claim until the next answer.
Content(adapter) == IF adapter = "redis" THEN redis ELSE memory
AnsweredChangesAreFound ==
    home = activeAdapter /\ home # NoAdapter => Content(activeAdapter) = last
=============================================================================
