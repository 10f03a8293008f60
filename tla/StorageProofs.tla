--------------------------- MODULE StorageProofs ---------------------------
(* The Redis pool and the storage service over it, for any number of clients *)
(* and of operations that overlap.  AvailableMeansUp is not inductive alone: *)
(* that somebody's connection is up while isConnected is set, whoever set    *)
(* it, is (SomebodyIsUp).  Nor is AnsweredChangesAreFound: the adapter of    *)
(* the last change must keep it also while the other one is active, for the  *)
(* service may come back to it (HomeKeepsLast).                              *)
EXTENDS Storage, TLAPS

SomebodyIsUp == isConnected => \E c \in Clients : link[c] = "up"

PInv == PoolTypeOK /\ SomebodyIsUp

LEMMA PoolInitInv == PoolInit => PInv
  BY DEF PoolInit, PInv, PoolTypeOK, SomebodyIsUp

LEMMA PoolKeepsInv == PInv /\ [PoolSteps]_poolVars => PInv'
  <1> SUFFICES ASSUME PInv, [PoolSteps]_poolVars PROVE PInv'
    OBVIOUS
  <1> USE DEF PInv, PoolTypeOK, SomebodyIsUp
  <1>1. CASE Connect
    BY <1>1 DEF Connect
  <1>2. CASE Disconnect
    BY <1>2 DEF Disconnect
  <1>3. ASSUME NEW c \in Clients, LinkUp(c) PROVE PInv'
    BY <1>3 DEF LinkUp
  <1>4. ASSUME NEW c \in Clients, ConnectResolves(c) PROVE PInv'
    BY <1>4 DEF ConnectResolves
  <1>5. ASSUME NEW c \in Clients, LinkDown(c) PROVE PInv'
    BY <1>5 DEF LinkDown, OnClose, ConnectRejects
  <1>6. ASSUME NEW c \in Clients, GiveUp(c) PROVE PInv'
    BY <1>6 DEF GiveUp
  <1>7. ASSUME NEW c \in Clients, QuitEnds(c) PROVE PInv'
    BY <1>7 DEF QuitEnds
  <1>8. ASSUME NEW c \in Clients, Closed(c) PROVE PInv'
    BY <1>8 DEF Closed, OnClose, ConnectRejects
  <1>9. CASE UNCHANGED poolVars
    BY <1>9 DEF poolVars
  <1> QED  BY <1>1, <1>2, <1>3, <1>4, <1>5, <1>6, <1>7, <1>8, <1>9 DEF PoolSteps

\* A client that is up and is not the pool's current one has been let go.
LEMMA PInvImpliesAvailableMeansUp == PInv => AvailableMeansUp
  BY NoClientAssumption DEF PInv, PoolTypeOK, SomebodyIsUp, AvailableMeansUp, GetClient, Available, LetGo

-----------------------------------------------------------------------------
\* Besides its type, what an operation carries is what it wants at the key.
RequestsWant == \A r \in Requests : request[r] # Idle => request[r].session \in Wants(request[r].op)

HomeKeepsLast == home # NoAdapter => Content(home) = last

IInv == PInv /\ TypeOK /\ TimersFollowEntries /\ RequestsWant /\ HomeKeepsLast

Values == Sessions \cup {Nothing}

Calls == [op : Ops, session : Values, client : Clients \cup {NoClient},
          stage : {"first", "switched", "again"}]

LEMMA NoTimerOfNothing == TimersOf(Nothing) = 0
  BY StorageAssumption, NothingAssumption DEF TimersOf

LEMMA InitInv == Init => IInv
  <1> SUFFICES ASSUME Init PROVE IInv
    OBVIOUS
  <1>1. PInv
    BY PoolInitInv DEF Init
  <1>2. TypeOK
    BY <1>1 DEF Init, TypeOK, PInv, NoAdapter
  <1>3. TimersFollowEntries
    BY NoTimerOfNothing DEF Init, TimersFollowEntries
  <1>4. RequestsWant /\ HomeKeepsLast
    BY DEF Init, RequestsWant, HomeKeepsLast, Content, NoAdapter
  <1> QED  BY <1>1, <1>2, <1>3, <1>4 DEF IInv

LEMMA WantsType ==
    ASSUME NEW op \in Ops, NEW session \in Wants(op)
    PROVE  session \in Values /\ (op # "set" => session = Nothing)
  BY DEF Wants, Values

LEMMA TimersType == ASSUME NEW session PROVE TimersOf(session) \in 0 .. 1
  BY DEF TimersOf

\* What an operation on the in-memory adapter does, beside its answer: a change
\* leaves there what it is remembered by; another operation at most finds that
\* a session has expired, which is remembered if the last change was there.
LEMMA InMemoryEffect ==
    ASSUME IInv, NEW r \in Requests, NEW op \in Ops, NEW session \in Wants(op),
           InMemory(r, op, session)
    PROVE  /\ request' = [request EXCEPT ![r] = Idle]
           /\ memory' \in Values /\ last' \in Values /\ timers' = TimersOf(memory')
           /\ \/ home' = "memory" /\ last' = memory'
              \/ /\ op \in {"read", "scan"} /\ home' = home
                 /\ memory' \in {memory, Nothing}
                 /\ home = "memory" => (memory = last => memory' = last')
                 /\ home # "memory" => last' = last
  <1>1. /\ memory \in Values /\ last \in Values /\ timers = TimersOf(memory)
    BY DEF IInv, TypeOK, TimersFollowEntries, Values
  <1>2. /\ TimersOf(memory) \in 0 .. 1 /\ TimersOf(session) \in 0 .. 1 /\ TimersOf(Nothing) = 0
    BY TimersType, NoTimerOfNothing
  <1>3. request' = [request EXCEPT ![r] = Idle]
    BY DEF InMemory, Answer
  <1>4. CASE op = "set" /\ SetInMemory(session) /\ Answered(op, session, "memory")
    <2>1. session \in Values
      BY WantsType
    <2>2. memory' = session /\ timers' = TimersOf(session) /\ last' = session /\ home' = "memory"
      BY <1>1, <1>2, <1>4 DEF SetInMemory, Answered
    <2> QED  BY <1>3, <2>1, <2>2
  <1>5. CASE op \in {"delete", "clear"} /\ DeleteInMemory /\ Answered(op, Nothing, "memory")
    <2>1. memory' = Nothing /\ timers' = 0 /\ last' = Nothing /\ home' = "memory"
      BY <1>1, <1>2, <1>5 DEF DeleteInMemory, Answered
    <2> QED  BY <1>2, <1>3, <2>1 DEF Values
  <1>6. CASE op \in {"read", "scan"} /\ UNCHANGED <<memory, timers, last, home>>
    BY <1>1, <1>3, <1>6
  <1>7. CASE /\ op = "read" /\ memory \in Timed /\ DeleteInMemory
             /\ last' = (IF home = "memory" THEN Nothing ELSE last) /\ UNCHANGED home
    <2>1. memory' = Nothing /\ timers' = 0
      BY <1>1, <1>2, <1>7 DEF DeleteInMemory
    <2> QED  BY <1>1, <1>2, <1>3, <1>7, <2>1 DEF Values
  <1> QED  BY <1>4, <1>5, <1>6, <1>7 DEF InMemory

\* Such an operation keeps the invariant, on the first try or after the switch.
LEMMA InMemoryKeepsInv ==
    ASSUME IInv, NEW r \in Requests, NEW op \in Ops, NEW session \in Wants(op),
           InMemory(r, op, session),
           activeAdapter = "memory", UNCHANGED <<poolVars, activeAdapter, usingFallback, redis>>
    PROVE  IInv'
  <1>1. PInv'
    BY PoolKeepsInv DEF IInv
  <1>2. TypeOK'
    <2>1. memory' \in Values /\ last' \in Values /\ redis' \in Values /\ home' \in {NoAdapter, "redis", "memory"}
      BY InMemoryEffect DEF IInv, TypeOK, Values
    <2>2. timers' \in Nat
      BY InMemoryEffect, TimersType
    <2>3. request' \in [Requests -> {Idle} \cup Calls]
      BY InMemoryEffect DEF IInv, TypeOK, Calls, Values
    <2>4. PoolTypeOK' /\ activeAdapter' = "memory" /\ usingFallback' = TRUE
      BY <1>1 DEF IInv, TypeOK, PInv
    <2> QED  BY <2>1, <2>2, <2>3, <2>4 DEF TypeOK, Values, Calls
  <1>3. TimersFollowEntries'
    BY InMemoryEffect DEF TimersFollowEntries
  <1>4. RequestsWant'
    BY InMemoryEffect DEF IInv, TypeOK, RequestsWant
  <1>5. HomeKeepsLast'
    BY InMemoryEffect DEF IInv, TypeOK, HomeKeepsLast, Content, NoAdapter
  <1> QED  BY <1>1, <1>2, <1>3, <1>4, <1>5 DEF IInv

LEMMA PerformKeepsInv ==
    ASSUME IInv, NEW r \in Requests, NEW op \in Ops, NEW session \in Wants(op),
           NEW stage \in {"first", "again"}, Perform(r, op, session, stage),
           UNCHANGED <<poolVars, activeAdapter, usingFallback, redis>>
    PROVE  IInv'
  <1>1. CASE activeAdapter = "memory" /\ InMemory(r, op, session)
    BY <1>1, InMemoryKeepsInv
  <1>2. CASE /\ request' = [request EXCEPT ![r] =
                   [op |-> op, session |-> session, client |-> GetClient, stage |-> stage]]
             /\ UNCHANGED <<memory, timers, last, home>>
    <2>1. PInv'
      BY PoolKeepsInv DEF IInv
    <2>2. GetClient \in Clients \cup {NoClient}
      BY DEF IInv, PInv, PoolTypeOK, GetClient
    <2>3. [op |-> op, session |-> session, client |-> GetClient, stage |-> stage] \in Calls
      BY <2>2, WantsType DEF Calls
    <2>4. request' \in [Requests -> {Idle} \cup Calls]
      BY <1>2, <2>3 DEF IInv, TypeOK, Calls, Values
    <2>5. TypeOK'
      BY <1>2, <2>1, <2>4 DEF IInv, TypeOK, PInv, Calls, Values
    <2>6. RequestsWant'
      BY <1>2 DEF IInv, TypeOK, RequestsWant
    <2> QED
      BY <1>2, <2>1, <2>5, <2>6 DEF IInv, TimersFollowEntries, HomeKeepsLast, Content
  <1> QED  BY <1>1, <1>2 DEF Perform

LEMMA StartKeepsInv ==
    ASSUME IInv, NEW r \in Requests, NEW op \in Ops, NEW session \in Wants(op),
           Start(r, op, session)
    PROVE  IInv'
  BY PerformKeepsInv DEF Start

LEMMA RequestType ==
    ASSUME IInv, NEW r \in Requests, request[r] # Idle
    PROVE  /\ request[r] \in Calls
           /\ request[r].op \in Ops /\ request[r].session \in Wants(request[r].op)
  BY DEF IInv, TypeOK, RequestsWant, Values, Calls

LEMMA RetryKeepsInv == ASSUME IInv, NEW r \in Requests, Retry(r) PROVE IInv'
  <1>1. \E op \in Ops : \E session \in Wants(op) : Perform(r, op, session, "again")
    BY RequestType DEF Retry
  <1> QED  BY <1>1, PerformKeepsInv DEF Retry

LEMMA ExecutedType ==
    ASSUME IInv, NEW r \in Requests, request[r] # Idle
    PROVE  /\ Executed(r) \in Values
           /\ request[r].op \in {"read", "scan"} => Executed(r) = redis
  BY RequestType DEF IInv, TypeOK, Executed, Values

LEMMA RepliesKeepsInv == ASSUME IInv, NEW r \in Requests, Replies(r) PROVE IInv'
  <1> DEFINE op == request[r].op
             session == request[r].session
  <1>1. /\ UNCHANGED <<poolVars, activeAdapter, usingFallback, memory, timers>>
        /\ request[r] # Idle
    BY DEF Replies, Awaits
  <1>2. PInv' /\ TimersFollowEntries'
    BY <1>1, PoolKeepsInv DEF IInv, TimersFollowEntries
  <1>3. CASE /\ op = "clear" => redis = Nothing
             /\ redis' = Executed(r)
             /\ Answered(op, session, "redis")
             /\ Answer(r)
    <2>1. request' = [request EXCEPT ![r] = Idle]
      BY <1>3 DEF Answer
    <2>2. \/ op \in {"set", "delete", "clear"} /\ home' = "redis" /\ last' = session /\ redis' = session
          \/ op \in {"read", "scan"} /\ home' = home /\ last' = last /\ redis' = redis
      <3>1. CASE op \in {"set", "delete"}
        BY <1>3, <3>1 DEF Executed, Answered
      <3>2. CASE op = "clear"
        BY <1>1, <1>3, <3>2, RequestType, WantsType DEF Executed, Answered
      <3>3. CASE op \in {"read", "scan"}
        BY <1>1, <1>3, <3>3, ExecutedType DEF Answered
      <3> QED  BY <1>1, <3>1, <3>2, <3>3, RequestType DEF Ops
    <2>3. session \in Values /\ redis \in Values /\ last \in Values
      BY <1>1, RequestType DEF IInv, TypeOK, Values
    <2>4. TypeOK'
      <3>1. request' \in [Requests -> {Idle} \cup Calls]
        BY <2>1 DEF IInv, TypeOK, Calls, Values
      <3>2. redis' \in Values /\ last' \in Values /\ home' \in {NoAdapter, "redis", "memory"}
        BY <2>2, <2>3 DEF IInv, TypeOK
      <3> QED  BY <1>1, <1>2, <3>1, <3>2 DEF IInv, TypeOK, PInv, Values, Calls
    <2>5. RequestsWant'
      BY <2>1 DEF IInv, TypeOK, RequestsWant
    <2>6. HomeKeepsLast'
      BY <1>1, <2>2 DEF IInv, HomeKeepsLast, Content, NoAdapter
    <2> QED  BY <1>2, <2>4, <2>5, <2>6 DEF IInv
  <1>4. CASE /\ op = "clear" /\ redis # Nothing
             /\ request' = [request EXCEPT ![r].op = "delete"]
             /\ UNCHANGED <<redis, last, home>>
    <2>1. session = Nothing
      BY <1>1, <1>4, RequestType, WantsType
    <2>2. [request[r] EXCEPT !.op = "delete"] \in Calls
      BY <1>1, RequestType DEF Ops, Calls
    <2>3. request' = [request EXCEPT ![r] = [request[r] EXCEPT !.op = "delete"]]
      BY <1>4
    <2>4. request' \in [Requests -> {Idle} \cup Calls]
      BY <2>2, <2>3 DEF IInv, TypeOK, Calls, Values
    <2>5. TypeOK'
      BY <1>1, <1>2, <1>4, <2>4 DEF IInv, TypeOK, PInv, Calls, Values
    <2>6. request'[r].op = "delete" /\ request'[r].session = Nothing
      BY <1>1, <2>1, <2>3, RequestType DEF IInv, TypeOK, Calls
    <2>7. RequestsWant'
      BY <2>3, <2>6 DEF IInv, TypeOK, RequestsWant, Wants
    <2> QED
      BY <1>1, <1>2, <1>4, <2>5, <2>7 DEF IInv, HomeKeepsLast, Content
  <1> QED  BY <1>3, <1>4 DEF Replies

LEMMA FailsKeepsInv == ASSUME IInv, NEW r \in Requests, Fails(r) PROVE IInv'
  <1>1. /\ UNCHANGED <<poolVars, memory, timers>> /\ request[r] # Idle
        /\ redis' \in {redis, Executed(r)} /\ Unanswered
    BY DEF Fails, Awaits, FailedCommand
  <1>2. PInv' /\ TimersFollowEntries'
    BY <1>1, PoolKeepsInv DEF IInv, TimersFollowEntries
  <1>3. /\ redis' \in Values /\ last' \in Values /\ home' \in {NoAdapter, "redis", "memory"}
    BY <1>1, ExecutedType DEF IInv, TypeOK, Unanswered, Values
  <1>4. HomeKeepsLast'
    BY <1>1 DEF IInv, TypeOK, HomeKeepsLast, Content, Unanswered, NoAdapter
  <1>5. CASE /\ activeAdapter' = "memory" /\ usingFallback' = TRUE
             /\ request' = [request EXCEPT ![r].stage = "switched", ![r].client = NoClient]
    <2>1. [request[r] EXCEPT !.stage = "switched", !.client = NoClient] \in Calls
      BY <1>1, RequestType DEF Calls
    <2>2. request' = [request EXCEPT ![r] = [request[r] EXCEPT !.stage = "switched", !.client = NoClient]]
      BY <1>5
    <2>3. request' \in [Requests -> {Idle} \cup Calls]
      BY <2>1, <2>2 DEF IInv, TypeOK, Calls, Values
    <2>4. request'[r].op = request[r].op /\ request'[r].session = request[r].session
      BY <1>1, <2>2, RequestType DEF IInv, TypeOK, Calls
    <2>5. RequestsWant'
      BY <1>1, <2>2, <2>4, RequestType DEF IInv, TypeOK, RequestsWant
    <2>6. TypeOK'
      BY <1>1, <1>2, <1>3, <1>5, <2>3 DEF IInv, TypeOK, PInv, Calls, Values
    <2> QED  BY <1>2, <1>4, <2>5, <2>6 DEF IInv
  <1>6. CASE Answer(r) /\ UNCHANGED <<activeAdapter, usingFallback>>
    <2>1. request' = [request EXCEPT ![r] = Idle]
      BY <1>6 DEF Answer
    <2>2. request' \in [Requests -> {Idle} \cup Calls]
      BY <2>1 DEF IInv, TypeOK, Calls, Values
    <2>3. RequestsWant'
      BY <2>1 DEF IInv, TypeOK, RequestsWant
    <2>4. TypeOK'
      BY <1>1, <1>2, <1>3, <1>6, <2>2 DEF IInv, TypeOK, PInv, Calls, Values
    <2> QED  BY <1>2, <1>4, <2>3, <2>4 DEF IInv
  <1> QED  BY <1>5, <1>6 DEF Fails

-----------------------------------------------------------------------------
LEMMA SwitchKeepsInv == IInv /\ (InitializeStorage \/ AttemptRedisReconnection) => IInv'
  <1> SUFFICES ASSUME IInv, InitializeStorage \/ AttemptRedisReconnection PROVE IInv'
    OBVIOUS
  <1>1. UNCHANGED <<poolVars, redis, memory, timers, request, last, home>>
    BY DEF InitializeStorage, AttemptRedisReconnection
  <1>2. activeAdapter' \in {"redis", "memory"} /\ usingFallback' = (activeAdapter' = "memory")
    BY DEF InitializeStorage, AttemptRedisReconnection, IInv, PInv, PoolTypeOK, Available
  <1>3. PInv'
    BY <1>1, PoolKeepsInv DEF IInv
  <1>4. TypeOK'
    BY <1>1, <1>2, <1>3 DEF IInv, TypeOK, PInv
  <1> QED
    BY <1>1, <1>3, <1>4
    DEF IInv, TimersFollowEntries, RequestsWant, HomeKeepsLast, Content

\* The entry of the in-memory adapter goes, with its timer.
LEMMA ForgettingKeepsInv == IInv /\ (TimerFires \/ OnModuleDestroy) => IInv'
  <1> SUFFICES ASSUME IInv, TimerFires \/ OnModuleDestroy PROVE IInv'
    OBVIOUS
  <1>1. UNCHANGED <<poolVars, activeAdapter, usingFallback, redis, request, home>>
    BY DEF TimerFires, OnModuleDestroy
  <1>2. /\ memory' = Nothing /\ last' = IF home = "memory" THEN Nothing ELSE last
    BY DEF TimerFires, OnModuleDestroy, DeleteInMemory
  <1>3. timers' = 0
    BY TimersType DEF IInv, TimersFollowEntries, TimerFires, OnModuleDestroy, DeleteInMemory
  <1>4. PInv'
    BY <1>1, PoolKeepsInv DEF IInv
  <1>5. TypeOK'
    BY <1>1, <1>2, <1>3, <1>4 DEF IInv, TypeOK, PInv
  <1>6. TimersFollowEntries'
    BY <1>2, <1>3, NoTimerOfNothing DEF TimersFollowEntries
  <1>7. RequestsWant'
    BY <1>1 DEF IInv, RequestsWant
  <1>8. HomeKeepsLast'
    BY <1>1, <1>2 DEF IInv, TypeOK, HomeKeepsLast, Content, NoAdapter
  <1> QED  BY <1>4, <1>5, <1>6, <1>7, <1>8 DEF IInv

LEMMA RedisExpiresKeepsInv == IInv /\ RedisExpires => IInv'
  <1> SUFFICES ASSUME IInv, RedisExpires PROVE IInv'
    OBVIOUS
  <1>1. /\ UNCHANGED <<poolVars, activeAdapter, usingFallback, memory, timers, request, home>>
        /\ redis' = Nothing /\ last' = IF home = "redis" THEN Nothing ELSE last
    BY DEF RedisExpires
  <1>2. PInv'
    BY <1>1, PoolKeepsInv DEF IInv
  <1>3. TypeOK'
    BY <1>1, <1>2 DEF IInv, TypeOK, PInv
  <1> QED
    BY <1>1, <1>2, <1>3
    DEF IInv, TimersFollowEntries, RequestsWant, HomeKeepsLast, Content, NoAdapter

LEMMA PoolMovesKeepInv == IInv /\ (PoolMoves \/ UNCHANGED vars) => IInv'
  <1> SUFFICES ASSUME IInv, PoolMoves \/ UNCHANGED vars PROVE IInv'
    OBVIOUS
  <1>1. [PoolSteps]_poolVars /\ UNCHANGED storageVars
    BY DEF PoolMoves, vars
  <1>2. PInv'
    BY <1>1, PoolKeepsInv DEF IInv
  <1> QED
    BY <1>1, <1>2
    DEF IInv, PInv, TypeOK, storageVars, TimersFollowEntries, RequestsWant, HomeKeepsLast, Content

LEMMA NextKeepsInv == IInv /\ [Next]_vars => IInv'
  <1> SUFFICES ASSUME IInv, [Next]_vars PROVE IInv'
    OBVIOUS
  <1>1. ASSUME NEW r \in Requests, NEW op \in Ops, NEW session \in Wants(op), Start(r, op, session)
        PROVE  IInv'
    BY <1>1, StartKeepsInv
  <1>2. ASSUME NEW r \in Requests, Replies(r) \/ Fails(r) \/ Retry(r) PROVE IInv'
    BY <1>2, RepliesKeepsInv, FailsKeepsInv, RetryKeepsInv
  <1>3. CASE InitializeStorage \/ AttemptRedisReconnection
    BY <1>3, SwitchKeepsInv
  <1>4. CASE TimerFires \/ OnModuleDestroy
    BY <1>4, ForgettingKeepsInv
  <1>5. CASE RedisExpires
    BY <1>5, RedisExpiresKeepsInv
  <1>6. CASE PoolMoves \/ UNCHANGED vars
    BY <1>6, PoolMovesKeepInv
  <1> QED  BY <1>1, <1>2, <1>3, <1>4, <1>5, <1>6 DEF Next

LEMMA Invariance == Spec => []IInv
  BY InitInv, NextKeepsInv, PTL DEF Spec

-----------------------------------------------------------------------------
\* Every variable has its type, and usingFallback tells which adapter is active.
THEOREM TypeCorrect == Spec => []TypeOK
  <1>1. IInv => TypeOK
    BY DEF IInv
  <1> QED  BY <1>1, Invariance, PTL

\* getClient returns a client only while that client's connection is up, unless
\* another client that the pool let go of still reports to it.
THEOREM ClientsAreUp == Spec => []AvailableMeansUp
  <1>1. IInv => AvailableMeansUp
    BY PInvImpliesAvailableMeansUp DEF IInv
  <1> QED  BY <1>1, Invariance, PTL

\* The in-memory adapter has a timer pending for the entry it has, and no other.
THEOREM TimersAreOfEntries == Spec => []TimersFollowEntries
  <1>1. IInv => TimersFollowEntries
    BY DEF IInv
  <1> QED  BY <1>1, Invariance, PTL

\* The active adapter has the last change that was answered, if it took place
\* there and no command that failed has changed the key in Redis since.
THEOREM NoAnsweredChangeIsLost == Spec => []AnsweredChangesAreFound
  <1>1. IInv => AnsweredChangesAreFound
    BY DEF IInv, HomeKeepsLast, AnsweredChangesAreFound
  <1> QED  BY <1>1, Invariance, PTL
=============================================================================
