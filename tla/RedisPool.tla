----------------------------- MODULE RedisPool -----------------------------
(* RedisPoolService (src/src/redis/redis-pool.service.ts), enabled: one      *)
(* shared client, whose events and whose awaited connect set isConnected.    *)
(* An ioredis client goes on retrying after its first connection failed, and *)
(* its handlers stay installed when the pool has let go of it.               *)
EXTENDS Naturals

CONSTANT Clients    \* the clients doConnect may create

NoClient == "null"
ASSUME NoClientAssumption == NoClient \notin Clients

VARIABLES
    primaryClient,
    isConnected,
    connectionPromise,  \* the client whose connect is awaited
    quitting,           \* the client whose quit is awaited
    link                \* the state of each client's own connection

poolVars == <<primaryClient, isConnected, connectionPromise, quitting, link>>

\* The pool as onModuleInit leaves it to its first connection.
PoolInit ==
    /\ \E c \in Clients :
         /\ primaryClient = c /\ connectionPromise = c
         /\ link = [d \in Clients |-> IF d = c THEN "connecting" ELSE "unused"]
    /\ isConnected = FALSE /\ quitting = NoClient

Available == isConnected /\ primaryClient # NoClient
GetClient == IF Available THEN primaryClient ELSE NoClient

-----------------------------------------------------------------------------
\* A call of connect that starts an attempt; another call awaits the same one,
\* or has nothing to do.
Connect ==
    /\ connectionPromise = NoClient /\ ~Available
    /\ \E c \in Clients :
         /\ link[c] = "unused"
         /\ primaryClient' = c /\ connectionPromise' = c
         /\ link' = [link EXCEPT ![c] = "connecting"]
    /\ UNCHANGED <<isConnected, quitting>>

\* The event connect, of any client there ever was.
LinkUp(c) ==
    /\ link[c] \in {"connecting", "down"}
    /\ link' = [link EXCEPT ![c] = "up"]
    /\ isConnected' = TRUE
    /\ UNCHANGED <<primaryClient, connectionPromise, quitting>>

\* The awaited connect resolves once the client is ready.
ConnectResolves(c) ==
    /\ connectionPromise = c /\ link[c] = "up"
    /\ isConnected' = TRUE /\ connectionPromise' = NoClient
    /\ UNCHANGED <<primaryClient, quitting, link>>

\* Mutant: the event close is not handled.
CloseUnheard(c) == UNCHANGED isConnected

\* The handlers of error and close.
OnClose(c) == isConnected' = FALSE

\* An awaited connect rejects when the connection closes.
ConnectRejects(c) ==
    IF connectionPromise = c
    THEN primaryClient' = NoClient /\ connectionPromise' = NoClient
    ELSE UNCHANGED <<primaryClient, connectionPromise>>

\* The connection fails or closes; the client will try again.
LinkDown(c) ==
    /\ link[c] \in {"connecting", "up"}
    /\ link' = [link EXCEPT ![c] = "down"]
    /\ OnClose(c) /\ ConnectRejects(c)
    /\ UNCHANGED quitting

\* retryStrategy gives up.
GiveUp(c) ==
    /\ link[c] = "down"
    /\ link' = [link EXCEPT ![c] = "ended"]
    /\ UNCHANGED <<primaryClient, isConnected, connectionPromise, quitting>>

Disconnect ==
    /\ primaryClient # NoClient /\ quitting = NoClient
    /\ quitting' = primaryClient
    /\ UNCHANGED <<primaryClient, isConnected, connectionPromise, link>>

\* quit resolves, on a client that is not ready at once, or rejects on one that
\* has ended; the connection is still to close, and nothing opens it again.
QuitEnds(c) ==
    /\ quitting = c
    /\ link' = [link EXCEPT ![c] = IF @ = "ended" THEN @ ELSE "closing"]
    /\ quitting' = NoClient
    /\ primaryClient' = NoClient /\ isConnected' = FALSE
    /\ UNCHANGED connectionPromise

\* The event close of a client that has quit, whoever is the pool's by now.
Closed(c) ==
    /\ link[c] = "closing"
    /\ link' = [link EXCEPT ![c] = "ended"]
    /\ OnClose(c) /\ ConnectRejects(c)
    /\ UNCHANGED quitting

PoolSteps ==
    \/ Connect \/ Disconnect
    \/ \E c \in Clients :
         \/ LinkUp(c) \/ ConnectResolves(c) \/ LinkDown(c) \/ GiveUp(c)
         \/ QuitEnds(c) \/ Closed(c)

-----------------------------------------------------------------------------
(* Properties.                                                               *)

PoolTypeOK ==
    /\ primaryClient \in Clients \cup {NoClient} /\ isConnected \in BOOLEAN
    /\ connectionPromise \in Clients \cup {NoClient} /\ quitting \in Clients \cup {NoClient}
    /\ link \in [Clients -> {"unused", "connecting", "up", "down", "closing", "ended"}]

\* getClient returns a client only while that client's connection is up, unless
\* another client that the pool let go of still reports to it.
LetGo(c) == c # primaryClient /\ link[c] \in {"connecting", "up", "down"}
AvailableMeansUp == GetClient # NoClient /\ (\A c \in Clients : ~LetGo(c)) => link[GetClient] = "up"
=============================================================================
