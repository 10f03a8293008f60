--------------------------- MODULE GatewayProofs ----------------------------
(* What holds of the store because the gateway is its caller.  The inductive *)
(* invariant PInv adds to the store's own IInv what each client's socket,    *)
(* session and timers have to do with each other.                            *)
EXTENDS Recency, SessionProofs

Agrees(c) ==
    /\ c \in Active => /\ c \in online
                       /\ disconnectTimer[c] = NoTimer
                       /\ expirationTimer[c] \in {NoTimer, session[c].expiresAt}
    /\ c \in Disconnected => disconnectTimer[c] \in {NoTimer, session[c].disconnectedAt + Grace}
    /\ c \in online /\ c \in Stored => c \in Active

PInv == IInv /\ GatewayTypeOK /\ \A c \in Clients : Agrees(c)

\* The ends of a request: its handler goes on after the await.
Ends(r) == \/ CompletionArrives(r) \/ CompletionFails(r)
           \/ StreamEnds(r) \/ StreamBreaks(r)

\* What one step of the store does to a client it does not serve.
Same(c) ==
    /\ session'[c] = session[c]
    /\ expirationTimer'[c] = expirationTimer[c]
    /\ disconnectTimer'[c] = disconnectTimer[c]

Gone(c) ==
    /\ session'[c] = Absent
    /\ expirationTimer'[c] = NoTimer
    /\ disconnectTimer'[c] = NoTimer

LEMMA UtterancesAreMessages ==
    ASSUME NEW r \in Requests
    PROVE  Question(r) \in Messages /\ Answer(r) \in Messages
  BY MessagesAreUtterances DEF Question, Answer, Roles

LEMMA AwaitingHasClient ==
    ASSUME GatewayTypeOK, NEW r \in Requests, Pending(r)
    PROVE  request[r] \in [phase : Phases, client : Clients] /\ request[r].client \in Clients
  BY DEF GatewayTypeOK, Pending, Unsent, Refused

\* Every end of a request is one of a pending one, that stores the answer or
\* leaves the store alone.
LEMMA EndsOfRequests ==
    ASSUME NEW r \in Requests, Ends(r)
    PROVE  /\ Pending(r) /\ UNCHANGED online
           /\ \/ AddMessage(request[r].client, Answer(r)) /\ Finish(r, "answered")
              \/ UNCHANGED vars /\ \E phase \in {"answered", "failed"} : Finish(r, phase)
  BY DEF Ends, Pending, Finish, CompletionArrives, CompletionFails, StreamEnds, StreamBreaks

\* The gateway's own variables keep their types.
LEMMA GatewayTyping ==
    ASSUME GatewayTypeOK, [GatewayNext]_gatewayVars
    PROVE  GatewayTypeOK'
  <1>1. ASSUME NEW c \in Clients, HandleConnection(c) \/ HandleDisconnect(c) \/ HandleGetHistory(c)
        PROVE  GatewayTypeOK'
    BY <1>1 DEF GatewayTypeOK, HandleConnection, HandleDisconnect, HandleGetHistory
  <1>2. ASSUME NEW c \in Clients, NEW r \in Requests,
               HandleUserMessage(c, r) \/ HandleUserMessageStream(c, r) \/ Refuse(c, r)
        PROVE  GatewayTypeOK'
    <2>1. \A phase \in {"completion", "stream"} :
             Sent(phase, c) \in [phase : Phases, client : Clients]
      BY DEF Sent, Phases
    <2> QED  BY <1>2, <2>1 DEF GatewayTypeOK, HandleUserMessage, HandleUserMessageStream, Ask, Refuse
  <1>3. ASSUME NEW r \in Requests, Ends(r)
        PROVE  GatewayTypeOK'
    <2>1. PICK phase \in {"answered", "failed"} : Finish(r, phase)
      BY <1>3, EndsOfRequests
    <2>2. request[r] \in [phase : Phases, client : Clients]
      BY <1>3, EndsOfRequests, AwaitingHasClient
    <2>3. [request[r] EXCEPT !.phase = phase] \in [phase : Phases, client : Clients]
      BY <2>2 DEF Phases
    <2> QED  BY <1>3, <2>1, <2>3, EndsOfRequests DEF GatewayTypeOK, Finish
  <1>4. CASE UNCHANGED <<online, request>>
    BY <1>4 DEF GatewayTypeOK
  <1> QED  BY <1>1, <1>2, <1>3, <1>4 DEF GatewayNext, Handlers, Ends, gatewayVars

\* Every step of the gateway is a step of the store, or leaves it alone.
LEMMA GatewayStepsAreSessionSteps ==
    ASSUME GatewayTypeOK, [GatewayNext]_gatewayVars
    PROVE  [Next]_vars
  <1>1. ASSUME NEW c \in Clients, HandleConnection(c) \/ HandleDisconnect(c) \/ HandleGetHistory(c)
        PROVE  (\E k \in Clients : Methods(k)) \/ UNCHANGED vars
    BY <1>1 DEF HandleConnection, HandleDisconnect, HandleGetHistory, Methods
  <1>2. ASSUME NEW c \in Clients, NEW r \in Requests,
               HandleUserMessage(c, r) \/ HandleUserMessageStream(c, r) \/ Refuse(c, r)
        PROVE  (\E k \in Clients : Methods(k)) \/ UNCHANGED vars
    BY <1>2, UtterancesAreMessages
       DEF HandleUserMessage, HandleUserMessageStream, Ask, Refuse, Methods, vars
  <1>3. ASSUME NEW r \in Requests, Ends(r)
        PROVE  (\E k \in Clients : Methods(k)) \/ UNCHANGED vars
    BY <1>3, UtterancesAreMessages, AwaitingHasClient, EndsOfRequests DEF Methods
  <1>4. Next \/ UNCHANGED vars
    BY <1>1, <1>2, <1>3 DEF GatewayNext, Handlers, Ends, gatewayVars, Next
  <1> QED  BY <1>4

-----------------------------------------------------------------------------
(* One client at a time: a client left alone or gone still agrees.           *)

LEMMA SameStillAgrees ==
    ASSUME NEW c \in Clients, Agrees(c), Same(c), c \in online' <=> c \in online
    PROVE  Agrees(c)'
  BY DEF Agrees, Same, Active, Disconnected, Stored

LEMMA GoneAgrees ==
    ASSUME NEW c \in Clients, Gone(c)
    PROVE  Agrees(c)'
  BY DEF Agrees, Gone, Active, Disconnected, Stored, Absent

LEMMA DestroyEffect ==
    ASSUME NEW gone \in SUBSET Clients, IInv, Destroy(gone), NEW c \in Clients
    PROVE  IF c \in gone THEN Gone(c) ELSE Same(c)
  BY DEF Destroy, Gone, Same, Removed, Cleared

LEMMA CreateOverEffect ==
    ASSUME IInv, NEW c \in Clients, CreateOver(c)
    PROVE  /\ c \notin Active
           /\ session'[c] = Fresh
           /\ expirationTimer'[c] = now + TTL
           /\ disconnectTimer'[c] \in {disconnectTimer[c], NoTimer}
           /\ \A k \in Clients \ {c} :
                Same(k) \/ (Gone(k) /\ Cardinality(Stored) >= MaxSessions)
  <1>1. PICK evicted \in Evictions :
          /\ c \notin Active
          /\ session' = [Removed(evicted) EXCEPT ![c] = Fresh]
          /\ expirationTimer' = Set(Cleared(expirationTimer, evicted), c, now + TTL)
          /\ disconnectTimer' = Cleared(disconnectTimer, evicted)
    BY DEF CreateOver
  <1>2. Cardinality(Stored) >= MaxSessions \/ evicted = {}
    BY DEF Evictions
  <1> QED  BY <1>1, <1>2 DEF Removed, Cleared, Set, Same, Gone

LEMMA TouchEffect ==
    ASSUME IInv, NEW c \in Clients, NEW buffer, TouchWith(c, buffer)
    PROVE  /\ c \in Active /\ c \in Active'
           /\ session'[c].expiresAt = now + TTL
           /\ expirationTimer'[c] = now + TTL
           /\ disconnectTimer'[c] = disconnectTimer[c]
           /\ \A k \in Clients \ {c} : Same(k)
  BY DEF IInv, TypeOK, InternalSession, TouchWith, Active, Set, Same

LEMMA ReconnectEffect ==
    ASSUME IInv, NEW c \in Clients, ReconnectSession(c)
    PROVE  /\ c \in Active'
           /\ session'[c].expiresAt = now + TTL
           /\ expirationTimer'[c] = now + TTL
           /\ disconnectTimer'[c] = NoTimer
           /\ \A k \in Clients \ {c} : Same(k)
  BY DEF IInv, TypeOK, InternalSession, ReconnectSession, Active, Set, Same

LEMMA MarkDisconnectedEffect ==
    ASSUME IInv, NEW c \in Clients, MarkDisconnected(c)
    PROVE  /\ c \notin Active'
           /\ disconnectTimer'[c] = session'[c].disconnectedAt + Grace
           /\ \A k \in Clients \ {c} : Same(k)
  BY DEF IInv, TypeOK, InternalSession, MarkDisconnected, Active, Set, Same

LEMMA ReadEffect ==
    ASSUME IInv, NEW c \in Clients, ReadSession(c), NEW k \in Clients
    PROVE  Same(k) \/ (k = c /\ IsExpired(c) /\ Gone(k))
  <1>1. CASE c \in Stored /\ IsExpired(c)
    <2>1. Destroy({c})
      BY <1>1 DEF ReadSession
    <2> QED  BY <1>1, <2>1, DestroyEffect
  <1>2. CASE ~(c \in Stored /\ IsExpired(c))
    BY <1>2 DEF ReadSession, Same, vars
  <1> QED  BY <1>1, <1>2

-----------------------------------------------------------------------------
(* The handlers.                                                             *)

LEMMA ConnectionAgrees ==
    ASSUME PInv, NEW c \in Clients, HandleConnection(c), NEW k \in Clients
    PROVE  Agrees(k)'
  <1>1. c \notin online /\ online' = online \cup {c} /\ Agrees(c) /\ Agrees(k) /\ IInv
    BY DEF HandleConnection, PInv
  <1>2. CASE c \in Disconnected
    <2>1. ReconnectSession(c)
      BY <1>2 DEF HandleConnection
    <2>2. CASE k = c
      BY <1>1, <2>1, <2>2, ReconnectEffect DEF Agrees
    <2>3. CASE k # c
      BY <1>1, <2>1, <2>3, ReconnectEffect, SameStillAgrees
    <2> QED  BY <2>2, <2>3
  <1>3. CASE c \notin Disconnected
    <2>1. c \notin Active /\ CreateOver(c)
      BY <1>1, <1>3 DEF HandleConnection, CreateSession, KeepExisting, Agrees
    <2>2. CASE k = c
      <3>1. c \notin Stored
        BY <1>3, <2>1 DEF Stored, Active, Disconnected, IInv, TypeOK, InternalSession, PInv
      <3>2. disconnectTimer[c] = NoTimer
        BY <1>1, <3>1 DEF IInv, TimersFollowSessions
      <3> QED  BY <1>1, <2>1, <2>2, <3>2, CreateOverEffect DEF Agrees, Fresh, Active, Disconnected, Stored
    <2>3. CASE k # c
      BY <1>1, <2>1, <2>3, CreateOverEffect, SameStillAgrees, GoneAgrees
    <2> QED  BY <2>2, <2>3
  <1> QED  BY <1>2, <1>3

LEMMA DisconnectAgrees ==
    ASSUME PInv, NEW c \in Clients, HandleDisconnect(c), NEW k \in Clients
    PROVE  Agrees(k)'
  <1>1. c \in online /\ online' = online \ {c} /\ Agrees(c) /\ Agrees(k) /\ IInv
    BY DEF HandleDisconnect, PInv
  <1>2. CASE c \in Active
    <2>1. MarkDisconnected(c)
      BY <1>2 DEF HandleDisconnect
    <2>2. CASE k = c
      BY <1>1, <2>1, <2>2, MarkDisconnectedEffect DEF Agrees
    <2>3. CASE k # c
      BY <1>1, <2>1, <2>3, MarkDisconnectedEffect, SameStillAgrees
    <2> QED  BY <2>2, <2>3
  <1>3. CASE c \notin Active
    <2>1. UNCHANGED vars
      BY <1>3 DEF HandleDisconnect
    <2> QED  BY <1>1, <1>3, <2>1 DEF Agrees, vars, Active, Disconnected, Stored
  <1> QED  BY <1>2, <1>3

LEMMA AddMessageAgrees ==
    ASSUME PInv, NEW c \in Clients, NEW message \in Messages, AddMessage(c, message),
           UNCHANGED online, NEW k \in Clients
    PROVE  Agrees(k)'
  <1>1. Agrees(c) /\ Agrees(k) /\ IInv
    BY DEF PInv
  <1>2. CASE HasSession(c)
    <2> DEFINE buffer == Push(session[c].conversationBuffer, message)
    <2>1. TouchWith(c, buffer)
      BY <1>2 DEF AddMessage
    <2> HIDE DEF buffer
    <2>2. CASE k = c
      BY <1>1, <2>1, <2>2, TouchEffect DEF Agrees
    <2>3. CASE k # c
      BY <1>1, <2>1, <2>3, TouchEffect, SameStillAgrees
    <2> QED  BY <2>2, <2>3
  <1>3. CASE ~HasSession(c)
    BY <1>1, <1>3, ReadEffect, SameStillAgrees, GoneAgrees DEF AddMessage
  <1> QED  BY <1>2, <1>3

LEMMA HandlersAgree ==
    ASSUME PInv, Handlers, NEW k \in Clients
    PROVE  Agrees(k)'
  <1>0. Agrees(k) /\ IInv /\ GatewayTypeOK
    BY DEF PInv
  <1>1. CASE UNCHANGED <<vars, online>>
    BY <1>0, <1>1 DEF Agrees, vars, Active, Disconnected, Stored
  <1>2. ASSUME NEW c \in Clients, HandleGetHistory(c) PROVE Agrees(k)'
    BY <1>0, <1>2, ReadEffect, SameStillAgrees, GoneAgrees DEF HandleGetHistory
  <1>3. ASSUME NEW c \in Clients, NEW r \in Requests,
               HandleUserMessage(c, r) \/ HandleUserMessageStream(c, r)
        PROVE  Agrees(k)'
    BY <1>3, UtterancesAreMessages, AddMessageAgrees
       DEF HandleUserMessage, HandleUserMessageStream, Ask
  <1>4. ASSUME NEW c \in Clients, NEW r \in Requests, Refuse(c, r) PROVE Agrees(k)'
    BY <1>1, <1>4 DEF Refuse
  <1>5. ASSUME NEW r \in Requests, Ends(r)
        PROVE  Agrees(k)'
    BY <1>0, <1>1, <1>5, UtterancesAreMessages, AwaitingHasClient, AddMessageAgrees, EndsOfRequests
  <1> QED  BY <1>2, <1>3, <1>4, <1>5, ConnectionAgrees, DisconnectAgrees DEF Handlers, Ends

\* Timers, the sweep, the end of the process and the clock.
LEMMA BackgroundAgrees ==
    ASSUME PInv, Background, UNCHANGED <<online, request>>, NEW k \in Clients
    PROVE  Agrees(k)'
  <1>0. Agrees(k) /\ IInv
    BY DEF PInv
  <1>1. ASSUME NEW gone \in SUBSET Clients, Destroy(gone) PROVE Agrees(k)'
    BY <1>0, <1>1, DestroyEffect, SameStillAgrees, GoneAgrees
  <1>2. ASSUME NEW c \in Clients, TimersFire(c) PROVE Agrees(k)'
    BY <1>1, <1>2 DEF TimersFire, HandleSessionExpiration, HandleDisconnectTimeout, DestroySession
  <1>3. CASE CleanupExpiredSessions
    <2>1. {c \in Active : IsExpired(c)} \in SUBSET Clients
      BY DEF Active
    <2> QED  BY <1>1, <1>3, <2>1 DEF CleanupExpiredSessions
  <1>4. CASE OnModuleDestroy
    BY <1>0, <1>4 DEF OnModuleDestroy, Cleared, Agrees, Active, Disconnected, Stored
  <1>5. CASE Tick
    BY <1>0, <1>5 DEF Tick, Agrees, Active, Disconnected, Stored
  <1> QED  BY <1>2, <1>3, <1>4, <1>5 DEF Background

LEMMA GatewayInitInv == GatewayInit => PInv
  <1> SUFFICES ASSUME GatewayInit PROVE PInv
    OBVIOUS
  <1>1. IInv
    BY InitInv DEF GatewayInit
  <1>2. GatewayTypeOK
    BY DEF GatewayInit, GatewayTypeOK
  <1>3. ASSUME NEW c \in Clients PROVE Agrees(c)
    BY DEF GatewayInit, Init, Agrees, Active, Disconnected, Stored, Absent
  <1> QED  BY <1>1, <1>2, <1>3 DEF PInv

LEMMA GatewayNextKeepsInv == PInv /\ [GatewayNext]_gatewayVars => PInv'
  <1> SUFFICES ASSUME PInv, [GatewayNext]_gatewayVars PROVE PInv'
    OBVIOUS
  <1>1. IInv'
    BY GatewayStepsAreSessionSteps, NextKeepsInv DEF PInv
  <1>2. GatewayTypeOK'
    BY GatewayTyping DEF PInv
  <1>3. ASSUME NEW k \in Clients PROVE Agrees(k)'
    <2>1. CASE UNCHANGED gatewayVars
      BY <2>1 DEF PInv, gatewayVars, vars, Agrees, Active, Disconnected, Stored
    <2> QED  BY <2>1, HandlersAgree, BackgroundAgrees DEF GatewayNext
  <1> QED  BY <1>1, <1>2, <1>3 DEF PInv

THEOREM GatewayInvariance == GatewaySpec => []PInv
  BY GatewayInitInv, GatewayNextKeepsInv, PTL DEF GatewaySpec

\* The gateway uses the store as the store may be used: everything proved of
\* Spec, the conversations it implements included, holds behind the gateway.
THEOREM GatewayUsesTheStore == GatewaySpec => Spec
  <1>1. GatewayInit => Init
    BY DEF GatewayInit
  <1>2. PInv /\ [GatewayNext]_gatewayVars => [Next]_vars
    BY GatewayStepsAreSessionSteps DEF PInv
  <1> QED  BY <1>1, <1>2, GatewayInvariance, PTL DEF GatewaySpec, Spec

\* In particular what the gateway's users say and are told is kept as module
\* Conversation promises: three modules up, no ring, clock, timer or socket.
THEOREM GatewayKeepsConversations == GatewaySpec => ImplementsConversation
  BY GatewayUsesTheStore, StoreImplementsConversations

\* What the lifecycle of architecture.md says and the store alone breaks: behind
\* the gateway no timer is due for an active session before its expiresAt, for a
\* client that comes back is reconnected before createSession is called for him.
THEOREM TimersLetSessionsLive == GatewaySpec => []NoTimerCutsShort
  <1>1. PInv => NoTimerCutsShort
    <2> SUFFICES ASSUME PInv, NEW c \in Active, now < session[c].expiresAt
                 PROVE  ~IsDue(expirationTimer[c]) /\ ~IsDue(disconnectTimer[c])
      BY DEF NoTimerCutsShort
    <2>1. disconnectTimer[c] = NoTimer /\ expirationTimer[c] \in {NoTimer, session[c].expiresAt}
      BY DEF PInv, Agrees, Active
    <2>2. now \in Int /\ session[c].expiresAt \in Int
      BY DEF PInv, IInv, TypeOK, InternalSession, Active
    <2> QED  BY <2>1, <2>2 DEF IsDue
  <1> QED  BY <1>1, GatewayInvariance, PTL

\* Behind the gateway an active session has its client and no grace timer, and
\* a client that is here with a session has an active one.
THEOREM PresenceIsRight == GatewaySpec => []PresenceMatchesStatus
  <1>1. PInv => PresenceMatchesStatus
    BY DEF PInv, Agrees, PresenceMatchesStatus
  <1> QED  BY <1>1, GatewayInvariance, PTL

-----------------------------------------------------------------------------
(* Nothing but an eviction ends a session in use before its time.            *)

LEMMA SameIsStored ==
    ASSUME NEW c \in Clients, c \in Active, Same(c)
    PROVE  c \in Stored'
  BY DEF Same, Active, Stored

LEMMA LiveNotExpired ==
    ASSUME IInv, NEW c \in Clients, now < session[c].expiresAt
    PROVE  ~IsExpired(c)
  BY DEF IInv, TypeOK, InternalSession, IsExpired

LEMMA AddMessageSparesLive ==
    ASSUME PInv, NEW c \in Clients, c \in Active, now < session[c].expiresAt,
           NEW k \in Clients, NEW message \in Messages, AddMessage(k, message)
    PROVE  c \in Stored'
  <1>1. IInv /\ ~IsExpired(c)
    BY LiveNotExpired DEF PInv
  <1>2. CASE HasSession(k)
    <2> DEFINE buffer == Push(session[k].conversationBuffer, message)
    <2>1. TouchWith(k, buffer)
      BY <1>2 DEF AddMessage
    <2> HIDE DEF buffer
    <2>2. CASE k = c
      BY <1>1, <2>1, <2>2, TouchEffect DEF Active, Stored
    <2>3. CASE k # c
      BY <1>1, <2>1, <2>3, TouchEffect, SameIsStored
    <2> QED  BY <2>2, <2>3
  <1>3. CASE ~HasSession(k)
    BY <1>1, <1>3, ReadEffect, SameIsStored DEF AddMessage
  <1> QED  BY <1>2, <1>3

LEMMA ConnectionSparesLive ==
    ASSUME PInv, NEW c \in Clients, c \in Active,
           NEW k \in Clients, HandleConnection(k)
    PROVE  c \in Stored' \/ Evicts(k, c)
  <1>1. IInv /\ Agrees(c) /\ k \notin online /\ k # c
    BY DEF PInv, HandleConnection, Agrees
  <1>2. CASE k \in Disconnected
    BY <1>1, <1>2, ReconnectEffect, SameIsStored DEF HandleConnection
  <1>3. CASE k \notin Disconnected
    <2>1. CreateOver(k)
      BY <1>1, <1>3 DEF HandleConnection, CreateSession, KeepExisting, Agrees, PInv
    <2> QED  BY <1>1, <2>1, CreateOverEffect, SameIsStored DEF Evicts
  <1> QED  BY <1>2, <1>3

LEMMA HandlersSpareLive ==
    ASSUME PInv, NEW c \in Clients, c \in Active, now < session[c].expiresAt, Handlers
    PROVE  c \in Stored' \/ \E k \in Clients : Evicts(k, c)
  <1>0. IInv /\ GatewayTypeOK /\ ~IsExpired(c)
    BY LiveNotExpired DEF PInv
  <1>1. ASSUME UNCHANGED vars PROVE c \in Stored'
    BY <1>1 DEF vars, Active, Stored
  <1>2. ASSUME NEW k \in Clients, HandleConnection(k)
        PROVE  c \in Stored' \/ \E i \in Clients : Evicts(i, c)
    BY <1>2, ConnectionSparesLive
  <1>3. ASSUME NEW k \in Clients, HandleDisconnect(k) PROVE c \in Stored'
    <2>1. CASE MarkDisconnected(k)
      <3>1. k = c => c \in Stored'
        BY <2>1 DEF MarkDisconnected, Stored, IInv, TypeOK, InternalSession, PInv
      <3> QED  BY <1>0, <2>1, <3>1, MarkDisconnectedEffect, SameIsStored
    <2> QED  BY <1>1, <1>3, <2>1 DEF HandleDisconnect
  <1>4. ASSUME NEW k \in Clients, HandleGetHistory(k) PROVE c \in Stored'
    BY <1>0, <1>4, ReadEffect, SameIsStored DEF HandleGetHistory
  <1>5. ASSUME NEW k \in Clients, NEW r \in Requests,
               HandleUserMessage(k, r) \/ HandleUserMessageStream(k, r) \/ Refuse(k, r)
        PROVE  c \in Stored'
    BY <1>1, <1>5, UtterancesAreMessages, AddMessageSparesLive
       DEF HandleUserMessage, HandleUserMessageStream, Ask, Refuse, vars
  <1>6. ASSUME NEW r \in Requests, Ends(r)
        PROVE  c \in Stored'
    BY <1>0, <1>1, <1>6, UtterancesAreMessages, AwaitingHasClient, AddMessageSparesLive, EndsOfRequests
  <1> QED  BY <1>2, <1>3, <1>4, <1>5, <1>6 DEF Handlers, Ends

LEMMA BackgroundSparesLive ==
    ASSUME PInv, NEW c \in Clients, c \in Active, now < session[c].expiresAt, Background
    PROVE  c \in Stored'
  <1>0. IInv /\ Agrees(c) /\ ~IsExpired(c)
    BY LiveNotExpired DEF PInv
  <1>1. ASSUME NEW gone \in SUBSET Clients, Destroy(gone), c \notin gone PROVE c \in Stored'
    BY <1>0, <1>1, DestroyEffect, SameIsStored
  <1>2. ASSUME NEW k \in Clients, TimersFire(k) PROVE c \in Stored'
    <2>1. now \in Int /\ session[c].expiresAt \in Int
      BY <1>0 DEF IInv, TypeOK, InternalSession
    <2>2. ~IsDue(disconnectTimer[c]) /\ ~IsDue(expirationTimer[c])
      BY <1>0, <2>1 DEF Agrees, IsDue, NoTimer
    <2>3. k # c
      BY <1>2, <2>2 DEF TimersFire, HandleSessionExpiration, HandleDisconnectTimeout
    <2> QED  BY <1>1, <1>2, <2>3
             DEF TimersFire, HandleSessionExpiration, HandleDisconnectTimeout, DestroySession
  <1>3. CASE CleanupExpiredSessions
    <2>1. {k \in Active : IsExpired(k)} \in SUBSET Clients
      BY DEF Active
    <2> QED  BY <1>0, <1>1, <1>3, <2>1 DEF CleanupExpiredSessions
  <1>4. CASE OnModuleDestroy \/ Tick
    BY <1>4 DEF OnModuleDestroy, Tick, Active, Stored
  <1> QED  BY <1>2, <1>3, <1>4 DEF Background

\* A session in use is lost before its expiresAt only to make room for another.
THEOREM ActiveSessionsLast == GatewaySpec => ActiveUntilExpiry
  <1> DEFINE Lasts ==
        \A c \in Active :
          now < session[c].expiresAt /\ c \notin Stored' => \E k \in Clients : Evicts(k, c)
  <1>1. PInv /\ [GatewayNext]_gatewayVars => [Lasts]_gatewayVars
    <2> SUFFICES ASSUME PInv, GatewayNext, NEW c \in Active,
                        now < session[c].expiresAt, c \notin Stored'
                 PROVE  \E k \in Clients : Evicts(k, c)
      OBVIOUS
    <2>1. c \in Clients
      BY DEF Active
    <2> QED  BY <2>1, HandlersSpareLive, BackgroundSparesLive DEF GatewayNext
  <1>2. GatewaySpec => [][Lasts]_gatewayVars
    BY <1>1, GatewayInvariance, PTL DEF GatewaySpec
  <1> QED  BY <1>2 DEF ActiveUntilExpiry

-----------------------------------------------------------------------------
(* The grace period.                                                         *)

LEMMA SameIsStillStored ==
    ASSUME NEW c \in Clients, c \in Stored, Same(c)
    PROVE  c \in Stored'
  BY DEF Same, Stored

\* A client that is away: it has no socket, and its grace timer, if it is armed,
\* is that of this absence.
LEMMA AwayFacts ==
    ASSUME PInv, NEW c \in Disconnected
    PROVE  /\ c \in Clients /\ c \in Stored /\ c \notin Active /\ c \notin online /\ IInv
           /\ expirationTimer[c] = NoTimer
           /\ disconnectTimer[c] \in {NoTimer, session[c].disconnectedAt + Grace}
  BY DEF PInv, Agrees, Disconnected, Active, Stored, IInv, TimersFollowSessions

\* An answer that comes late destroys the session only when it has expired.
LEMMA AddMessageSparesAway ==
    ASSUME PInv, NEW c \in Disconnected, NEW k \in Clients, NEW message \in Messages,
           AddMessage(k, message), c \notin Stored'
    PROVE  k = c /\ IsExpired(c)
  <1>1. c \in Clients /\ c \in Stored /\ c \notin Active /\ IInv
    BY AwayFacts
  <1>2. CASE HasSession(k)
    <2> DEFINE buffer == Push(session[k].conversationBuffer, message)
    <2>1. TouchWith(k, buffer) /\ k # c
      BY <1>1, <1>2 DEF AddMessage, HasSession
    <2> HIDE DEF buffer
    <2> QED  BY <1>1, <2>1, TouchEffect, SameIsStillStored
  <1>3. CASE ~HasSession(k)
    BY <1>1, <1>3, ReadEffect, SameIsStillStored DEF AddMessage
  <1> QED  BY <1>2, <1>3

Late(c) ==
    /\ IsExpired(c)
    /\ \E r \in Requests : Pending(r) /\ request[r].client = c /\ ~Pending(r)'

LEMMA HandlersSpareAway ==
    ASSUME PInv, NEW c \in Disconnected, Handlers, c \notin Stored'
    PROVE  (\E k \in Clients : Evicts(k, c)) \/ Late(c)
  <1>0. c \in Clients /\ c \in Stored /\ c \notin Active /\ c \notin online /\ IInv
    BY AwayFacts
  <1>1. ~UNCHANGED vars
    BY <1>0 DEF vars, Stored
  <1>2. ASSUME NEW k \in Clients, HandleConnection(k) PROVE Evicts(k, c)
    <2>1. CASE k \in Disconnected
      <3>1. ReconnectSession(k)
        BY <1>2, <2>1 DEF HandleConnection
      <3> QED  BY <1>0, <3>1, ReconnectEffect, SameIsStillStored DEF Active, Stored
    <2>2. CASE k \notin Disconnected
      <3>1. k # c /\ CreateOver(k)
        BY <1>2, <2>2 DEF HandleConnection, CreateSession, KeepExisting, Agrees, PInv
      <3> QED  BY <1>0, <1>2, <3>1, CreateOverEffect, SameIsStillStored DEF Evicts
    <2> QED  BY <2>1, <2>2
  <1>3. ASSUME NEW k \in Clients, HandleDisconnect(k) PROVE FALSE
    <2>1. k # c /\ MarkDisconnected(k)
      BY <1>0, <1>1, <1>3 DEF HandleDisconnect
    <2> QED  BY <1>0, <2>1, MarkDisconnectedEffect, SameIsStillStored
  <1>4. ASSUME NEW k \in Clients, HandleGetHistory(k) PROVE FALSE
    BY <1>0, <1>4, ReadEffect, SameIsStillStored DEF HandleGetHistory
  <1>5. ASSUME NEW k \in Clients, NEW r \in Requests,
               HandleUserMessage(k, r) \/ HandleUserMessageStream(k, r) \/ Refuse(k, r)
        PROVE  FALSE
    BY <1>0, <1>1, <1>5, UtterancesAreMessages, AddMessageSparesAway
       DEF HandleUserMessage, HandleUserMessageStream, Ask, Refuse, vars
  <1>6. ASSUME NEW r \in Requests, Ends(r)
        PROVE  Late(c)
    <2>1. Pending(r) /\ AddMessage(request[r].client, Answer(r)) /\ Finish(r, "answered")
      BY <1>1, <1>6, EndsOfRequests
    <2>2. request[r] \in [phase : Phases, client : Clients] /\ DOMAIN request = Requests
      BY <2>1, AwaitingHasClient DEF PInv, GatewayTypeOK
    <2>3. request[r].client = c /\ IsExpired(c)
      BY <2>1, <2>2, UtterancesAreMessages, AddMessageSparesAway
    <2>4. ~Pending(r)'
      BY <2>1, <2>2 DEF Finish, Pending
    <2> QED  BY <2>1, <2>3, <2>4 DEF Late
  <1> QED  BY <1>2, <1>3, <1>4, <1>5, <1>6 DEF Handlers, Ends

LEMMA BackgroundSparesAway ==
    ASSUME PInv, NEW c \in Disconnected, now < session[c].disconnectedAt + Grace, Background
    PROVE  c \in Stored'
  <1>0. /\ c \in Clients /\ c \in Stored /\ c \notin Active /\ IInv
        /\ expirationTimer[c] = NoTimer
        /\ disconnectTimer[c] \in {NoTimer, session[c].disconnectedAt + Grace}
    BY AwayFacts
  <1>1. ASSUME NEW gone \in SUBSET Clients, Destroy(gone), c \notin gone PROVE c \in Stored'
    BY <1>0, <1>1, DestroyEffect, SameIsStillStored
  <1>2. ASSUME NEW k \in Clients, TimersFire(k) PROVE c \in Stored'
    <2>1. now \in Int /\ session[c].disconnectedAt \in Int /\ Grace \in Int
      BY <1>0, ConfigAssumption DEF IInv, TypeOK, InternalSession
    <2>2. ~IsDue(disconnectTimer[c]) /\ ~IsDue(expirationTimer[c])
      BY <1>0, <2>1 DEF IsDue, NoTimer
    <2>3. k # c
      BY <1>2, <2>2 DEF TimersFire, HandleSessionExpiration, HandleDisconnectTimeout
    <2> QED  BY <1>1, <1>2, <2>3
             DEF TimersFire, HandleSessionExpiration, HandleDisconnectTimeout, DestroySession
  <1>3. CASE CleanupExpiredSessions
    <2>1. {k \in Active : IsExpired(k)} \in SUBSET Clients
      BY DEF Active
    <2> QED  BY <1>0, <1>1, <1>3, <2>1 DEF CleanupExpiredSessions
  <1>4. CASE OnModuleDestroy \/ Tick
    BY <1>0, <1>4 DEF OnModuleDestroy, Tick, Stored
  <1> QED  BY <1>2, <1>3, <1>4 DEF Background

\* markDisconnected's promise: the session of a client that went away is there
\* for the whole grace period, but for an eviction and for an answer that comes
\* after the session's expiresAt.
THEOREM GracePeriodIsKept == GatewaySpec => GraceIsKept
  <1> DEFINE Waits ==
        \A c \in Disconnected :
          now < session[c].disconnectedAt + Grace /\ c \notin Stored'
            => \/ \E k \in Clients : Evicts(k, c)
               \/ /\ IsExpired(c)
                  /\ \E r \in Requests : Pending(r) /\ request[r].client = c /\ ~Pending(r)'
  <1>1. PInv /\ [GatewayNext]_gatewayVars => [Waits]_gatewayVars
    BY HandlersSpareAway, BackgroundSparesAway DEF GatewayNext, Late
  <1>2. GatewaySpec => [][Waits]_gatewayVars
    BY <1>1, GatewayInvariance, PTL DEF GatewaySpec
  <1> QED  BY <1>2 DEF GraceIsKept

-----------------------------------------------------------------------------
(* The histories.                                                            *)

\* The last message is new, the others are those that were there, the oldest of
\* them perhaps forgotten.
LEMMA RememberEffect ==
    ASSUME NEW s \in Seq(Messages), NEW m \in Messages
    PROVE  /\ Remember(s, m) \in Seq(Messages) /\ Len(Remember(s, m)) > 0
           /\ Remember(s, m)[Len(Remember(s, m))] = m
           /\ \E d \in {0, 1} : \A i \in 1 .. Len(Remember(s, m)) - 1 :
                i + d \in 1 .. Len(s) /\ Remember(s, m)[i] = s[i + d]
  <1>1. CASE Len(s) < MaxHistory
    <2>1. Remember(s, m) = Append(s, m)
      BY <1>1 DEF Remember
    <2>2. \A i \in 1 .. Len(Append(s, m)) - 1 : i + 0 \in 1 .. Len(s) /\ Append(s, m)[i] = s[i + 0]
      OBVIOUS
    <2>3. Append(s, m) \in Seq(Messages) /\ Len(Append(s, m)) > 0 /\ Append(s, m)[Len(Append(s, m))] = m
      OBVIOUS
    <2> QED  BY <2>1, <2>2, <2>3
  <1>2. CASE ~(Len(s) < MaxHistory)
    <2>1. Remember(s, m) = Append(Tail(s), m) /\ Len(s) > 0
      BY <1>2, MaxHistoryAssumption DEF Remember
    <2>2. \A i \in 1 .. Len(Append(Tail(s), m)) - 1 :
            i + 1 \in 1 .. Len(s) /\ Append(Tail(s), m)[i] = s[i + 1]
      BY <2>1
    <2>3. /\ Append(Tail(s), m) \in Seq(Messages) /\ Len(Append(Tail(s), m)) > 0
          /\ Append(Tail(s), m)[Len(Append(Tail(s), m))] = m
      BY <2>1
    <2> QED  BY <2>1, <2>2, <2>3
  <1> QED  BY <1>1, <1>2

\* A message of a history was sent by its client, or answers what he sent.
Told(c, m) ==
    \E phase \in Phases : /\ request[m.request] = Sent(phase, c)
                          /\ m.role = "assistant" => phase = "answered"

HistoryInv(c) ==
    /\ \A i, j \in DOMAIN Said(c) : i < j =>
         /\ Said(c)[i] # Said(c)[j]
         /\ ~(Said(c)[i].role = "assistant" /\ Said(c)[j] = Question(Said(c)[i].request))
    /\ \A i \in DOMAIN Said(c) : Told(c, Said(c)[i])

LEMMA SaidType == ASSUME IInv, NEW c \in Clients PROVE Said(c) \in Seq(Messages)
  BY ToArrayType DEF IInv, TypeOK, Said

LEMMA SaidWhenSame == ASSUME NEW c \in Clients, Same(c) PROVE Said(c)' = Said(c)
  BY DEF Same, Said

LEMMA SaidWhenGone == ASSUME NEW c \in Clients, Gone(c) PROVE Said(c)' = << >>
  BY EmptyIsBuffer DEF Gone, Said, Absent

\* A history that nobody adds to.
LEMMA QuietHistory ==
    ASSUME IInv, NEW c \in Clients, HistoryInv(c), Said(c)' \in {Said(c), << >>},
           \A m \in Messages : Told(c, m) => Told(c, m)'
    PROVE  HistoryInv(c)'
  <1>1. Said(c) \in Seq(Messages)
    BY SaidType
  <1>2. CASE Said(c)' = Said(c)
    BY <1>1, <1>2 DEF HistoryInv, Question
  <1>3. CASE Said(c)' = << >>
    BY <1>3 DEF HistoryInv
  <1> QED  BY <1>2, <1>3

\* A history to which a message is added that was not told before.
LEMMA GrowingHistory ==
    ASSUME IInv, NEW c \in Clients, HistoryInv(c), NEW m \in Messages,
           Said(c)' = Remember(Said(c), m), Told(c, m)',
           \A n \in Messages : Told(c, n) => Told(c, n)',
           \A n \in Messages : Told(c, n) =>
             n # m /\ ~(n.role = "assistant" /\ m = Question(n.request))
    PROVE  HistoryInv(c)'
  <1>1. PICK old \in Seq(Messages) : old = Said(c)
    BY SaidType
  <1> DEFINE new == Remember(old, m)
  <1>2. /\ new \in Seq(Messages) /\ Len(new) > 0 /\ new[Len(new)] = m
        /\ \E d \in {0, 1} : \A i \in 1 .. Len(new) - 1 : i + d \in 1 .. Len(old) /\ new[i] = old[i + d]
    BY RememberEffect
  <1> HIDE DEF new
  <1>3. PICK d \in {0, 1} : \A i \in 1 .. Len(new) - 1 : i + d \in 1 .. Len(old) /\ new[i] = old[i + d]
    BY <1>2
  <1>4. \A i \in 1 .. Len(old) : Told(c, old[i]) /\ old[i] \in Messages
    BY <1>1 DEF HistoryInv
  <1>5. \A i, j \in 1 .. Len(old) : i < j =>
          old[i] # old[j] /\ ~(old[i].role = "assistant" /\ old[j] = Question(old[i].request))
    BY <1>1 DEF HistoryInv
  <1>6. ASSUME NEW i \in 1 .. Len(new), NEW j \in 1 .. Len(new), i < j
        PROVE  new[i] # new[j] /\ ~(new[i].role = "assistant" /\ new[j] = Question(new[i].request))
    <2>1. i \in 1 .. Len(new) - 1 /\ i + d \in 1 .. Len(old) /\ new[i] = old[i + d]
      BY <1>2, <1>3, <1>6
    <2>2. CASE j = Len(new)
      BY <1>2, <1>4, <2>1, <2>2
    <2>3. CASE j # Len(new)
      <3>1. j \in 1 .. Len(new) - 1 /\ j + d \in 1 .. Len(old) /\ new[j] = old[j + d] /\ i + d < j + d
        BY <1>2, <1>3, <1>6, <2>3
      <3> QED  BY <1>5, <2>1, <3>1
    <2> QED  BY <2>2, <2>3
  <1>7. ASSUME NEW i \in 1 .. Len(new) PROVE Told(c, new[i])'
    <2>1. CASE i = Len(new)
      BY <1>2, <2>1
    <2>2. CASE i # Len(new)
      <3>1. i \in 1 .. Len(new) - 1
        BY <1>2, <2>2
      <3> QED  BY <1>3, <1>4, <3>1
    <2> QED  BY <2>1, <2>2
  <1>8. Said(c)' = new /\ DOMAIN new = 1 .. Len(new)
    BY <1>1, <1>2 DEF new
  <1> QED  BY <1>6, <1>7, <1>8 DEF HistoryInv, Question

\* Every client's history is left as it is, or begins anew.
Quiet == \A k \in Clients : Said(k)' \in {Said(k), << >>}

LEMMA AddMessageTells ==
    ASSUME IInv, NEW c \in Clients, NEW message \in Messages, AddMessage(c, message)
    PROVE  \/ Quiet
           \/ /\ Said(c)' = Remember(Said(c), message)
              /\ \A k \in Clients \ {c} : Said(k)' = Said(k)
  <1>1. CASE HasSession(c)
    <2> DEFINE buffer == Push(session[c].conversationBuffer, message)
    <2>1. TouchWith(c, buffer)
      BY <1>1 DEF AddMessage
    <2>2. session'[c].conversationBuffer = buffer
      BY <2>1 DEF TouchWith, IInv, TypeOK, InternalSession
    <2>3. Said(c)' = Remember(Said(c), message)
      BY <2>2, PushRemembers DEF Said, IInv, TypeOK
    <2> HIDE DEF buffer
    <2>4. \A k \in Clients \ {c} : Said(k)' = Said(k)
      BY <2>1, TouchEffect, SaidWhenSame
    <2> QED  BY <2>3, <2>4
  <1>2. CASE ~HasSession(c)
    BY <1>2, ReadEffect, SaidWhenSame, SaidWhenGone DEF AddMessage, Quiet
  <1> QED  BY <1>1, <1>2

LEMMA SocketsAreQuiet ==
    ASSUME PInv, NEW c \in Clients, HandleConnection(c) \/ HandleDisconnect(c) \/ HandleGetHistory(c)
    PROVE  Quiet
  <1>0. IInv
    BY DEF PInv
  <1>1. CASE UNCHANGED vars
    BY <1>1 DEF vars, Said, Quiet
  <1>2. CASE ReconnectSession(c) \/ MarkDisconnected(c)
    <2>1. \A k \in Clients : session'[k].conversationBuffer = session[k].conversationBuffer
      BY <1>0, <1>2 DEF ReconnectSession, MarkDisconnected, IInv, TypeOK, InternalSession
    <2> QED  BY <2>1 DEF Said, Quiet
  <1>3. CASE HandleConnection(c) /\ c \notin Disconnected
    <2>1. CreateOver(c)
      BY <1>3 DEF HandleConnection, CreateSession, KeepExisting, Agrees, PInv
    <2>2. Said(c)' = << >>
      BY <1>0, <2>1, CreateOverEffect, EmptyIsBuffer DEF Said, Fresh
    <2>3. \A k \in Clients \ {c} : Same(k) \/ Gone(k)
      BY <1>0, <2>1, CreateOverEffect
    <2> QED  BY <2>2, <2>3, SaidWhenSame, SaidWhenGone DEF Quiet
  <1>4. CASE ReadSession(c)
    BY <1>0, <1>4, ReadEffect, SaidWhenSame, SaidWhenGone DEF Quiet
  <1> QED  BY <1>1, <1>2, <1>3, <1>4 DEF HandleConnection, HandleDisconnect, HandleGetHistory

LEMMA BackgroundIsQuiet ==
    ASSUME PInv, Background
    PROVE  Quiet
  <1>0. IInv
    BY DEF PInv
  <1>1. ASSUME NEW gone \in SUBSET Clients, Destroy(gone) PROVE Quiet
    BY <1>0, <1>1, DestroyEffect, SaidWhenSame, SaidWhenGone DEF Quiet
  <1>2. ASSUME NEW k \in Clients, TimersFire(k) PROVE Quiet
    BY <1>1, <1>2 DEF TimersFire, HandleSessionExpiration, HandleDisconnectTimeout, DestroySession
  <1>3. CASE CleanupExpiredSessions
    <2>1. {k \in Active : IsExpired(k)} \in SUBSET Clients
      BY DEF Active
    <2> QED  BY <1>1, <1>3, <2>1 DEF CleanupExpiredSessions
  <1>4. CASE OnModuleDestroy \/ Tick
    BY <1>4 DEF OnModuleDestroy, Tick, Said, Quiet
  <1> QED  BY <1>2, <1>3, <1>4 DEF Background

HInv == PInv /\ \A c \in Clients : HistoryInv(c)

LEMMA SentIsNotUnsent ==
    ASSUME NEW phase \in Phases, NEW c
    PROVE  Sent(phase, c) # Unsent
  <1>1. Sent(phase, c).phase = phase /\ Unsent.phase = "unsent"
    BY DEF Sent, Unsent
  <1> QED  BY <1>1 DEF Phases

\* What was told stays told when a request is sent, refused or ends.
LEMMA ToldStays ==
    ASSUME GatewayTypeOK, NEW r \in Requests, NEW c \in Clients,
           \/ UNCHANGED request
           \/ Pending(r) /\ \E phase \in {"answered", "failed"} : Finish(r, phase)
           \/ request[r] = Unsent /\ \E new : request' = [request EXCEPT ![r] = new]
    PROVE  \A m \in Messages : Told(c, m) => Told(c, m)'
  <1> SUFFICES ASSUME NEW m \in Messages, Told(c, m) PROVE Told(c, m)'
    OBVIOUS
  <1>1. m.request \in Requests /\ DOMAIN request = Requests
    BY MessagesAreUtterances DEF GatewayTypeOK
  <1>2. CASE request'[m.request] = request[m.request]
    BY <1>2 DEF Told
  <1>3. CASE m.request = r /\ Pending(r) /\ \E phase \in {"answered", "failed"} : Finish(r, phase)
    <2>1. PICK old \in Phases : request[r] = Sent(old, c) /\ (m.role = "assistant" => old = "answered")
      BY <1>3 DEF Told
    <2>2. PICK new \in {"answered", "failed"} : request' = [request EXCEPT ![r].phase = new]
      BY <1>3 DEF Finish
    <2>3. m.role # "assistant"
      BY <1>3, <2>1 DEF Pending, Sent
    <2>4. request'[r] = Sent(new, c)
      BY <1>1, <1>3, <2>1, <2>2 DEF Sent
    <2> QED  BY <1>3, <2>2, <2>3, <2>4 DEF Told, Phases
  <1>4. request[m.request] # Unsent
    BY SentIsNotUnsent DEF Told
  <1>5. \/ request'[m.request] = request[m.request]
        \/ m.request = r /\ Pending(r) /\ \E phase \in {"answered", "failed"} : Finish(r, phase)
    BY <1>1, <1>4 DEF Finish
  <1> QED  BY <1>2, <1>3, <1>5

LEMMA QuietKeepsHistory ==
    ASSUME HInv, Quiet, \A c \in Clients, m \in Messages : Told(c, m) => Told(c, m)'
    PROVE  \A c \in Clients : HistoryInv(c)'
  BY QuietHistory DEF HInv, PInv, Quiet

\* A message that was not told before is told to its client alone.
LEMMA TellingKeepsHistory ==
    ASSUME HInv, NEW c \in Clients, NEW m \in Messages, AddMessage(c, m), Told(c, m)',
           \A k \in Clients, n \in Messages : Told(k, n) => Told(k, n)',
           \A n \in Messages : Told(c, n) =>
             n # m /\ ~(n.role = "assistant" /\ m = Question(n.request))
    PROVE  \A k \in Clients : HistoryInv(k)'
  <1>1. CASE Quiet
    BY <1>1, QuietKeepsHistory
  <1>2. CASE Said(c)' = Remember(Said(c), m) /\ \A k \in Clients \ {c} : Said(k)' = Said(k)
    <2>1. HistoryInv(c)'
      BY <1>2, GrowingHistory DEF HInv, PInv
    <2>2. \A k \in Clients \ {c} : HistoryInv(k)'
      BY <1>2, QuietHistory DEF HInv, PInv
    <2> QED  BY <2>1, <2>2
  <1> QED  BY <1>1, <1>2, AddMessageTells DEF HInv, PInv

LEMMA AskKeepsHistory ==
    ASSUME HInv, NEW c \in Clients, NEW r \in Requests, NEW phase \in {"completion", "stream"}, Ask(c, r, phase)
    PROVE  \A k \in Clients : HistoryInv(k)'
  <1>1. /\ request[r] = Unsent /\ AddMessage(c, Question(r))
        /\ request' = [request EXCEPT ![r] = Sent(phase, c)]
        /\ DOMAIN request = Requests
    BY DEF Ask, HInv, PInv, GatewayTypeOK
  <1>2. PICK m \in Messages : m = Question(r)
    BY UtterancesAreMessages
  <1>3. m.role = "user" /\ m.request = r
    BY <1>2 DEF Question
  <1>4. Told(c, m)'
    BY <1>1, <1>3 DEF Told, Phases
  <1>5. \A k \in Clients, n \in Messages : Told(k, n) => Told(k, n)'
    BY <1>1, ToldStays DEF HInv, PInv
  <1>6. ASSUME NEW n \in Messages, Told(c, n) PROVE n # m /\ m # Question(n.request)
    BY <1>1, <1>3, <1>6, SentIsNotUnsent DEF Told, Question
  <1> QED  BY <1>1, <1>2, <1>4, <1>5, <1>6, TellingKeepsHistory

LEMMA EndKeepsHistory ==
    ASSUME HInv, NEW r \in Requests, Ends(r)
    PROVE  \A k \in Clients : HistoryInv(k)'
  <1>1. Pending(r) /\ request[r] \in [phase : Phases, client : Clients] /\ DOMAIN request = Requests
    BY EndsOfRequests, AwaitingHasClient DEF HInv, PInv, GatewayTypeOK
  <1>2. \A k \in Clients, n \in Messages : Told(k, n) => Told(k, n)'
    BY <1>1, EndsOfRequests, ToldStays DEF HInv, PInv
  <1>3. CASE UNCHANGED vars
    BY <1>2, <1>3, QuietKeepsHistory DEF Quiet, vars, Said
  <1>4. CASE AddMessage(request[r].client, Answer(r)) /\ Finish(r, "answered")
    <2>1. PICK m \in Messages, c \in Clients : m = Answer(r) /\ c = request[r].client
      BY <1>1, UtterancesAreMessages
    <2>2. m.role = "assistant" /\ m.request = r
      BY <2>1 DEF Answer
    <2>3. request'[r] = Sent("answered", c)
      BY <1>1, <1>4, <2>1 DEF Finish, Sent
    <2>4. Told(c, m)'
      BY <2>2, <2>3 DEF Told, Phases
    <2>5. ASSUME NEW n \in Messages, Told(c, n) PROVE n # m /\ m # Question(n.request)
      BY <1>1, <2>2, <2>5 DEF Told, Question, Pending, Sent
    <2>6. AddMessage(c, m)
      BY <1>4, <2>1
    <2> QED  BY <1>2, <2>4, <2>5, <2>6, TellingKeepsHistory
  <1> QED  BY <1>3, <1>4, EndsOfRequests

LEMMA GatewayKeepsHistory == HInv /\ [GatewayNext]_gatewayVars => HInv'
  <1> SUFFICES ASSUME HInv, [GatewayNext]_gatewayVars PROVE HInv'
    OBVIOUS
  <1>0. PInv /\ GatewayTypeOK /\ PInv'
    BY GatewayNextKeepsInv DEF HInv, PInv
  <1>1. ASSUME UNCHANGED request, Quiet PROVE \A k \in Clients : HistoryInv(k)'
    BY <1>1, QuietKeepsHistory DEF Told
  <1>2. ASSUME NEW c \in Clients, HandleConnection(c) \/ HandleDisconnect(c) \/ HandleGetHistory(c)
        PROVE  \A k \in Clients : HistoryInv(k)'
    BY <1>0, <1>1, <1>2, SocketsAreQuiet DEF HandleConnection, HandleDisconnect, HandleGetHistory
  <1>3. ASSUME NEW c \in Clients, NEW r \in Requests, HandleUserMessage(c, r) \/ HandleUserMessageStream(c, r)
        PROVE  \A k \in Clients : HistoryInv(k)'
    BY <1>3, AskKeepsHistory DEF HandleUserMessage, HandleUserMessageStream
  <1>4. ASSUME NEW c \in Clients, NEW r \in Requests, Refuse(c, r) PROVE \A k \in Clients : HistoryInv(k)'
    <2>1. Quiet /\ request[r] = Unsent /\ request' = [request EXCEPT ![r] = Refused]
      BY <1>4 DEF Refuse, Quiet, vars, Said
    <2> QED  BY <1>0, <2>1, ToldStays, QuietKeepsHistory
  <1>5. ASSUME NEW r \in Requests, Ends(r)
        PROVE  \A k \in Clients : HistoryInv(k)'
    BY <1>5, EndKeepsHistory
  <1>6. ASSUME Background, UNCHANGED <<online, request>> PROVE \A k \in Clients : HistoryInv(k)'
    BY <1>0, <1>1, <1>6, BackgroundIsQuiet
  <1>7. ASSUME UNCHANGED gatewayVars PROVE \A k \in Clients : HistoryInv(k)'
    BY <1>1, <1>7 DEF gatewayVars, vars, Quiet, Said
  <1>8. \A k \in Clients : HistoryInv(k)'
    BY <1>2, <1>3, <1>4, <1>5, <1>6, <1>7 DEF GatewayNext, Handlers, Ends
  <1> QED  BY <1>0, <1>8 DEF HInv

LEMMA GatewayHistories == GatewaySpec => []HInv
  <1>1. GatewayInit => HInv
    <2> SUFFICES ASSUME GatewayInit, NEW c \in Clients PROVE HistoryInv(c)
      BY GatewayInitInv DEF HInv
    <2>1. Said(c) = << >>
      BY EmptyIsBuffer DEF GatewayInit, Init, Said, Absent
    <2> QED  BY <2>1 DEF HistoryInv
  <1> QED  BY <1>1, GatewayKeepsHistory, PTL DEF GatewaySpec

\* However the requests of a client overlap, the gateway's histories hold no
\* message twice and no answer before its question.
THEOREM HistoriesAreInOrder == GatewaySpec => []AnswersFollowQuestions
  <1>1. HInv => AnswersFollowQuestions
    BY DEF HInv, HistoryInv, AnswersFollowQuestions
  <1> QED  BY <1>1, GatewayHistories, PTL

\* And only what their own clients sent and were answered: no late answer goes
\* to another client, and none that failed on the way leaves anything.
THEOREM HistoriesStayApart == GatewaySpec => []HistoriesAreOwn
  <1>1. HInv => HistoriesAreOwn
    BY DEF HInv, HistoryInv, Told, HistoriesAreOwn
  <1> QED  BY <1>1, GatewayHistories, PTL

-----------------------------------------------------------------------------
(* Whom an eviction takes.  Times in the Map's order never decrease, except  *)
(* after a key whose client came back.                                       *)

LastUse(c) == session[c].lastActivityAt

\* What a step makes of two keys in the Map's order: they were in this order and
\* keep their times, or the later one is used now; or the earlier one comes back.
Follows(a, b) ==
    /\ a \in Returns \/ LastUse(a)' = LastUse(a)
    /\ \/ LastUse(b)' = now
       \/ <<a, b>> \in older /\ LastUse(b)' = LastUse(b)

Progress ==
    /\ now' \in {now, now + 1}
    /\ \A c \in Clients : LastUse(c)' \in {LastUse(c), now, NoTime}
    /\ \A a, b \in Clients : <<a, b>> \in older' => Follows(a, b)

LEMMA KeepingTimesProgresses ==
    ASSUME IInv, now' \in {now, now + 1}, older' = older,
           \A c \in Clients : LastUse(c)' = LastUse(c)
    PROVE  Progress
  BY DEF Progress, Follows

LEMMA DestroyProgresses ==
    ASSUME IInv, NEW gone \in SUBSET Clients, Destroy(gone)
    PROVE  Progress
  <1>1. now' = now /\ older' = Without(older, gone)
    BY DEF Destroy
  <1>2. \A c \in Clients : session'[c] = IF c \in gone THEN Absent ELSE session[c]
    BY DEF Destroy, Removed
  <1>3. \A c \in Clients : LastUse(c)' \in {LastUse(c), NoTime} /\ (c \notin gone => LastUse(c)' = LastUse(c))
    BY <1>2 DEF LastUse, Absent
  <1>4. ASSUME NEW a \in Clients, NEW b \in Clients, <<a, b>> \in older' PROVE Follows(a, b)
    <2>1. a \notin gone /\ b \notin gone /\ <<a, b>> \in older
      BY <1>1, <1>4 DEF Without
    <2> QED  BY <1>3, <2>1 DEF Follows
  <1> QED  BY <1>1, <1>3, <1>4 DEF Progress

LEMMA ReadProgresses ==
    ASSUME IInv, NEW c \in Clients, ReadSession(c)
    PROVE  Progress
  <1>1. CASE Destroy({c})
    BY <1>1, DestroyProgresses
  <1>2. CASE UNCHANGED vars
    BY <1>2, KeepingTimesProgresses DEF vars, LastUse
  <1> QED  BY <1>1, <1>2 DEF ReadSession

LEMMA AddMessageProgresses ==
    ASSUME IInv, NEW c \in Clients, NEW message \in Messages, AddMessage(c, message)
    PROVE  Progress
  <1>1. CASE HasSession(c)
    <2> DEFINE buffer == Push(session[c].conversationBuffer, message)
    <2>1. TouchWith(c, buffer)
      BY <1>1 DEF AddMessage
    <2> HIDE DEF buffer
    <2>2. now' = now /\ older' = AtEnd(older, Stored, c)
      BY <2>1 DEF TouchWith
    <2>3. LastUse(c)' = now /\ \A k \in Clients \ {c} : LastUse(k)' = LastUse(k)
      BY <2>1 DEF TouchWith, LastUse, IInv, TypeOK, InternalSession
    <2>4. ASSUME NEW a \in Clients, NEW b \in Clients, <<a, b>> \in older' PROVE Follows(a, b)
      <3>1. a # c /\ (b = c \/ <<a, b>> \in older)
        BY <2>2, <2>4 DEF AtEnd, Without
      <3> QED  BY <2>3, <3>1 DEF Follows
    <2> QED  BY <2>2, <2>3, <2>4 DEF Progress
  <1>2. CASE ~HasSession(c)
    BY <1>2, ReadProgresses DEF AddMessage
  <1> QED  BY <1>1, <1>2

LEMMA ConnectionProgresses ==
    ASSUME PInv, NEW c \in Clients, HandleConnection(c)
    PROVE  Progress
  <1>0. IInv /\ c \notin online /\ Agrees(c)
    BY DEF PInv, HandleConnection
  <1>1. CASE c \in Disconnected
    <2>1. ReconnectSession(c)
      BY <1>1 DEF HandleConnection
    <2>2. now' = now /\ older' = older /\ c \in Returns
      BY <1>0, <1>1, <2>1, ReconnectEffect DEF ReconnectSession, Returns
    <2>3. LastUse(c)' = now /\ \A k \in Clients \ {c} : LastUse(k)' = LastUse(k)
      BY <1>0, <2>1 DEF ReconnectSession, LastUse, IInv, TypeOK, InternalSession
    <2> QED  BY <2>2, <2>3 DEF Progress, Follows
  <1>2. CASE c \notin Disconnected
    <2>1. c \notin Stored /\ CreateOver(c)
      BY <1>0, <1>2 DEF HandleConnection, CreateSession, KeepExisting, Agrees, Stored, Active,
                        Disconnected, IInv, TypeOK, InternalSession
    <2>2. PICK evicted \in Evictions :
            /\ session' = [Removed(evicted) EXCEPT ![c] = Fresh]
            /\ older' = AtEnd(Without(older, evicted), Stored \ evicted, c)
            /\ now' = now
      BY <2>1 DEF CreateOver
    <2>3. /\ session'[c] = Fresh
          /\ \A k \in Clients \ {c} :
               session'[k] = IF k \in evicted THEN Absent ELSE session[k]
      BY <2>2 DEF Removed
    <2>4. /\ LastUse(c)' = now
          /\ \A k \in Clients \ {c} : /\ LastUse(k)' \in {LastUse(k), NoTime}
                                      /\ k \notin evicted => LastUse(k)' = LastUse(k)
      BY <2>3 DEF LastUse, Fresh, Absent
    <2>5. ASSUME NEW a \in Clients, NEW b \in Clients, <<a, b>> \in older' PROVE Follows(a, b)
      <3>1. a # c /\ a \notin evicted /\ (b = c \/ (b \notin evicted /\ <<a, b>> \in older))
        BY <2>2, <2>5 DEF AtEnd, Without
      <3> QED  BY <2>4, <3>1 DEF Follows
    <2> QED  BY <2>2, <2>4, <2>5 DEF Progress
  <1> QED  BY <1>1, <1>2

LEMMA StepsProgress ==
    ASSUME PInv, [GatewayNext]_gatewayVars
    PROVE  Progress
  <1>0. IInv /\ GatewayTypeOK
    BY DEF PInv
  <1>1. ASSUME UNCHANGED vars PROVE Progress
    BY <1>0, <1>1, KeepingTimesProgresses DEF vars, LastUse
  <1>2. ASSUME NEW c \in Clients, HandleDisconnect(c) PROVE Progress
    <2>1. CASE MarkDisconnected(c)
      <3>1. now' = now /\ older' = older
        BY <2>1 DEF MarkDisconnected
      <3>2. \A k \in Clients : LastUse(k)' = LastUse(k)
        BY <1>0, <2>1 DEF MarkDisconnected, LastUse, IInv, TypeOK, InternalSession
      <3> QED  BY <1>0, <3>1, <3>2, KeepingTimesProgresses
    <2> QED  BY <1>1, <1>2, <2>1 DEF HandleDisconnect
  <1>3. ASSUME NEW c \in Clients, HandleGetHistory(c) PROVE Progress
    BY <1>0, <1>3, ReadProgresses DEF HandleGetHistory
  <1>4. ASSUME NEW c \in Clients, NEW r \in Requests,
               HandleUserMessage(c, r) \/ HandleUserMessageStream(c, r) \/ Refuse(c, r)
        PROVE  Progress
    BY <1>0, <1>1, <1>4, UtterancesAreMessages, AddMessageProgresses
       DEF HandleUserMessage, HandleUserMessageStream, Ask, Refuse, vars
  <1>5. ASSUME NEW r \in Requests, Ends(r) PROVE Progress
    BY <1>0, <1>1, <1>5, EndsOfRequests, AwaitingHasClient, UtterancesAreMessages, AddMessageProgresses
  <1>6. ASSUME Background PROVE Progress
    <2>1. ASSUME NEW c \in Clients, TimersFire(c) PROVE Progress
      BY <1>0, <2>1, DestroyProgresses
         DEF TimersFire, HandleSessionExpiration, HandleDisconnectTimeout, DestroySession
    <2>2. CASE CleanupExpiredSessions
      <3>1. {c \in Active : IsExpired(c)} \in SUBSET Clients
        BY DEF Active
      <3> QED  BY <1>0, <2>2, <3>1, DestroyProgresses DEF CleanupExpiredSessions
    <2>3. CASE OnModuleDestroy \/ Tick
      BY <1>0, <2>3, KeepingTimesProgresses DEF OnModuleDestroy, Tick, LastUse
    <2> QED  BY <1>6, <2>1, <2>2, <2>3 DEF Background
  <1>7. CASE UNCHANGED gatewayVars
    BY <1>1, <1>7 DEF gatewayVars
  <1> QED  BY <1>2, <1>3, <1>4, <1>5, <1>6, <1>7, ConnectionProgresses DEF GatewayNext, Handlers, Ends

\* No session was used in the future, and of two keys in the Map's order the
\* first was used no later, unless its client came back since it was last.
Orderly ==
    /\ \A c \in Clients : LastUse(c) <= now
    /\ \A a, b \in Clients : <<a, b>> \in older /\ a \notin returned => LastUse(a) <= LastUse(b)

RInv == PInv /\ Orderly

LEMMA TimesAreInts ==
    ASSUME IInv
    PROVE  now \in Nat /\ \A c \in Clients : LastUse(c) \in Int
  BY DEF IInv, TypeOK, InternalSession, LastUse

LEMMA RemembersKeepsOrder ==
    ASSUME RInv, PInv', Progress, Remembers
    PROVE  Orderly'
  <1>1. IInv /\ IInv'
    BY DEF RInv, PInv
  <1>2. PICK t \in Nat, u \in Nat : t = now /\ u = now' /\ t <= u
    BY <1>1, TimesAreInts DEF Progress
  <1>3. ASSUME NEW c \in Clients PROVE LastUse(c)' <= u
    <2>1. PICK old \in Int : old = LastUse(c) /\ old <= t
      BY <1>1, <1>2, TimesAreInts DEF RInv, Orderly
    <2>2. LastUse(c)' \in {old, t, -1}
      BY <1>2, <2>1 DEF Progress, NoTime
    <2> QED  BY <1>2, <2>1, <2>2
  <1>4. ASSUME NEW a \in Clients, NEW b \in Clients, <<a, b>> \in older', a \notin returned'
        PROVE  LastUse(a)' <= LastUse(b)'
    <2>1. a \in Stored' /\ b \in Stored'
      BY <1>1, <1>4 DEF IInv, OrderIsTotal
    <2>2. a \notin Newest'
      BY <1>4, <2>1 DEF Newest
    <2>3. a \notin returned /\ a \notin Returns
      BY <1>4, <2>1, <2>2 DEF Remembers
    <2>4. Follows(a, b)
      BY <1>4 DEF Progress
    <2>5. PICK first \in Int, second \in Int :
            first = LastUse(a) /\ second = LastUse(b) /\ first <= t
      BY <1>1, <1>2, TimesAreInts DEF RInv, Orderly
    <2>6. LastUse(a)' = first
      BY <2>3, <2>4, <2>5 DEF Follows
    <2>7. LastUse(b)' = t \/ (LastUse(b)' = second /\ first <= second)
      BY <1>2, <2>3, <2>4, <2>5 DEF Follows, RInv, Orderly
    <2> QED  BY <2>5, <2>6, <2>7
  <1> QED  BY <1>2, <1>3, <1>4 DEF Orderly

LEMMA RecencyInitInv == RecencyInit => RInv
  <1> SUFFICES ASSUME RecencyInit PROVE RInv
    OBVIOUS
  <1>1. PInv
    BY GatewayInitInv DEF RecencyInit
  <1>2. now = 0 /\ older = {} /\ \A c \in Clients : LastUse(c) = -1
    BY DEF RecencyInit, GatewayInit, Init, LastUse, Absent, NoTime
  <1> QED  BY <1>1, <1>2 DEF RInv, Orderly

LEMMA RecencyNextKeepsInv == RInv /\ [RecencyNext]_recencyVars => RInv'
  <1> SUFFICES ASSUME RInv, [RecencyNext]_recencyVars PROVE RInv'
    OBVIOUS
  <1>1. PInv'
    BY GatewayNextKeepsInv DEF RInv, RecencyNext, recencyVars
  <1>2. CASE RecencyNext
    <2>1. Progress
      BY <1>2, StepsProgress DEF RInv, RecencyNext
    <2> QED  BY <1>1, <1>2, <2>1, RemembersKeepsOrder DEF RInv, RecencyNext
  <1>3. CASE UNCHANGED recencyVars
    <2>1. Orderly'
      BY <1>3 DEF RInv, Orderly, LastUse, recencyVars, gatewayVars, vars
    <2> QED  BY <1>1, <2>1 DEF RInv
  <1> QED  BY <1>2, <1>3

LEMMA RecencyInvariance == RecencySpec => []RInv
  BY RecencyInitInv, RecencyNextKeepsInv, PTL DEF RecencySpec

\* An eviction takes the key that no other precedes.
LEMMA EvictionTakesOldest ==
    ASSUME PInv, NEW k \in Clients, HandleConnection(k), NEW c \in Stored, c \notin Stored'
    PROVE  c \in Oldest
  <1>0. IInv /\ k \notin online /\ Agrees(k) /\ c \in Clients
    BY DEF PInv, HandleConnection, Stored
  <1>1. CASE k \in Disconnected
    BY <1>0, <1>1, ReconnectEffect, SameIsStillStored DEF HandleConnection, Active, Stored
  <1>2. CASE k \notin Disconnected
    <2>1. CreateOver(k)
      BY <1>0, <1>2 DEF HandleConnection, CreateSession, KeepExisting, Agrees
    <2>2. PICK evicted \in Evictions : session' = [Removed(evicted) EXCEPT ![k] = Fresh]
      BY <2>1 DEF CreateOver
    <2>3. k # c
      BY <1>0, <2>2 DEF Removed, Fresh, Stored
    <2>4. session'[c] = IF c \in evicted THEN Absent ELSE session[c]
      BY <1>0, <2>2, <2>3 DEF Removed
    <2>5. c \in evicted
      BY <2>4 DEF Stored
    <2> QED  BY <2>5 DEF Evictions
  <1> QED  BY <1>1, <1>2

\* The session evicted is the least recently used, as evictLRUSession's comment
\* says, unless its client came back and his key has not moved since.
THEOREM EvictionsSpareTheRecent == RecencySpec => EvictsLeastRecentUnlessReturned
  <1> DEFINE Spares ==
        \A c \in Stored \ returned :
          c \notin Stored' /\ (\E k \in Clients : Evicts(k, c))
            => \A other \in Stored : session[c].lastActivityAt <= session[other].lastActivityAt
  <1>1. RInv /\ [RecencyNext]_recencyVars => [Spares]_recencyVars
    <2> SUFFICES ASSUME RInv, NEW c \in Stored \ returned, c \notin Stored',
                        NEW k \in Clients, Evicts(k, c), NEW other \in Stored
                 PROVE  session[c].lastActivityAt <= session[other].lastActivityAt
      OBVIOUS
    <2>1. PInv /\ IInv /\ c \in Clients /\ other \in Clients
      BY DEF RInv, PInv, Stored
    <2>2. c \in Oldest
      BY <2>1, EvictionTakesOldest DEF Evicts
    <2>3. CASE other = c
      BY <2>1, <2>3 DEF IInv, TypeOK, InternalSession
    <2>4. CASE other # c
      <3>1. <<c, other>> \in older
        BY <2>1, <2>2, <2>4 DEF Oldest, IInv, OrderIsTotal
      <3> QED  BY <2>1, <3>1 DEF RInv, Orderly, LastUse
    <2> QED  BY <2>3, <2>4
  <1>2. RecencySpec => [][Spares]_recencyVars
    BY <1>1, RecencyInvariance, PTL DEF RecencySpec
  <1> QED  BY <1>2 DEF EvictsLeastRecentUnlessReturned
=============================================================================
