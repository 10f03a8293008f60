------------------------------ MODULE Session -------------------------------
(* SessionService (src/src/session/session.service.ts): the in-memory store  *)
(* of client sessions, its two timers per session, its periodic sweep and    *)
(* its eviction of the least recently used session at capacity.              *)
(*                                                                           *)
(* Each method runs to completion on Node's single thread, so a method is an *)
(* action; a timer callback is an action enabled from its deadline on, since *)
(* a timer may fire late but never early.  Time is `now`, in units that are  *)
(* coarse against a method's run: one method reads one value of the clock.   *)
EXTENDS CircularBuffer, FiniteSets

CONSTANTS
    Clients,        \* client ids, the keys of the store
    TTL,            \* config.ttlMs
    Grace,          \* config.disconnectGraceMs
    MaxSessions,    \* config.maxSessions
    Horizon         \* bound of the model: the clock stops here

ASSUME ConfigAssumption ==
    /\ TTL \in Nat /\ Grace \in Nat /\ Horizon \in Nat
    /\ MaxSessions \in Nat \ {0}

VARIABLES
    now,                \* the clock
    session,            \* store.sessions: each client's session, Absent when none
    older,              \* <<a, b>>: key a was inserted in the Map before key b
    expirationTimer,    \* store.expirationTimers: deadline of each armed timer
    disconnectTimer,    \* store.disconnectTimers: deadline of each armed timer
    up                  \* FALSE once onModuleDestroy has stopped sweep and timers

vars == <<now, session, older, expirationTimer, disconnectTimer, up>>

NoTime == -1
NoTimer == -1

Absent ==
    [status |-> "absent", lastActivityAt |-> NoTime, expiresAt |-> NoTime,
     disconnectedAt |-> NoTime, conversationBuffer |-> Empty]

Fresh ==
    [status |-> "active", lastActivityAt |-> now, expiresAt |-> now + TTL,
     disconnectedAt |-> NoTime, conversationBuffer |-> Empty]

Stored == {c \in Clients : session[c].status # "absent"}
Active == {c \in Clients : session[c].status = "active"}
Disconnected == {c \in Clients : session[c].status = "disconnected"}

\* isSessionExpired: strictly after expiresAt, whatever the session's status.
IsExpired(c) == now > session[c].expiresAt

HasSession(c) == c \in Active /\ ~IsExpired(c)

-----------------------------------------------------------------------------
(* The insertion order of a Map, as the set of pairs of keys in order:       *)
(* keys().next() is Oldest, `delete` is Without, `delete` then `set` is      *)
(* AtEnd; `set` on a key that is present leaves its place.                   *)

Without(order, gone) == {p \in order : p[1] \notin gone /\ p[2] \notin gone}

AtEnd(order, present, c) ==
    Without(order, {c}) \cup {<<k, c>> : k \in present \ {c}}

Oldest == {c \in Stored : \A k \in Stored : <<k, c>> \notin older}

Set(timers, c, deadline) == [timers EXCEPT ![c] = deadline]

Cleared(timers, gone) ==
    [c \in Clients |-> IF c \in gone THEN NoTimer ELSE timers[c]]

Removed(gone) ==
    [c \in Clients |-> IF c \in gone THEN Absent ELSE session[c]]

\* Mutant: the grace timer outlives the session.
DestroyLeavingGraceTimer(gone) ==
    /\ session' = Removed(gone)
    /\ older' = Without(older, gone)
    /\ expirationTimer' = Cleared(expirationTimer, gone)
    /\ UNCHANGED <<now, disconnectTimer, up>>

\* destroySession of every client in `gone`: both timers and the entry.
Destroy(gone) ==
    /\ session' = Removed(gone)
    /\ older' = Without(older, gone)
    /\ expirationTimer' = Cleared(expirationTimer, gone)
    /\ disconnectTimer' = Cleared(disconnectTimer, gone)
    /\ UNCHANGED <<now, up>>

-----------------------------------------------------------------------------
Init ==
    /\ now = 0
    /\ session = [c \in Clients |-> Absent]
    /\ older = {}
    /\ expirationTimer = [c \in Clients |-> NoTimer]
    /\ disconnectTimer = [c \in Clients |-> NoTimer]
    /\ up = TRUE

\* createSession of an active session: it only becomes the most recent key.
KeepExisting(c) ==
    /\ c \in Active
    /\ older' = AtEnd(older, Stored, c)
    /\ UNCHANGED <<now, session, expirationTimer, disconnectTimer, up>>

\* Mutant: off by one at capacity.
EvictionsTooLate ==
    IF Cardinality(Stored) > MaxSessions THEN {{k} : k \in Oldest} ELSE {{}}

\* evictLRUSession: the first key goes when the store is full, even when the
\* session to be created only replaces a stored one.
Evictions ==
    IF Cardinality(Stored) >= MaxSessions THEN {{k} : k \in Oldest} ELSE {{}}

\* The rest of createSession: a disconnected session of the same client is
\* overwritten in its place, its grace timer still armed.
CreateOver(c) ==
    \E evicted \in Evictions :
        /\ c \notin Active
        /\ session' = [Removed(evicted) EXCEPT ![c] = Fresh]
        /\ older' = IF c \in Stored \ evicted
                    THEN Without(older, evicted)
                    ELSE AtEnd(Without(older, evicted), Stored \ evicted, c)
        /\ expirationTimer' = Set(Cleared(expirationTimer, evicted), c, now + TTL)
        /\ disconnectTimer' = Cleared(disconnectTimer, evicted)
        /\ UNCHANGED <<now, up>>

CreateSession(c) == KeepExisting(c) \/ CreateOver(c)

DestroySession(c) == c \in Stored /\ Destroy({c})

\* Mutant: the expiration timer stays armed through the grace period.
MarkDisconnectedKeepingTimer(c) ==
    /\ c \in Active
    /\ session' = [session EXCEPT ![c].status = "disconnected",
                                  ![c].disconnectedAt = now]
    /\ disconnectTimer' = Set(disconnectTimer, c, now + Grace)
    /\ UNCHANGED <<now, older, expirationTimer, up>>

MarkDisconnected(c) ==
    /\ c \in Active
    /\ session' = [session EXCEPT ![c].status = "disconnected",
                                  ![c].disconnectedAt = now]
    /\ expirationTimer' = Set(expirationTimer, c, NoTimer)
    /\ disconnectTimer' = Set(disconnectTimer, c, now + Grace)
    /\ UNCHANGED <<now, older, up>>

\* Mutant: the expiration timer is not armed again.
ReconnectWithoutTimer(c) ==
    /\ c \in Disconnected
    /\ session' = [session EXCEPT ![c].status = "active",
                                  ![c].lastActivityAt = now,
                                  ![c].expiresAt = now + TTL,
                                  ![c].disconnectedAt = NoTime]
    /\ disconnectTimer' = Set(disconnectTimer, c, NoTimer)
    /\ UNCHANGED <<now, older, expirationTimer, up>>

ReconnectSession(c) ==
    /\ c \in Disconnected
    /\ session' = [session EXCEPT ![c].status = "active",
                                  ![c].lastActivityAt = now,
                                  ![c].expiresAt = now + TTL,
                                  ![c].disconnectedAt = NoTime]
    /\ expirationTimer' = Set(expirationTimer, c, now + TTL)
    /\ disconnectTimer' = Set(disconnectTimer, c, NoTimer)
    /\ UNCHANGED <<now, older, up>>

\* Mutant: the timer of the previous activity is not replaced.
TouchKeepingTimer(c, buffer) ==
    /\ c \in Active
    /\ session' = [session EXCEPT ![c].lastActivityAt = now,
                                  ![c].expiresAt = now + TTL,
                                  ![c].conversationBuffer = buffer]
    /\ older' = AtEnd(older, Stored, c)
    /\ UNCHANGED <<now, expirationTimer, disconnectTimer, up>>

\* Mutant: the key is not moved to the end of the Map.
TouchInPlace(c, buffer) ==
    /\ c \in Active
    /\ session' = [session EXCEPT ![c].lastActivityAt = now,
                                  ![c].expiresAt = now + TTL,
                                  ![c].conversationBuffer = buffer]
    /\ expirationTimer' = Set(expirationTimer, c, now + TTL)
    /\ UNCHANGED <<now, older, disconnectTimer, up>>

\* touchSession of a session whose history has become `buffer`.
TouchWith(c, buffer) ==
    /\ c \in Active
    /\ session' = [session EXCEPT ![c].lastActivityAt = now,
                                  ![c].expiresAt = now + TTL,
                                  ![c].conversationBuffer = buffer]
    /\ older' = AtEnd(older, Stored, c)
    /\ expirationTimer' = Set(expirationTimer, c, now + TTL)
    /\ UNCHANGED <<now, disconnectTimer, up>>

TouchSession(c) == TouchWith(c, session[c].conversationBuffer)

\* getSession, getConversationHistory and getSessionInfo: a read destroys a
\* session it finds expired, a disconnected one as well.
ReadSession(c) ==
    IF c \in Stored /\ IsExpired(c) THEN Destroy({c}) ELSE UNCHANGED vars

\* Mutant: any stored session takes a message, its client here or not.
AddMessageToAny(c, message) ==
    IF c \in Stored /\ ~IsExpired(c)
    THEN /\ session' = [session EXCEPT ![c].conversationBuffer = Push(@, message)]
         /\ UNCHANGED <<now, older, expirationTimer, disconnectTimer, up>>
    ELSE ReadSession(c)

\* addMessage: the same look-up first; then only an active session takes it.
AddMessage(c, message) ==
    IF HasSession(c)
    THEN TouchWith(c, Push(session[c].conversationBuffer, message))
    ELSE ReadSession(c)

\* forceExpireSession: a second before now, one unit of the model's clock.
ForceExpireSession(c) ==
    /\ c \in Stored
    /\ session' = [session EXCEPT ![c].expiresAt = now - 1]
    /\ UNCHANGED <<now, older, expirationTimer, disconnectTimer, up>>

ClearAllSessions == Destroy(Clients)

-----------------------------------------------------------------------------
(* What the timers of the process do.                                        *)

IsDue(deadline) == deadline # NoTimer /\ now >= deadline

HandleSessionExpiration(c) == IsDue(expirationTimer[c]) /\ DestroySession(c)

HandleDisconnectTimeout(c) == IsDue(disconnectTimer[c]) /\ DestroySession(c)

CleanupExpiredSessions ==
    /\ up
    /\ Destroy({c \in Active : IsExpired(c)})

\* onModuleDestroy: the timers go, the sessions stay.
OnModuleDestroy ==
    /\ up
    /\ up' = FALSE
    /\ expirationTimer' = Cleared(expirationTimer, Clients)
    /\ disconnectTimer' = Cleared(disconnectTimer, Clients)
    /\ UNCHANGED <<now, session, older>>

Tick ==
    /\ now < Horizon
    /\ now' = now + 1
    /\ UNCHANGED <<session, older, expirationTimer, disconnectTimer, up>>

-----------------------------------------------------------------------------
Methods(c) ==
    \/ CreateSession(c) \/ DestroySession(c)
    \/ MarkDisconnected(c) \/ ReconnectSession(c)
    \/ TouchSession(c) \/ ReadSession(c) \/ ForceExpireSession(c)
    \/ \E message \in Messages : AddMessage(c, message)

\* The steps nobody calls: the process's own timers, its end, and time.
TimersFire(c) == HandleSessionExpiration(c) \/ HandleDisconnectTimeout(c)

Background ==
    \/ \E c \in Clients : TimersFire(c)
    \/ CleanupExpiredSessions
    \/ OnModuleDestroy
    \/ Tick

Next ==
    \/ \E c \in Clients : Methods(c)
    \/ ClearAllSessions
    \/ Background

Spec == Init /\ [][Next]_vars

\* Node's event loop runs every due timer callback, and time passes.
Fairness ==
    /\ WF_vars(Tick)
    /\ \A c \in Clients : /\ WF_vars(HandleSessionExpiration(c))
                          /\ WF_vars(HandleDisconnectTimeout(c))

FairSpec == Spec /\ Fairness

-----------------------------------------------------------------------------
(* Properties.                                                               *)

InternalSession ==
    [status : {"absent", "active", "disconnected"},
     lastActivityAt : Int, expiresAt : Int, disconnectedAt : Int,
     conversationBuffer : Rings]

\* Every variable has its type, and every history is a ring that pushes build.
TypeOK ==
    /\ now \in Nat
    /\ session \in [Clients -> InternalSession]
    /\ \A c \in Clients : IsBuffer(session[c].conversationBuffer)
    /\ older \in SUBSET (Clients \X Clients)
    /\ expirationTimer \in [Clients -> Int]
    /\ disconnectTimer \in [Clients -> Int]
    /\ up \in BOOLEAN

\* The two timer maps and the session map never drift apart: a client without a
\* session has no timer left to destroy a later session of his, a disconnected
\* session waits for its grace timer alone, and until the process shuts down
\* every session has the timer that will end it, set from its latest activity.
TimersFollowSessions ==
    \A c \in Clients :
        /\ c \notin Stored => expirationTimer[c] = NoTimer /\ disconnectTimer[c] = NoTimer
        /\ c \in Disconnected => expirationTimer[c] = NoTimer
        /\ up /\ c \in Active => expirationTimer[c] = session[c].lastActivityAt + TTL
        /\ up /\ c \in Disconnected => disconnectTimer[c] = session[c].disconnectedAt + Grace

\* createSession never lets the store outgrow maxSessions, whether the key it
\* creates is new, is stored as disconnected, or is the very one it evicts.
WithinCapacity == Cardinality(Stored) <= MaxSessions

\* The lifecycle of architecture.md: an active session's TTL is its own, no timer
\* is due for it before it expires.  createSession over a disconnected session
\* breaks it (the old grace timer goes on); behind the gateway it holds.
NoTimerCutsShort ==
    \A c \in Active : now < session[c].expiresAt =>
        ~IsDue(expirationTimer[c]) /\ ~IsDue(disconnectTimer[c])

\* The conversation a caller of the service sees.
View(c) == [status |-> session[c].status,
            said |-> ToArray(session[c].conversationBuffer)]

Talk == INSTANCE Conversation WITH conversation <- [c \in Clients |-> View(c)]

\* The store implements the conversations of module Conversation: the ring of
\* slots is the bounded history, a history changes only by a message to an
\* active session, survives the absence of its client, and one call disturbs
\* no other client's conversation except by ending it.
ImplementsConversation == Talk!Spec

\* A session nobody uses is not kept for ever: a disconnected one is gone (or
\* back) after its grace period, an active one gone (or used again) after its
\* TTL, as long as the process runs and the clock reaches the deadline.
IdleSessionsEnd ==
    \A c \in Clients, t \in 0 .. Horizon :
        /\ (up /\ c \in Disconnected /\ session[c].disconnectedAt = t /\ t + Grace <= Horizon)
             ~> (~up \/ c \notin Disconnected \/ session[c].disconnectedAt # t)
        /\ (up /\ c \in Active /\ session[c].lastActivityAt = t /\ t + TTL <= Horizon)
             ~> (~up \/ c \notin Active \/ session[c].lastActivityAt # t)
=============================================================================
