------------------------------ MODULE Gateway -------------------------------
(* AssistantGateway (src/src/gateway/assistant.gateway.ts) over the session  *)
(* store: sockets that connect and go, messages whose handlers await the AI  *)
(* provider while everything else goes on, and reads.  The store is Session, *)
(* of which the gateway calls only the methods that appear here; its timers, *)
(* its sweep, its end and the clock run beside the handlers.                 *)
(*                                                                           *)
(* A handler is split where it awaits.  The rate limiter in front of         *)
(* user_message and the checks of the payload are a refusal that may or may  *)
(* not happen: neither touches the store.                                    *)
EXTENDS Session

CONSTANT Requests       \* the messages that clients send, each sent once

Roles == {"user", "assistant"}

ASSUME MessagesAreUtterances == Messages = [role : Roles, request : Requests]

VARIABLES
    online,             \* clients with an open socket
    request             \* each request's client, and what has become of it

gatewayVars == <<vars, online, request>>

Question(r) == [role |-> "user", request |-> r]
Answer(r) == [role |-> "assistant", request |-> r]

Unsent == [phase |-> "unsent"]
Refused == [phase |-> "refused"]
Sent(phase, c) == [phase |-> phase, client |-> c]

\* Its handler awaits the provider's completion, or the next batch of a stream.
Pending(r) == request[r].phase \in {"completion", "stream"}

GatewayInit ==
    /\ Init
    /\ online = {}
    /\ request = [r \in Requests |-> Unsent]

-----------------------------------------------------------------------------
(* Sockets.                                                                  *)

\* Mutant: the disconnected session is not looked for.
ConnectionAlwaysCreates(c) ==
    /\ c \notin online
    /\ online' = online \cup {c}
    /\ CreateSession(c)
    /\ UNCHANGED request

HandleConnection(c) ==
    /\ c \notin online
    /\ online' = online \cup {c}
    /\ IF c \in Disconnected THEN ReconnectSession(c) ELSE CreateSession(c)
    /\ UNCHANGED request

\* markDisconnected does nothing for a client whose session is gone.
HandleDisconnect(c) ==
    /\ c \in online
    /\ online' = online \ {c}
    /\ IF c \in Active THEN MarkDisconnected(c) ELSE UNCHANGED vars
    /\ UNCHANGED request

-----------------------------------------------------------------------------
(* Messages.                                                                 *)

\* Up to the await: the question is stored, the provider is asked.
Ask(c, r, phase) ==
    /\ c \in online
    /\ request[r] = Unsent
    /\ HasSession(c)
    /\ AddMessage(c, Question(r))
    /\ request' = [request EXCEPT ![r] = Sent(phase, c)]
    /\ UNCHANGED online

HandleUserMessage(c, r) == Ask(c, r, "completion")

HandleUserMessageStream(c, r) == Ask(c, r, "stream")

\* No session, a bad payload, or the rate limit: an error is sent.
Refuse(c, r) ==
    /\ c \in online
    /\ request[r] = Unsent
    /\ request' = [request EXCEPT ![r] = Refused]
    /\ UNCHANGED <<vars, online>>

Finish(r, phase) ==
    /\ request' = [request EXCEPT ![r].phase = phase]
    /\ UNCHANGED online

\* Mutant: the request stays pending, and its answer may come again.
CompletionArrivesAgain(r) ==
    /\ request[r].phase = "completion"
    /\ AddMessage(request[r].client, Answer(r))
    /\ UNCHANGED <<online, request>>

\* Mutant: the client is read after the await from what all handlers share.
CompletionArrivesForAnyone(r) ==
    /\ request[r].phase = "completion"
    /\ \E q \in Requests : Pending(q) /\ AddMessage(request[q].client, Answer(r))
    /\ Finish(r, "answered")

\* After the await: the answer goes to whatever session the client has now.
CompletionArrives(r) ==
    /\ request[r].phase = "completion"
    /\ AddMessage(request[r].client, Answer(r))
    /\ Finish(r, "answered")

\* The last batch of the stream: an empty answer is not stored.
StreamEnds(r) ==
    /\ request[r].phase = "stream"
    /\ AddMessage(request[r].client, Answer(r)) \/ UNCHANGED vars
    /\ Finish(r, "answered")

\* The provider fails: an error event.
CompletionFails(r) ==
    /\ request[r].phase = "completion"
    /\ UNCHANGED vars
    /\ Finish(r, "failed")

\* The stream breaks: what was sent of the answer is not stored.
StreamBreaks(r) ==
    /\ request[r].phase = "stream"
    /\ UNCHANGED vars
    /\ Finish(r, "failed")

\* handleGetHistory and handleGetSessionInfo.
HandleGetHistory(c) ==
    /\ c \in online
    /\ ReadSession(c)
    /\ UNCHANGED <<online, request>>

-----------------------------------------------------------------------------
Handlers ==
    \/ \E c \in Clients :
         \/ HandleConnection(c) \/ HandleDisconnect(c) \/ HandleGetHistory(c)
         \/ \E r \in Requests : \/ HandleUserMessage(c, r)
                                \/ HandleUserMessageStream(c, r)
                                \/ Refuse(c, r)
    \/ \E r \in Requests : \/ CompletionArrives(r) \/ CompletionFails(r)
                           \/ StreamEnds(r) \/ StreamBreaks(r)

GatewayNext ==
    \/ Handlers
    \/ Background /\ UNCHANGED <<online, request>>

GatewaySpec == GatewayInit /\ [][GatewayNext]_gatewayVars

-----------------------------------------------------------------------------
(* Properties.                                                               *)

Phases == {"completion", "stream", "answered", "failed"}

\* The gateway's own variables have their types.
GatewayTypeOK ==
    /\ online \in SUBSET Clients
    /\ request \in [Requests -> {Unsent, Refused} \cup [phase : Phases, client : Clients]]

\* Sockets and sessions agree: an active session has a client behind it and no
\* grace timer that could cut it short, and a client that is here and has a
\* session has an active one, so that none of his messages is refused for it.
PresenceMatchesStatus ==
    \A c \in Clients :
        /\ c \in Active => c \in online /\ disconnectTimer[c] = NoTimer
        /\ c \in online /\ c \in Stored => c \in Active

Evicts(k, c) == k # c /\ Cardinality(Stored) >= MaxSessions /\ HandleConnection(k)

\* A session in use is never lost before its time: until expiresAt is reached,
\* no timer armed for an earlier life of the session, no sweep and no late
\* answer ends it, only the eviction that makes room for another client.
ActiveUntilExpiry ==
    [][\A c \in Active :
         now < session[c].expiresAt /\ c \notin Stored'
           => \E k \in Clients : Evicts(k, c)]_gatewayVars

\* A client that went away finds his session again for the whole grace period,
\* with two exceptions: an eviction, and an answer that arrives for him after
\* the session's expiresAt, whose addMessage destroys it instead.
GraceIsKept ==
    [][\A c \in Disconnected :
         now < session[c].disconnectedAt + Grace /\ c \notin Stored'
           => \/ \E k \in Clients : Evicts(k, c)
              \/ /\ IsExpired(c)
                 /\ \E r \in Requests :
                      Pending(r) /\ request[r].client = c /\ ~Pending(r)']_gatewayVars

Said(c) == ToArray(session[c].conversationBuffer)

\* However requests of one client overlap, disconnect and end, his history holds
\* no message twice and no answer before its question.
AnswersFollowQuestions ==
    \A c \in Clients : LET said == Said(c) IN
        \A i, j \in DOMAIN said : i < j =>
            /\ said[i] # said[j]
            /\ ~(said[i].role = "assistant" /\ said[j] = Question(said[i].request))

\* However long a provider takes, and whoever comes, goes or asks meanwhile, a
\* client's history holds only what he sent himself and was not refused, and of
\* the answers only those to his own messages, given whole: an answer whose
\* completion failed or whose stream broke leaves nothing, and none comes late
\* into the history of another client.
HistoriesAreOwn ==
    \A c \in Clients : LET said == Said(c) IN
        \A i \in DOMAIN said : \E phase \in Phases :
            /\ request[said[i].request] = Sent(phase, c)
            /\ said[i].role = "assistant" => phase = "answered"

\* evictLRUSession's comment: the session evicted is the least recently used.
EvictsLeastRecentlyUsed ==
    [][\A c \in Stored :
         c \notin Stored' /\ (\E k \in Clients : Evicts(k, c))
           => \A other \in Stored :
                session[c].lastActivityAt <= session[other].lastActivityAt]_gatewayVars
=============================================================================
