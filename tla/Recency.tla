------------------------------ MODULE Recency -------------------------------
(* The gateway with a history of who came back: evictLRUSession promises the *)
(* least recently used session (session.service.ts:91-92) and takes the      *)
(* first key of the Map, but reconnectSession makes a session's activity new *)
(* without moving its key.  `returned` is what the promise has to except; it *)
(* is read by the property alone and constrains no step.                     *)
EXTENDS Gateway

VARIABLE returned       \* back from a disconnection, their keys not last since

recencyVars == <<gatewayVars, returned>>

RecencyInit == GatewayInit /\ returned = {}

Returns == Disconnected \cap Active'

\* The last key of the Map: that of a client who has just been created or has
\* just spoken, or the only one.
Newest == {c \in Stored : \A k \in Stored : <<c, k>> \notin older}

Remembers == returned' = ((returned \cup Returns) \ Newest') \cap Stored'

RecencyNext == GatewayNext /\ Remembers

RecencySpec == RecencyInit /\ [][RecencyNext]_recencyVars

-----------------------------------------------------------------------------
\* What remains of evictLRUSession's comment, over any run of messages, reads,
\* timers and reconnections: an eviction takes no session that was used later
\* than another, unless its client came back and his key has not moved since.
EvictsLeastRecentUnlessReturned ==
    [][\A c \in Stored \ returned :
         c \notin Stored' /\ (\E k \in Clients : Evicts(k, c))
           => \A other \in Stored :
                session[c].lastActivityAt <= session[other].lastActivityAt]_recencyVars
=============================================================================
