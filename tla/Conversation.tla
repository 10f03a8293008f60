---------------------------- MODULE Conversation ----------------------------
(* What the session store promises the rest of the server about each         *)
(* client's conversation, with no clock, no timers and no store order:       *)
(* a conversation starts empty; it grows one message at a time, and only     *)
(* while its client is here; a client that goes away finds it unchanged on   *)
(* return; and one step serves one client, while any number of others' may   *)
(* end in it (an eviction, a sweep).                                         *)
EXTENDS BoundedHistory

CONSTANTS Clients, Messages

VARIABLE conversation

None == [status |-> "absent", said |-> << >>]

Init == conversation = [c \in Clients |-> None]

Starts(c) ==
    conversation'[c] = [status |-> "active", said |-> << >>]

Says(c, m) ==
    /\ conversation[c].status = "active"
    /\ conversation'[c] =
         [status |-> "active", said |-> Remember(conversation[c].said, m)]

Leaves(c) ==
    /\ conversation[c].status = "active"
    /\ conversation'[c] = [conversation[c] EXCEPT !.status = "disconnected"]

Returns(c) ==
    /\ conversation[c].status = "disconnected"
    /\ conversation'[c] = [conversation[c] EXCEPT !.status = "active"]

Ends(c) == conversation'[c] = None

Keeps(c) == conversation'[c] = conversation[c]

\* One client is served; the others' conversations stay or end.
Serves(c) ==
    /\ \/ Starts(c) \/ Leaves(c) \/ Returns(c) \/ Ends(c)
       \/ \E m \in Messages : Says(c, m)
    /\ \A other \in Clients \ {c} : Keeps(other) \/ Ends(other)

Next ==
    /\ \E c \in Clients : Serves(c)
    /\ DOMAIN conversation' = Clients

Spec == Init /\ [][Next]_conversation
=============================================================================
