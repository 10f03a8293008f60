----------------------------- MODULE RateLimit ------------------------------
(* RateLimitService and RateLimitGuard (src/src/rate-limit/): one sliding    *)
(* window per client, consumed by the guard in front of user_message,        *)
(* removed when it is empty by a periodic sweep.  Every method runs to       *)
(* completion; rate limiting is enabled (when it is not, the guard lets      *)
(* everything pass and keeps no state).                                      *)
EXTENDS SlidingWindow, FiniteSets

CONSTANTS
    Clients,
    Horizon,        \* bound of the model: the clock stops here
    MaxPerInstant   \* bound of the model: requests recorded for a client at one time

ASSUME BoundsAssumption == Horizon \in Nat /\ MaxPerInstant \in Nat

Times == 0 .. Horizon

VARIABLES
    now,        \* the clock
    tracked,    \* the keys of the Map `windows`
    window,     \* each client's window, NewWindow for a client without one
    up,         \* FALSE once onModuleDestroy has stopped the sweep
    recorded,   \* history: how many requests were recorded at each time,
    granted     \* history: and how many consume allowed, since the last reset

vars == <<now, tracked, window, up, recorded, granted>>

Nothing == [t \in Times |-> 0]

Init ==
    /\ now = 0
    /\ tracked = {}
    /\ window = [c \in Clients |-> NewWindow]
    /\ up = TRUE
    /\ recorded = [c \in Clients |-> Nothing]
    /\ granted = [c \in Clients |-> Nothing]

-----------------------------------------------------------------------------
Allowed(c) == Swept(window[c], now).count < MaxRequests

\* checkLimit: the window is created on demand and swept on the way.
CheckLimit(c) ==
    /\ tracked' = tracked \cup {c}
    /\ window' = [window EXCEPT ![c] = Swept(@, now)]
    /\ UNCHANGED <<now, up, recorded, granted>>

\* The record itself, then the getCount of its log line, which sweeps again.
Recorded(w) == Swept(Record(w, now), now)

\* recordRequest: nothing stops a caller that did not check first.
RecordRequest(c) ==
    /\ recorded[c][now] < MaxPerInstant
    /\ tracked' = tracked \cup {c}
    /\ window' = [window EXCEPT ![c] = Recorded(@)]
    /\ recorded' = [recorded EXCEPT ![c][now] = @ + 1]
    /\ UNCHANGED <<now, up, granted>>

\* consume, as the guard calls it.
Consume(c) ==
    IF Allowed(c)
    THEN /\ recorded[c][now] < MaxPerInstant
         /\ tracked' = tracked \cup {c}
         /\ window' = [window EXCEPT ![c] = Recorded(Swept(@, now))]
         /\ recorded' = [recorded EXCEPT ![c][now] = @ + 1]
         /\ granted' = [granted EXCEPT ![c][now] = @ + 1]
         /\ UNCHANGED <<now, up>>
    ELSE CheckLimit(c)

\* getRequestCount sweeps a window that exists and creates none.
GetRequestCount(c) ==
    /\ c \in tracked
    /\ window' = [window EXCEPT ![c] = Swept(@, now)]
    /\ UNCHANGED <<now, tracked, up, recorded, granted>>

Forget(gone) ==
    /\ tracked' = tracked \ gone
    /\ window' = [c \in Clients |-> IF c \in gone THEN NewWindow ELSE window[c]]
    /\ recorded' = [c \in Clients |-> IF c \in gone THEN Nothing ELSE recorded[c]]
    /\ granted' = [c \in Clients |-> IF c \in gone THEN Nothing ELSE granted[c]]
    /\ UNCHANGED now

ResetClient(c) == Forget({c}) /\ UNCHANGED up

ClearAll == Forget(Clients) /\ UNCHANGED up

OnModuleDestroy == up /\ Forget(Clients) /\ up' = FALSE

-----------------------------------------------------------------------------
Empty(c) == Swept(window[c], now).count = 0

\* Mutant: the sweep removes a window that has room.
CleanupUnlessFull ==
    /\ up
    /\ tracked' = {c \in tracked : ~Allowed(c)}
    /\ window' = [c \in Clients |-> IF c \in tracked' THEN Swept(window[c], now) ELSE NewWindow]
    /\ UNCHANGED <<now, up, recorded, granted>>

\* Mutant: a window is empty only once somebody else has swept it.
CleanupUnswept ==
    /\ up
    /\ tracked' = {c \in tracked : window[c].count # 0}
    /\ window' = [c \in Clients |-> IF c \in tracked' THEN window[c] ELSE NewWindow]
    /\ UNCHANGED <<now, up, recorded, granted>>

\* cleanupOldEntries looks at every window, which sweeps it, and removes the
\* empty ones.
CleanupOldEntries ==
    /\ up
    /\ tracked' = {c \in tracked : ~Empty(c)}
    /\ window' = [c \in Clients |-> IF c \in tracked' THEN Swept(window[c], now) ELSE NewWindow]
    /\ UNCHANGED <<now, up, recorded, granted>>

Tick ==
    /\ now < Horizon
    /\ now' = now + 1
    /\ UNCHANGED <<tracked, window, up, recorded, granted>>

Next ==
    \/ \E c \in Clients : \/ Consume(c) \/ CheckLimit(c) \/ RecordRequest(c)
                          \/ GetRequestCount(c) \/ ResetClient(c)
    \/ ClearAll \/ OnModuleDestroy \/ CleanupOldEntries \/ Tick

\* setInterval runs the sweep again and again, and time passes.
Spec == Init /\ [][Next]_vars /\ WF_vars(Tick) /\ WF_vars(CleanupOldEntries)

-----------------------------------------------------------------------------
(* Properties.                                                               *)

\* Every variable has its type, and a client without a window has no stale one.
TypeOK ==
    /\ now \in Times
    /\ tracked \in SUBSET Clients
    /\ window \in [Clients -> Windows]
    /\ \A c \in Clients \ tracked : window[c] = NewWindow
    /\ up \in BOOLEAN
    /\ recorded \in [Clients -> [Times -> 0 .. MaxPerInstant]]
    /\ granted \in [Clients -> [Times -> 0 .. MaxPerInstant]]

SumBetween(log, from, to) ==
    LET sum[t \in from - 1 .. to] == IF t = from - 1 THEN 0 ELSE sum[t - 1] + log[t]
    IN  sum[to]

\* Requests of the window that ends at `time`: the boundary itself is outside.
InWindow(log, time) ==
    SumBetween(log, IF time >= WindowMs THEN time - WindowMs + 1 ELSE 0, time)

\* The promise of the limiter: wherever a window is laid over the past, at most
\* maxRequests were allowed in it, whatever checks, sweeps and removals of the
\* client's window happened in between.
AtMostMaxRequestsInAnyWindow ==
    \A c \in Clients : \A t \in 0 .. now : InWindow(granted[c], t) <= MaxRequests

\* And it refuses for no other reason: what the lazily swept ring counts is what
\* was recorded in the window that ends now, up to its capacity.
CountIsExact ==
    \A c \in Clients :
        LET requests == InWindow(recorded[c], now)
        IN  Swept(window[c], now).count = IF requests <= Capacity THEN requests ELSE Capacity

\* resetAt keeps its promise: a client that is refused because the limit is used
\* up, and that sends nothing more, is allowed at resetAt and not a tick before.
ResetAtIsExact ==
    \A c \in Clients :
        LET w == Swept(window[c], now)
            resetAt == OldestOr(w, now) + WindowMs
        IN  w.count = MaxRequests =>
              /\ Swept(w, resetAt).count < MaxRequests
              /\ Swept(w, resetAt - 1).count = MaxRequests

\* The Map does not grow for ever: a client that falls silent loses its window
\* once its requests have left it, while the service runs.
IdleWindowsAreRemoved ==
    \A c \in Clients :
        (up /\ c \in tracked /\ InWindow(recorded[c], Horizon) = 0)
          ~> (~up \/ c \notin tracked \/ InWindow(recorded[c], Horizon) > 0)
=============================================================================
