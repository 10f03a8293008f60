--------------------------- MODULE SlidingWindow ----------------------------
(* The ring of timestamps that counts a client's recent requests,            *)
(* src/src/rate-limit/sliding-window.ts.  It has one slot more than the      *)
(* limit; `head` is the oldest entry, `tail` the next to be written, and     *)
(* expired entries are dropped from the head when somebody looks.            *)
EXTENDS Integers

CONSTANTS
    MaxRequests,    \* config.maxRequests
    WindowMs        \* config.windowMs

ASSUME LimitAssumption == MaxRequests \in Nat \ {0} /\ WindowMs \in Nat \ {0}

Capacity == MaxRequests + 1
Places == 0 .. MaxRequests

NewWindow == [timestamps |-> [i \in Places |-> 0], head |-> 0, tail |-> 0, count |-> 0]

\* Mutant: the write position runs past the last place.
RecordWithoutWrap(window, time) ==
    [window EXCEPT !.timestamps[window.tail] = time,
                   !.tail = window.tail + 1,
                   !.count = IF @ < Capacity THEN @ + 1 ELSE @,
                   !.head = IF window.count < Capacity THEN @ ELSE (@ + 1) % Capacity]

\* Mutant: a full ring is overwritten without moving its head.
RecordOverHead(window, time) ==
    [window EXCEPT !.timestamps[window.tail] = time,
                   !.tail = (window.tail + 1) % Capacity,
                   !.count = IF @ < Capacity THEN @ + 1 ELSE @]

\* record
Record(window, time) ==
    [window EXCEPT !.timestamps[window.tail] = time,
                   !.tail = (window.tail + 1) % Capacity,
                   !.count = IF @ < Capacity THEN @ + 1 ELSE @,
                   !.head = IF window.count < Capacity THEN @ ELSE (@ + 1) % Capacity]

\* The i-th oldest timestamp, from 0.
Entry(window, i) == window.timestamps[(window.head + i) % Capacity]

\* Mutant: an entry exactly one window old still counts.
ExpiredLate(stamp, time) == stamp < time - WindowMs

Expired(stamp, time) == stamp <= time - WindowMs

\* How many entries the loop of getCount skips: it stops at the first in time.
Skipped(window, time) ==
    CHOOSE k \in 0 .. window.count :
        /\ \A i \in 0 .. k - 1 : Expired(Entry(window, i), time)
        /\ k < window.count => ~Expired(Entry(window, k), time)

\* What getCount, getOldest and isEmpty leave behind.
Swept(window, time) ==
    [window EXCEPT !.head = (@ + Skipped(window, time)) % Capacity,
                   !.count = @ - Skipped(window, time)]

\* getOldest, `time` itself when there is none, as checkLimit reads it.
OldestOr(window, time) == IF window.count = 0 THEN time ELSE Entry(window, 0)

Windows == [timestamps : [Places -> Nat], head : Places, tail : Places, count : 0 .. Capacity]
=============================================================================
