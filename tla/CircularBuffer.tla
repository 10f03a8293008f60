--------------------------- MODULE CircularBuffer ---------------------------
(* The ring of slots behind a session's conversation history,                *)
(* src/src/session/utils/circular-buffer.ts.  Its capacity is the configured *)
(* maxHistoryLength, its items are the messages; slots are numbered from 0   *)
(* as in the code, `head` is the next one to be written and `size` how many  *)
(* are in use.                                                               *)
EXTENDS Integers, BoundedHistory

CONSTANTS
    Messages,       \* what the ring holds
    Undefined       \* the content of a slot that was never written

\* The constructor throws when its capacity is below 1.
ASSUME MaxHistoryAssumption == MaxHistory \in Nat \ {0}
ASSUME UndefinedAssumption == Undefined \notin Messages

Slots == 0 .. MaxHistory - 1

Empty == [slots |-> [i \in Slots |-> Undefined], head |-> 0, size |-> 0]

\* Mutant: the write position runs past the last slot.
PushWithoutWrap(buffer, item) ==
    [slots |-> [buffer.slots EXCEPT ![buffer.head] = item],
     head  |-> buffer.head + 1,
     size  |-> IF buffer.size < MaxHistory THEN buffer.size + 1 ELSE buffer.size]

Push(buffer, item) ==
    [slots |-> [buffer.slots EXCEPT ![buffer.head] = item],
     head  |-> (buffer.head + 1) % MaxHistory,
     size  |-> IF buffer.size < MaxHistory THEN buffer.size + 1 ELSE buffer.size]

IsFull(buffer) == buffer.size = MaxHistory

\* Oldest to newest: from slot 0 until the ring fills, from `head` afterwards.
ToArray(buffer) ==
    LET first == IF IsFull(buffer) THEN buffer.head ELSE 0
    IN  [i \in 1 .. buffer.size |-> buffer.slots[(first + i - 1) % MaxHistory]]

PeekFirst(buffer) ==
    IF buffer.size = 0 THEN Undefined
    ELSE buffer.slots[IF IsFull(buffer) THEN buffer.head ELSE 0]

PeekLast(buffer) ==
    IF buffer.size = 0 THEN Undefined
    ELSE buffer.slots[(buffer.head - 1 + MaxHistory) % MaxHistory]

Rings == [slots : [Slots -> Messages \cup {Undefined}],
          head : Slots, size : 0 .. MaxHistory]

\* The rings that pushes can build: until it fills, the ring is written from
\* slot 0 upwards and everything from `head` on is unwritten.
IsBuffer(buffer) ==
    /\ buffer \in Rings
    /\ ~IsFull(buffer) => buffer.head = buffer.size
    /\ \A i \in Slots : buffer.slots[i] = Undefined <=> i >= buffer.size
=============================================================================
