--------------------------- MODULE BoundedHistory ---------------------------
(* What a conversation history promises: the messages in the order they were *)
(* said, the oldest forgotten first, and never more than MaxHistory of them. *)
EXTENDS Naturals, Sequences

CONSTANT MaxHistory     \* config.maxHistoryLength, at least 1

Remember(history, message) ==
    IF Len(history) < MaxHistory
    THEN Append(history, message)
    ELSE Append(Tail(history), message)
=============================================================================
