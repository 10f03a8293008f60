---------------------------- MODULE MCToolCalls ----------------------------
(* One name under which one of two tools is registered, for TLC.             *)
EXTENDS ToolCalls

MCDefinitions ==
    { [category |-> "data", required |-> {"a"},
       properties |-> [p \in {"a", "b"} |-> [type |-> IF p = "a" THEN "array" ELSE "string", enum |-> NoEnum]]],
      [category |-> "custom", required |-> {},
       properties |-> [p \in {"b"} |-> [type |-> "string", enum |-> {"string"}]]] }

MCParameters ==
    {Text, Number, Null} \cup [{} -> {"null"}] \cup [{"b"} -> {"string", "null"}]
      \cup [{"a"} -> {"array", "string"}] \cup [{"a", "b"} -> {"array", "null"}]

MCTooLarge == [{"a", "b"} -> {"array"}]
=============================================================================
