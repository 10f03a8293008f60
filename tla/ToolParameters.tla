--------------------------- MODULE ToolParameters ---------------------------
(* The checks of a call's parameters in ToolExecutorService.  A value is     *)
(* what the checks can tell of it, its JavaScript kind.                      *)

\* An array and null are objects to typeof; only the array is told apart.
ActualType(value) == IF value = "null" THEN "object" ELSE value

NoEnum == {}

\* validateType.  The comment there lets null through for any type; the checks
\* of the enum and of an array come first and do not.
ValidateType(value, schema) ==
    /\ schema.enum # NoEnum => value \in schema.enum
    /\ schema.type = "array" => value = "array"
    /\ schema.type # "array" => ActualType(value) = schema.type \/ value = "null"

\* validateParameters: what is required is there, and all that is there is known
\* and has its type.
ValidateParameters(parameters, schema) ==
    /\ schema.required \subseteq DOMAIN parameters
    /\ DOMAIN parameters \subseteq DOMAIN schema.properties
    /\ \A name \in DOMAIN parameters : ValidateType(parameters[name], schema.properties[name])
=============================================================================
