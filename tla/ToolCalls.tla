----------------------------- MODULE ToolCalls -----------------------------
(* ToolExecutorService over the registry: which tool a call finds and        *)
(* whether its parameters pass decides how execute answers it; tools are     *)
(* registered, overridden and removed while calls of them are awaited.       *)
EXTENDS ToolExecutor, ToolRegistry, ToolParameters

CONSTANTS
    Parameters,     \* what clients send in place of the parameters
    Text,           \* a string, which is no object but has characters for its keys
    Number,         \* a number or a boolean, no object and without keys
    Null,           \* null, which has no keys that could be asked for
    TooLarge        \* those above config.maxParameterSize

ASSUME ParametersAssumption == TooLarge \subseteq Parameters

callVars == <<vars, registryVars>>

CallsInit == Init /\ RegistryInit

-----------------------------------------------------------------------------
ValidateParameterSize(parameters) == parameters \notin TooLarge

\* validateParameters of what is no object: the operator `in`, for a required
\* parameter, throws, and so does Object.keys for null.
Throws(parameters, schema) ==
    parameters = Null \/ (parameters \in {Text, Number} /\ schema.required # {})

Passes(parameters, schema) ==
    \/ parameters = Number
    \/ parameters \notin {Text, Number} /\ ValidateParameters(parameters, schema)

\* The checks of execute after its tracking: the first that fails answers.
Refusal(name, parameters) ==
    IF ~ValidateParameterSize(parameters) THEN "INVALID_PARAMETERS"
    ELSE IF tools[name] = NotFound THEN "NOT_FOUND"
    ELSE IF Throws(parameters, tools[name]) THEN "EXECUTION_FAILED"
    ELSE IF ~Passes(parameters, tools[name]) THEN "INVALID_PARAMETERS"
    ELSE "none"

\* execute up to its await, for a tool and its parameters.
ExecuteTool(s, k, id, name, parameters) ==
    \/ /\ Refusal(name, parameters) # "none" /\ Reject(s, k, id)
       /\ call'[k].outcome = Refusal(name, parameters)
    \/ Refusal(name, parameters) = "none" /\ Start(s, k, id)

CallSteps ==
    \E k \in Calls :
        \/ \E s \in Sessions :
             \/ RateLimit(s, k)
             \/ \E id \in ClientIds \cup {k} : \E name \in Names : \E parameters \in Parameters :
                  ExecuteTool(s, k, id, name, parameters)
        \/ HandlerReturns(k) \/ HandlerThrows(k)

TimesOut(k) == TimeoutFires(k) /\ UNCHANGED registryVars

CallsNext ==
    \/ CallSteps /\ UNCHANGED registryVars
    \/ \E k \in Calls : TimesOut(k)
    \/ RegistrySteps /\ UNCHANGED vars

\* A handler may never settle; the timer of a call always fires.
CallsSpec == CallsInit /\ [][CallsNext]_callVars /\ \A k \in Calls : WF_callVars(TimesOut(k))
=============================================================================
