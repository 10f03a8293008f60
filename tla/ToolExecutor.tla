---------------------------- MODULE ToolExecutor ----------------------------
(* ToolExecutorService (src/src/tools/services/tool-executor.service.ts):    *)
(* calls of tools, a bounded number at a time per session, each awaited      *)
(* until its handler settles or a timeout gives it up.  `execute` runs       *)
(* without a break up to its await, and again from there to its response.    *)
EXTENDS Naturals, FiniteSets

CONSTANTS
    Sessions,
    Calls,          \* calls of execute, each made once
    ClientIds,      \* call ids that clients choose; two calls may share one
    MaxConcurrent   \* config.maxConcurrentExecutions

ASSUME ExecutorAssumption == MaxConcurrent \in Nat \ {0} /\ Calls \cap ClientIds = {}

\* uuidv4 names a call that comes without an id: its own name here.
CallIds == Calls \cup ClientIds

VARIABLES
    call,       \* each call: where it stands, and how it was answered
    tracked     \* tracker.activeExecutions: per session, a Set of call ids

vars == <<call, tracked>>

Refusals == {"RATE_LIMITED", "INVALID_PARAMETERS", "NOT_FOUND"}
Outcomes == Refusals \cup {"SUCCESS", "EXECUTION_FAILED", "TIMEOUT"}

New == [phase |-> "new"]

\* Mutant: the two fields swapped.
AwaitedSwapped(s, id) == [phase |-> "awaited", session |-> id, id |-> s]

Awaited(s, id) == [phase |-> "awaited", session |-> s, id |-> id]
Answered(s, outcome) == [phase |-> "answered", session |-> s, outcome |-> outcome]

Init ==
    /\ call = [k \in Calls |-> New]
    /\ tracked = [s \in Sessions |-> {}]

AwaitedCalls(s) == {k \in Calls : call[k].phase = "awaited" /\ call[k].session = s}

-----------------------------------------------------------------------------
\* Mutant: refused one call too late.
OneTooMany(s) == Cardinality(tracked[s]) > MaxConcurrent

\* Mutant: refused one call too early.
OneTooFew(s) == Cardinality(tracked[s]) + 1 >= MaxConcurrent

\* checkConcurrencyLimit counts ids, not calls.
AtLimit(s) == Cardinality(tracked[s]) >= MaxConcurrent

Answer(k, outcome) == call' = [call EXCEPT ![k] = Answered(@.session, outcome)]

\* trackExecution adds to a Set: an id that is there already is not counted again.
Tracking(s, id) == [tracked EXCEPT ![s] = @ \cup {id}]

Untracking(s, id) == [tracked EXCEPT ![s] = @ \ {id}]

\* Mutant: a call refused for its parameters or its tool keeps its slot.
RejectTracked(s, k, id) ==
    /\ call[k] = New
    /\ ~AtLimit(s)
    /\ \E outcome \in {"INVALID_PARAMETERS", "NOT_FOUND", "EXECUTION_FAILED"} :
         call' = [call EXCEPT ![k] = Answered(s, outcome)]
    /\ tracked' = Tracking(s, id)

\* execute refused by the concurrency check, before it is tracked.
RateLimit(s, k) ==
    /\ call[k] = New
    /\ AtLimit(s)
    /\ call' = [call EXCEPT ![k] = Answered(s, "RATE_LIMITED")]
    /\ UNCHANGED tracked

\* execute that finds the parameters too large, the tool unknown or a parameter
\* invalid, or whose validation throws (parameters that are no object): it was
\* tracked by then and untracks its id, another call's or not.
Reject(s, k, id) ==
    /\ call[k] = New
    /\ ~AtLimit(s)
    /\ \E outcome \in {"INVALID_PARAMETERS", "NOT_FOUND", "EXECUTION_FAILED"} :
         call' = [call EXCEPT ![k] = Answered(s, outcome)]
    /\ tracked' = Untracking(s, id)

\* execute up to the await of executeWithTimeout: the handler is started.
Start(s, k, id) ==
    /\ call[k] = New
    /\ ~AtLimit(s)
    /\ call' = [call EXCEPT ![k] = Awaited(s, id)]
    /\ tracked' = Tracking(s, id)

\* Mutant: no response once the id is no longer tracked.
SettleIfTracked(k, outcome) ==
    /\ call[k].phase = "awaited"
    /\ call[k].id \in tracked[call[k].session]
    /\ Answer(k, outcome)
    /\ tracked' = Untracking(call[k].session, call[k].id)

\* The rest of execute, once the awaited promise has settled.
Settle(k, outcome) ==
    /\ call[k].phase = "awaited"
    /\ Answer(k, outcome)
    /\ tracked' = Untracking(call[k].session, call[k].id)

HandlerReturns(k) == Settle(k, "SUCCESS")

HandlerThrows(k) == Settle(k, "EXECUTION_FAILED")

\* The timer of executeWithTimeout rejects; the handler is not stopped, and what
\* it returns later settles nothing.
TimeoutFires(k) == Settle(k, "TIMEOUT")

\* The id is the client's, or a fresh one.
Execute(k) ==
    \E s \in Sessions :
        \/ RateLimit(s, k)
        \/ \E id \in ClientIds \cup {k} : Reject(s, k, id) \/ Start(s, k, id)

Next == \E k \in Calls : Execute(k) \/ HandlerReturns(k) \/ HandlerThrows(k) \/ TimeoutFires(k)

\* A handler may never settle; the timer of a call always fires.
Spec == Init /\ [][Next]_vars /\ \A k \in Calls : WF_vars(TimeoutFires(k))

-----------------------------------------------------------------------------
(* Properties.                                                               *)

\* Both variables have their types.
TypeOK ==
    /\ call \in [Calls -> {New} \cup [phase : {"awaited"}, session : Sessions, id : CallIds]
                          \cup [phase : {"answered"}, session : Sessions, outcome : Outcomes]]
    /\ tracked \in [Sessions -> SUBSET CallIds]

\* A slot is never lost: whatever way calls end, each tracked id is that of a
\* call still awaited in its session, so no session stays refused for ever.
EverySlotHasItsCall ==
    \A s \in Sessions : \A id \in tracked[s] : \E k \in AwaitedCalls(s) : call[k].id = id

\* Calls that got a fresh id are all counted and keep to the limit, whatever
\* ids clients choose for other calls of the session.
FreshCallsWithinLimit ==
    \A s \in Sessions :
        LET fresh == {k \in AwaitedCalls(s) : call[k].id = k}
        IN  fresh \subseteq tracked[s] /\ Cardinality(fresh) <= MaxConcurrent

\* Nobody is refused for concurrency while fewer than the maximum are awaited.
RefusedOnlyWhenBusy ==
    [][\A k \in Calls : \A s \in Sessions :
         call[k] = New /\ call'[k] = Answered(s, "RATE_LIMITED")
           => Cardinality(AwaitedCalls(s)) >= MaxConcurrent]_vars

\* A call that was started is answered, even if its handler never settles: its
\* timeout sees to that.
StartedCallsAreAnswered ==
    \A k \in Calls : call[k].phase = "awaited" ~> call[k].phase = "answered"

\* What tool.constants.ts says of the limit: it bounds the executions of a session.
AwaitedWithinLimit == \A s \in Sessions : Cardinality(AwaitedCalls(s)) <= MaxConcurrent
=============================================================================
