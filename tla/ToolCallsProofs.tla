-------------------------- MODULE ToolCallsProofs --------------------------
(* Calls of registered tools: every one is an execution of ToolExecutor,     *)
(* whose safety properties therefore hold of them, and the registry's index  *)
(* by category is exact.  CategoriesIndexTools is not inductive alone: it    *)
(* takes the types of the registry's two maps.                               *)
EXTENDS ToolCalls, FiniteSetTheorems, TLAPS

(* The slots of ToolExecutorService, for any number of sessions and calls.   *)
(* The inductive invariant IInv adds three facts to the properties: a        *)
(* session's tracked ids are finitely many and at most the maximum, its      *)
(* awaited calls are finitely many, and the id of a call that is awaited is  *)
(* a client's or its own, never another call's.                              *)

Slots(s) ==
    /\ IsFiniteSet(tracked[s]) /\ Cardinality(tracked[s]) <= MaxConcurrent
    /\ IsFiniteSet(AwaitedCalls(s))
    /\ \A id \in tracked[s] : \E k \in AwaitedCalls(s) : call[k].id = id
    /\ \A k \in AwaitedCalls(s) : call[k].id \in ClientIds \cup {k}
    /\ \A k \in AwaitedCalls(s) : call[k].id = k => k \in tracked[s]

IInv == TypeOK /\ \A s \in Sessions : Slots(s)

LEMMA InitInv == Init => IInv
  <1> SUFFICES ASSUME Init PROVE IInv
    OBVIOUS
  <1>1. TypeOK
    BY DEF Init, TypeOK
  <1>2. ASSUME NEW s \in Sessions PROVE Slots(s)
    <2>1. AwaitedCalls(s) = {} /\ tracked[s] = {}
      BY DEF Init, AwaitedCalls, New
    <2> QED  BY <2>1, FS_EmptySet, ExecutorAssumption DEF Slots
  <1> QED  BY <1>1, <1>2 DEF IInv

\* The id of a call is its own or a client's, so no two calls share a fresh one.
LEMMA IdsType ==
    ASSUME NEW k \in Calls, NEW id \in ClientIds \cup {k}
    PROVE  id \in CallIds /\ \A other \in Calls : id = other => k = other
  BY ExecutorAssumption DEF CallIds

LEMMA AwaitedCallType ==
    ASSUME TypeOK, NEW k \in Calls, call[k].phase = "awaited"
    PROVE  /\ call[k].session \in Sessions /\ call[k].id \in CallIds
  BY DEF TypeOK, New

\* A call that is refused was never awaited.
LEMMA RefusalKeepsAwaited ==
    ASSUME NEW s \in Sessions, NEW k \in Calls, NEW outcome \in Outcomes, TypeOK,
           call[k] = New, call' = [call EXCEPT ![k] = Answered(s, outcome)]
    PROVE  /\ call' \in [Calls -> {New} \cup [phase : {"awaited"}, session : Sessions, id : CallIds]
                                  \cup [phase : {"answered"}, session : Sessions, outcome : Outcomes]]
           /\ \A t \in Sessions : AwaitedCalls(t)' = AwaitedCalls(t)
           /\ \A t \in Sessions : \A i \in AwaitedCalls(t) : call'[i] = call[i]
  BY DEF TypeOK, New, Answered, AwaitedCalls

LEMMA RateLimitKeepsInv ==
    ASSUME IInv, NEW s \in Sessions, NEW k \in Calls, RateLimit(s, k)
    PROVE  IInv'
  <1>1. call' = [call EXCEPT ![k] = Answered(s, "RATE_LIMITED")] /\ call[k] = New /\ UNCHANGED tracked
    BY DEF RateLimit
  <1>2. "RATE_LIMITED" \in Outcomes
    BY DEF Outcomes, Refusals
  <1>3. TypeOK'
    BY <1>1, <1>2, RefusalKeepsAwaited DEF IInv, TypeOK
  <1>4. ASSUME NEW t \in Sessions PROVE Slots(t)'
    <2>1. AwaitedCalls(t)' = AwaitedCalls(t) /\ \A i \in AwaitedCalls(t) : call'[i] = call[i]
      BY <1>1, <1>2, RefusalKeepsAwaited DEF IInv
    <2> QED  BY <1>1, <2>1 DEF IInv, Slots
  <1> QED  BY <1>3, <1>4 DEF IInv

\* Untracking an id leaves each other id its call, and each fresh call its id:
\* only the call itself could have had the id it came with, were it fresh.
LEMMA RejectKeepsInv ==
    ASSUME IInv, NEW s \in Sessions, NEW k \in Calls, NEW id \in ClientIds \cup {k},
           Reject(s, k, id)
    PROVE  IInv'
  <1>1. PICK outcome \in {"INVALID_PARAMETERS", "NOT_FOUND", "EXECUTION_FAILED"} :
          call' = [call EXCEPT ![k] = Answered(s, outcome)]
    BY DEF Reject
  <1>2. call[k] = New /\ tracked' = [tracked EXCEPT ![s] = @ \ {id}] /\ outcome \in Outcomes /\ TypeOK
    BY DEF Reject, Untracking, Outcomes, Refusals, IInv
  <1>3. TypeOK'
    BY <1>1, <1>2, RefusalKeepsAwaited DEF TypeOK
  <1>4. ASSUME NEW t \in Sessions PROVE Slots(t)'
    <2>1. AwaitedCalls(t)' = AwaitedCalls(t) /\ \A i \in AwaitedCalls(t) : call'[i] = call[i]
      BY <1>1, <1>2, RefusalKeepsAwaited
    <2>2. tracked'[t] \in SUBSET tracked[t] /\ tracked[t] \ {id} \subseteq tracked'[t]
      BY <1>2 DEF TypeOK
    <2>3. /\ IsFiniteSet(tracked'[t]) /\ Cardinality(tracked'[t]) <= Cardinality(tracked[t])
          /\ Cardinality(tracked'[t]) \in Nat /\ Cardinality(tracked[t]) \in Nat
      BY <2>2, FS_Subset, FS_CardinalityType DEF IInv, Slots
    <2>4. \A i \in AwaitedCalls(t) : call[i].id = i => i # id
      BY <1>2, IdsType DEF AwaitedCalls, New
    <2>5. Cardinality(tracked'[t]) <= MaxConcurrent
      BY <2>3, ExecutorAssumption DEF IInv, Slots
    <2> QED  BY <2>1, <2>2, <2>3, <2>4, <2>5 DEF IInv, Slots
  <1> QED  BY <1>3, <1>4 DEF IInv

LEMMA StartKeepsInv ==
    ASSUME IInv, NEW s \in Sessions, NEW k \in Calls, NEW id \in ClientIds \cup {k},
           Start(s, k, id)
    PROVE  IInv'
  <1>1. /\ call[k] = New /\ call' = [call EXCEPT ![k] = Awaited(s, id)]
        /\ tracked' = [tracked EXCEPT ![s] = @ \cup {id}] /\ TypeOK
    BY DEF Start, Tracking, IInv
  <1>2. id \in CallIds
    BY IdsType
  <1>3. TypeOK'
    BY <1>1, <1>2 DEF TypeOK, Awaited
  <1>4. ASSUME NEW t \in Sessions PROVE Slots(t)'
    <2>1. CASE t = s
      <3>1. AwaitedCalls(s)' = AwaitedCalls(s) \cup {k} /\ k \notin AwaitedCalls(s)
        BY <1>1 DEF AwaitedCalls, Awaited, New, TypeOK
      <3>2. tracked'[s] = tracked[s] \cup {id}
        BY <1>1 DEF TypeOK
      <3>3. \A i \in AwaitedCalls(s) : call'[i] = call[i]
        BY <1>1, <3>1 DEF TypeOK, AwaitedCalls
      <3>4. call'[k].id = id /\ id \in ClientIds \cup {k}
        BY <1>1 DEF TypeOK, Awaited
      <3>5. IsFiniteSet(tracked'[s]) /\ Cardinality(tracked'[s]) <= MaxConcurrent
        <4>1. IsFiniteSet(tracked[s]) /\ Cardinality(tracked[s]) \in Nat
          BY FS_CardinalityType DEF IInv, Slots
        <4>2. Cardinality(tracked[s]) < MaxConcurrent
          BY <4>1, ExecutorAssumption DEF Start, AtLimit
        <4>3. /\ IsFiniteSet(tracked[s] \cup {id})
              /\ Cardinality(tracked[s] \cup {id}) <= Cardinality(tracked[s]) + 1
          <5>1. /\ IsFiniteSet(tracked[s] \cup {id})
                /\ Cardinality(tracked[s] \cup {id}) =
                     IF id \in tracked[s] THEN Cardinality(tracked[s]) ELSE Cardinality(tracked[s]) + 1
            BY <4>1, FS_AddElement, Zenon
          <5> QED  BY <4>1, <5>1
        <4> QED  BY <3>2, <4>1, <4>2, <4>3, FS_CardinalityType, ExecutorAssumption
      <3>6. IsFiniteSet(AwaitedCalls(s)')
        BY <3>1, FS_AddElement DEF IInv, Slots
      <3> QED  BY <2>1, <3>1, <3>2, <3>3, <3>4, <3>5, <3>6 DEF IInv, Slots
    <2>2. CASE t # s
      <3>1. AwaitedCalls(t)' = AwaitedCalls(t) /\ tracked'[t] = tracked[t]
        BY <1>1, <2>2 DEF AwaitedCalls, Awaited, New, TypeOK
      <3>2. \A i \in AwaitedCalls(t) : call'[i] = call[i]
        BY <1>1 DEF TypeOK, AwaitedCalls, New
      <3> QED  BY <3>1, <3>2 DEF IInv, Slots
    <2> QED  BY <2>1, <2>2
  <1> QED  BY <1>3, <1>4 DEF IInv

\* The call that settles may share its id with others; they lose it together.
LEMMA SettleKeepsInv ==
    ASSUME IInv, NEW k \in Calls, NEW outcome \in Outcomes, Settle(k, outcome)
    PROVE  IInv'
  <1> DEFINE s == call[k].session
             id == call[k].id
  <1>1. s \in Sessions /\ id \in CallIds /\ call[k].phase = "awaited" /\ TypeOK
    BY AwaitedCallType DEF Settle, IInv
  <1>2. /\ call' = [call EXCEPT ![k] = Answered(s, outcome)]
        /\ tracked' = [tracked EXCEPT ![s] = @ \ {id}]
    BY <1>1 DEF Settle, Answer, Untracking, TypeOK
  <1>3. TypeOK'
    BY <1>1, <1>2 DEF TypeOK, Answered
  <1>4. ASSUME NEW t \in Sessions PROVE Slots(t)'
    <2>1. AwaitedCalls(t)' = AwaitedCalls(t) \ {k}
      BY <1>1, <1>2 DEF AwaitedCalls, Answered, TypeOK
    <2>2. \A i \in AwaitedCalls(t) \ {k} : call'[i] = call[i]
      BY <1>1, <1>2 DEF TypeOK, AwaitedCalls
    <2>3. tracked'[t] = IF t = s THEN tracked[t] \ {id} ELSE tracked[t]
      BY <1>1, <1>2 DEF TypeOK
    <2>4. k \in AwaitedCalls(t) => t = s
      BY DEF AwaitedCalls
    <2>5. /\ IsFiniteSet(tracked'[t]) /\ Cardinality(tracked'[t]) <= Cardinality(tracked[t])
          /\ Cardinality(tracked'[t]) \in Nat /\ Cardinality(tracked[t]) \in Nat
      <3>1. tracked'[t] \in SUBSET tracked[t] /\ IsFiniteSet(tracked[t])
        BY <2>3 DEF IInv, Slots
      <3> QED  BY <3>1, FS_Subset, FS_CardinalityType
    <2>6. Cardinality(tracked'[t]) <= MaxConcurrent
      BY <2>5, ExecutorAssumption DEF IInv, Slots
    <2>7. IsFiniteSet(AwaitedCalls(t)')
      BY <2>1, FS_RemoveElement DEF IInv, Slots
    <2>8. ASSUME NEW other \in tracked'[t]
          PROVE  \E i \in AwaitedCalls(t)' : call'[i].id = other
      <3>1. PICK i \in AwaitedCalls(t) : call[i].id = other
        BY <2>3 DEF IInv, Slots
      <3>2. i # k
        BY <2>3, <2>4, <3>1
      <3> QED  BY <2>1, <2>2, <3>1, <3>2
    <2>9. \A i \in AwaitedCalls(t)' : call'[i].id \in ClientIds \cup {i}
      BY <2>1, <2>2 DEF IInv, Slots
    <2>10. ASSUME NEW i \in AwaitedCalls(t)', call'[i].id = i
          PROVE  i \in tracked'[t]
      <3>1. i \in AwaitedCalls(t) /\ i # k /\ call[i].id = i /\ i \in Calls
        BY <2>1, <2>2, <2>10 DEF AwaitedCalls
      <3>2. i \in tracked[t]
        BY <3>1 DEF IInv, Slots
      <3>3. t = s => i # id
        <4>1. t = s => id \in ClientIds \cup {k}
          BY <1>1 DEF IInv, Slots, AwaitedCalls
        <4> QED  BY <3>1, <4>1, ExecutorAssumption
      <3> QED  BY <2>3, <3>2, <3>3
    <2> QED  BY <2>5, <2>6, <2>7, <2>8, <2>9, <2>10 DEF Slots
  <1> QED  BY <1>3, <1>4 DEF IInv

LEMMA NextKeepsInv == IInv /\ [Next]_vars => IInv'
  <1> SUFFICES ASSUME IInv, [Next]_vars PROVE IInv'
    OBVIOUS
  <1>1. ASSUME NEW k \in Calls, Execute(k) PROVE IInv'
    BY <1>1, RateLimitKeepsInv, RejectKeepsInv, StartKeepsInv DEF Execute
  <1>2. ASSUME NEW k \in Calls, HandlerReturns(k) \/ HandlerThrows(k) \/ TimeoutFires(k) PROVE IInv'
    BY <1>2, SettleKeepsInv DEF HandlerReturns, HandlerThrows, TimeoutFires, Outcomes
  <1>3. CASE UNCHANGED vars
    <2>1. ASSUME NEW s \in Sessions PROVE Slots(s)'
      <3>1. call' = call /\ tracked' = tracked /\ AwaitedCalls(s)' = AwaitedCalls(s)
        BY <1>3 DEF vars, AwaitedCalls
      <3> QED  BY <3>1 DEF IInv, Slots
    <2> QED  BY <1>3, <2>1 DEF IInv, TypeOK, vars
  <1> QED  BY <1>1, <1>2, <1>3 DEF Next

THEOREM Invariance == Spec => []IInv
  BY InitInv, NextKeepsInv, PTL DEF Spec

LEMMA InvKeepsSlots == IInv => EverySlotHasItsCall
  BY DEF IInv, Slots, EverySlotHasItsCall

\* However calls end, and whatever ids they came with, every tracked id is that
\* of a call still awaited: no slot of a session is lost.
THEOREM NoSlotIsLost == Spec => []EverySlotHasItsCall
  BY InvKeepsSlots, Invariance, PTL

LEMMA InvKeepsLimit == IInv => FreshCallsWithinLimit
  <1> SUFFICES ASSUME IInv, NEW s \in Sessions
               PROVE  LET fresh == {k \in AwaitedCalls(s) : call[k].id = k}
                      IN  fresh \subseteq tracked[s] /\ Cardinality(fresh) <= MaxConcurrent
    BY DEF FreshCallsWithinLimit
  <1> DEFINE fresh == {k \in AwaitedCalls(s) : call[k].id = k}
  <1>1. fresh \in SUBSET tracked[s] /\ IsFiniteSet(tracked[s])
    BY DEF IInv, Slots
  <1> HIDE DEF fresh
  <1>2. /\ IsFiniteSet(fresh) /\ Cardinality(fresh) <= Cardinality(tracked[s])
        /\ Cardinality(fresh) \in Nat /\ Cardinality(tracked[s]) \in Nat
    BY <1>1, FS_Subset, FS_CardinalityType
  <1>3. Cardinality(fresh) <= MaxConcurrent
    BY <1>2, ExecutorAssumption DEF IInv, Slots
  <1> QED  BY <1>1, <1>3 DEF fresh

\* The calls of a session that got a fresh id keep to the limit.
THEOREM FreshCallsKeepTheLimit == Spec => []FreshCallsWithinLimit
  BY InvKeepsLimit, Invariance, PTL

\* As many calls are awaited as ids are tracked, or more: each id has a call of
\* its own.
LEMMA TrackedHaveCalls ==
    ASSUME IInv, NEW s \in Sessions
    PROVE  /\ Cardinality(tracked[s]) <= Cardinality(AwaitedCalls(s))
           /\ Cardinality(tracked[s]) \in Nat /\ Cardinality(AwaitedCalls(s)) \in Nat
  <1> DEFINE Of == [id \in tracked[s] |-> CHOOSE k \in AwaitedCalls(s) : call[k].id = id]
  <1>1. \A id \in tracked[s] : Of[id] \in AwaitedCalls(s) /\ call[Of[id]].id = id
    BY DEF IInv, Slots
  <1>2. Of \in [tracked[s] -> AwaitedCalls(s)]
    BY <1>1
  <1>3. ~ \E x, y \in tracked[s] : x # y /\ Of[x] = Of[y]
    BY <1>1
  <1> HIDE DEF Of
  <1>4. /\ IsFiniteSet(tracked[s]) /\ IsFiniteSet(AwaitedCalls(s))
        /\ Cardinality(tracked[s]) \in Nat /\ Cardinality(AwaitedCalls(s)) \in Nat
    BY FS_CardinalityType DEF IInv, Slots
  <1>5. ~(Cardinality(AwaitedCalls(s)) < Cardinality(tracked[s]))
    BY <1>2, <1>3, <1>4, FS_PigeonHole
  <1> QED  BY <1>4, <1>5

Due ==
    \A k \in Calls : \A s \in Sessions :
      call[k] = New /\ call'[k] = Answered(s, "RATE_LIMITED")
        => Cardinality(AwaitedCalls(s)) >= MaxConcurrent

LEMMA StepsAreDue == IInv /\ [Next]_vars => [Due]_vars
  <1> SUFFICES ASSUME IInv, Next, NEW k \in Calls, NEW s \in Sessions,
                      call[k] = New, call'[k] = Answered(s, "RATE_LIMITED")
               PROVE  Cardinality(AwaitedCalls(s)) >= MaxConcurrent
    BY DEF Due
  <1>1. TypeOK
    BY DEF IInv
  <1>2. PICK i \in Calls : Execute(i) \/ HandlerReturns(i) \/ HandlerThrows(i) \/ TimeoutFires(i)
    BY DEF Next
  <1>3. i = k
    BY <1>1, <1>2 DEF TypeOK, Execute, RateLimit, Reject, Start, HandlerReturns, HandlerThrows,
                      TimeoutFires, Settle, Answer, New, Answered
  <1>4. Execute(k)
    BY <1>2, <1>3 DEF HandlerReturns, HandlerThrows, TimeoutFires, Settle, New
  <1>5. RateLimit(s, k)
    BY <1>1, <1>4 DEF TypeOK, Execute, RateLimit, Reject, Start, Answered, Awaited
  <1> QED  BY <1>5, TrackedHaveCalls, ExecutorAssumption DEF RateLimit, AtLimit

\* A call is refused for concurrency only while the maximum is really awaited.
THEOREM RefusalsAreDue == Spec => RefusedOnlyWhenBusy
  <1>1. Spec => [][Due]_vars
    BY StepsAreDue, Invariance, PTL DEF Spec
  <1> QED  BY <1>1 DEF RefusedOnlyWhenBusy, Due

-----------------------------------------------------------------------------
(* Calls of registered tools.                                                *)

RInv ==
    /\ tools \in [Names -> Definitions \cup {NotFound}]
    /\ categories \in [Categories -> SUBSET Names]
    /\ CategoriesIndexTools

LEMMA RegistryInitInv == RegistryInit => RInv
  BY DEF RegistryInit, NoTools, NoNames, RInv, CategoriesIndexTools

LEMMA LeftCategoryType ==
    ASSUME RInv, NEW name \in Names
    PROVE  /\ LeftCategory(name) \in [Categories -> SUBSET Names]
           /\ \A c \in Categories :
                LeftCategory(name)[c] = {n \in Names \ {name} : tools[n] # NotFound /\ tools[n].category = c}
  BY DEF RInv, LeftCategory, CategoriesIndexTools

LEMMA RegisterKeepsInv ==
    ASSUME RInv, NEW name \in Names, NEW definition \in Definitions, NEW override \in BOOLEAN,
           RegisterTool(name, definition, override)
    PROVE  RInv'
  <1>1. definition.category \in Categories /\ definition # NotFound
    BY RegistryAssumption, NotFoundAssumption
  <1>2. /\ tools' = [tools EXCEPT ![name] = definition]
        /\ categories' = [LeftCategory(name) EXCEPT ![definition.category] = @ \cup {name}]
    BY DEF RegisterTool
  <1>3. tools' \in [Names -> Definitions \cup {NotFound}] /\ categories' \in [Categories -> SUBSET Names]
    BY <1>1, <1>2, LeftCategoryType DEF RInv
  <1>4. ASSUME NEW c \in Categories
        PROVE  categories'[c] = {n \in Names : tools'[n] # NotFound /\ tools'[n].category = c}
    BY <1>1, <1>2, LeftCategoryType DEF RInv
  <1> QED  BY <1>3, <1>4 DEF RInv, CategoriesIndexTools

LEMMA UnregisterKeepsInv ==
    ASSUME RInv, NEW name \in Names, UnregisterTool(name)
    PROVE  RInv'
  <1>1. tools' = [tools EXCEPT ![name] = NotFound] /\ categories' = LeftCategory(name)
    BY DEF UnregisterTool
  <1>2. ASSUME NEW c \in Categories
        PROVE  categories'[c] = {n \in Names : tools'[n] # NotFound /\ tools'[n].category = c}
    BY <1>1, LeftCategoryType DEF RInv
  <1> QED  BY <1>1, <1>2, LeftCategoryType DEF RInv, CategoriesIndexTools

LEMMA RegistryKeepsInv == RInv /\ [CallsNext]_callVars => RInv'
  <1> SUFFICES ASSUME RInv, [CallsNext]_callVars PROVE RInv'
    OBVIOUS
  <1>1. CASE UNCHANGED registryVars
    BY <1>1 DEF registryVars, RInv, CategoriesIndexTools
  <1>2. CASE RegistrySteps
    <2>1. CASE \E name \in Names : \E definition \in Definitions : \E override \in BOOLEAN :
                 RegisterTool(name, definition, override)
      BY <2>1, RegisterKeepsInv
    <2>2. CASE \E name \in Names : UnregisterTool(name)
      BY <2>2, UnregisterKeepsInv
    <2>3. CASE ClearAllTools
      BY <2>3 DEF ClearAllTools, NoTools, NoNames, RInv, CategoriesIndexTools
    <2> QED  BY <1>2, <2>1, <2>2, <2>3 DEF RegistrySteps
  <1> QED  BY <1>1, <1>2 DEF CallsNext, TimesOut, callVars

\* What getToolsByCategory finds is what is registered, for any names,
\* categories and definitions, while calls of the tools are under way.
THEOREM CategoriesAreExact == CallsSpec => []CategoriesIndexTools
  <1>1. RInv => CategoriesIndexTools
    BY DEF RInv
  <1>2. CallsInit => RegistryInit
    BY DEF CallsInit
  <1> QED  BY <1>1, <1>2, RegistryInitInv, RegistryKeepsInv, PTL DEF CallsSpec

-----------------------------------------------------------------------------
\* A call that finds its tool or not, with whatever parameters, is one of the
\* executions whose verdict ToolExecutor leaves open.
LEMMA CallIsExecution ==
    ASSUME NEW s \in Sessions, NEW k \in Calls, NEW id \in ClientIds \cup {k},
           NEW name \in Names, NEW parameters \in Parameters,
           ExecuteTool(s, k, id, name, parameters)
    PROVE  Execute(k)
  BY DEF ExecuteTool, Execute

LEMMA StepIsExecution == [CallsNext]_callVars => [Next]_vars
  <1> SUFFICES ASSUME [CallsNext]_callVars PROVE [Next]_vars
    OBVIOUS
  <1>1. CASE CallSteps
    <2>1. PICK k \in Calls :
            \/ \E s \in Sessions :
                 \/ RateLimit(s, k)
                 \/ \E id \in ClientIds \cup {k} : \E name \in Names : \E parameters \in Parameters :
                      ExecuteTool(s, k, id, name, parameters)
            \/ HandlerReturns(k) \/ HandlerThrows(k)
      BY <1>1 DEF CallSteps
    <2>2. Execute(k) \/ HandlerReturns(k) \/ HandlerThrows(k)
      <3>1. ASSUME NEW s \in Sessions, RateLimit(s, k) PROVE Execute(k)
        BY <3>1 DEF Execute
      <3> QED  BY <2>1, <3>1, CallIsExecution
    <2> QED  BY <2>2 DEF Next
  <1>2. CASE \E k \in Calls : TimesOut(k)
    BY <1>2 DEF TimesOut, Next
  <1>3. CASE UNCHANGED vars
    BY <1>3
  <1> QED  BY <1>1, <1>2, <1>3 DEF CallsNext, callVars

\* The executor over the registry takes the executor's steps and no others.
THEOREM CallsAreExecutions == CallsSpec => Init /\ [][Next]_vars
  <1>1. CallsInit => Init
    BY DEF CallsInit
  <1> QED  BY <1>1, StepIsExecution, PTL DEF CallsSpec

LEMMA CallsInvariance == CallsSpec => []IInv
  BY CallsAreExecutions, InitInv, NextKeepsInv, PTL

\* TypeOK holds: every call of ToolExecutorService and every tracked id has its type.
THEOREM CallsTypeCorrect == CallsSpec => []TypeOK
  BY CallsInvariance, PTL DEF IInv

\* No slot is lost, whatever tools are registered and removed meanwhile.
THEOREM NoCallLosesItsSlot == CallsSpec => []EverySlotHasItsCall
  BY InvKeepsSlots, CallsInvariance, PTL

\* Calls with a fresh id keep to the limit over the registry as well.
THEOREM CallsKeepTheLimit == CallsSpec => []FreshCallsWithinLimit
  BY InvKeepsLimit, CallsInvariance, PTL

\* A call is refused for concurrency only while the maximum is awaited.
THEOREM CallsAreRefusedWhenDue == CallsSpec => RefusedOnlyWhenBusy
  <1>1. CallsSpec => [][Due]_vars
    BY StepsAreDue, CallsAreExecutions, CallsInvariance, PTL
  <1> QED  BY <1>1 DEF RefusedOnlyWhenBusy, Due
=============================================================================
