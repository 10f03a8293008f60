--------------------------- MODULE SessionProofs ----------------------------
(* The session store's invariants and its conversations, for every set of    *)
(* clients, history length, TTL, grace period and capacity.                  *)
EXTENDS Session, FiniteSetTheorems, TLAPS

(* The ring of slots is the bounded history, for every capacity: no          *)
(* wrap-around loses, repeats or reorders a message.                         *)

\* Sequences of the same length and the same items are the same.
LEMMA SameSequence ==
    ASSUME NEW S, NEW s \in Seq(S), NEW t \in Seq(S),
           Len(s) = Len(t), \A i \in 1 .. Len(s) : s[i] = t[i]
    PROVE  s = t
  OBVIOUS

\* What the code's (index) % capacity computes on the indices it meets.
LEMMA Wrap ==
    ASSUME NEW a \in Nat, a < 2 * MaxHistory
    PROVE  a % MaxHistory = IF a < MaxHistory THEN a ELSE a - MaxHistory
  BY MaxHistoryAssumption

LEMMA WrapIndex ==
    ASSUME NEW first \in Slots, NEW i \in 1 .. MaxHistory
    PROVE  (first + i - 1) % MaxHistory =
             IF first + i - 1 < MaxHistory THEN first + i - 1
             ELSE first + i - 1 - MaxHistory
  <1>1. PICK index \in Nat : index = first + i - 1 /\ index < 2 * MaxHistory
    BY MaxHistoryAssumption DEF Slots
  <1>2. index % MaxHistory = IF index < MaxHistory THEN index ELSE index - MaxHistory
    BY <1>1, Wrap
  <1>3. first \in Int /\ i \in Int /\ MaxHistory \in Int
    BY MaxHistoryAssumption DEF Slots
  <1> QED  BY <1>1, <1>2, <1>3

\* Where the write position goes next.
LEMMA WrapNext ==
    ASSUME NEW head \in Slots
    PROVE  (head + 1) % MaxHistory = IF head + 1 < MaxHistory THEN head + 1 ELSE 0
  <1>1. head \in Nat /\ head < MaxHistory /\ MaxHistory \in Nat
    BY MaxHistoryAssumption DEF Slots
  <1>2. PICK index \in Nat : index = head + 1 /\ index < 2 * MaxHistory
    BY <1>1
  <1>3. index % MaxHistory = IF index < MaxHistory THEN index ELSE index - MaxHistory
    BY <1>2, Wrap
  <1> QED  BY <1>1, <1>2, <1>3

LEMMA EmptyIsBuffer == IsBuffer(Empty) /\ ToArray(Empty) = << >>
  <1>1. IsBuffer(Empty)
    BY MaxHistoryAssumption, UndefinedAssumption DEF IsBuffer, Rings, Empty, IsFull, Slots
  <1>2. ToArray(Empty) = << >>
    BY MaxHistoryAssumption DEF ToArray, Empty, IsFull
  <1> QED  BY <1>1, <1>2

\* A push keeps the ring one that pushes can build.
LEMMA PushIsBuffer ==
    ASSUME NEW buffer, IsBuffer(buffer), NEW item \in Messages
    PROVE  IsBuffer(Push(buffer, item))
  <1> DEFINE next == Push(buffer, item)
  <1> USE MaxHistoryAssumption, UndefinedAssumption
  <1>1. /\ buffer.head \in Slots /\ buffer.size \in 0 .. MaxHistory
        /\ buffer.slots \in [Slots -> Messages \cup {Undefined}]
    BY DEF IsBuffer, Rings
  <1>2. (buffer.head + 1) % MaxHistory =
           IF buffer.head + 1 < MaxHistory THEN buffer.head + 1 ELSE 0
    BY ONLY <1>1, WrapNext
  <1>3. next \in Rings
    BY <1>1, <1>2 DEF Push, Rings, Slots
  <1>4. ~IsFull(next) => next.head = next.size
    BY <1>1, <1>2 DEF IsBuffer, Push, IsFull, Slots
  <1>5. \A i \in Slots : next.slots[i] = Undefined <=> i >= next.size
    BY <1>1 DEF IsBuffer, Push, IsFull, Slots
  <1> QED  BY <1>3, <1>4, <1>5 DEF IsBuffer

\* The history read from a ring has its size, and holds messages only.
LEMMA ToArrayType ==
    ASSUME NEW buffer, IsBuffer(buffer)
    PROVE  /\ ToArray(buffer) \in Seq(Messages)
           /\ Len(ToArray(buffer)) = buffer.size
  <1> USE MaxHistoryAssumption, UndefinedAssumption
  <1> DEFINE first == IF IsFull(buffer) THEN buffer.head ELSE 0
             at(i) == (first + i - 1) % MaxHistory
  <1>1. /\ buffer.head \in Slots /\ buffer.size \in 0 .. MaxHistory
        /\ buffer.slots \in [Slots -> Messages \cup {Undefined}]
    BY DEF IsBuffer, Rings
  <1>2. first \in Slots /\ (~IsFull(buffer) => first = 0)
    BY <1>1 DEF Slots
  <1> HIDE DEF first
  <1>3. ASSUME NEW i \in 1 .. buffer.size
        PROVE  at(i) \in Slots /\ at(i) < buffer.size
    <2>1. at(i) = IF first + i - 1 < MaxHistory THEN first + i - 1
                  ELSE first + i - 1 - MaxHistory
      BY <1>1, <1>2, WrapIndex
    <2> QED  BY <1>1, <1>2, <2>1 DEF Slots, IsFull
  <1>4. \A i \in 1 .. buffer.size : buffer.slots[at(i)] \in Messages
    BY <1>1, <1>3 DEF IsBuffer, Slots
  <1>5. ToArray(buffer) = [i \in 1 .. buffer.size |-> buffer.slots[at(i)]]
    BY DEF ToArray, first
  <1> HIDE DEF at
  <1> QED  BY <1>1, <1>4, <1>5

\* Pushing on the ring is remembering in the history.
THEOREM PushRemembers ==
    ASSUME NEW buffer, IsBuffer(buffer), NEW item \in Messages
    PROVE  ToArray(Push(buffer, item)) = Remember(ToArray(buffer), item)
  <1> USE MaxHistoryAssumption
  <1> DEFINE next == Push(buffer, item)
             old == ToArray(buffer)
             new == ToArray(next)
             at(first, i) == IF first + i - 1 < MaxHistory THEN first + i - 1
                             ELSE first + i - 1 - MaxHistory
  <1>1. /\ buffer.head \in Slots /\ buffer.size \in 0 .. MaxHistory
        /\ buffer.slots \in [Slots -> Messages \cup {Undefined}]
        /\ ~IsFull(buffer) => buffer.head = buffer.size
    BY DEF IsBuffer, Rings
  <1>2. IsBuffer(next)
    BY PushIsBuffer
  <1>3. (buffer.head + 1) % MaxHistory =
           IF buffer.head + 1 < MaxHistory THEN buffer.head + 1 ELSE 0
    BY ONLY <1>1, WrapNext
  <1>4. /\ next.head = IF buffer.head + 1 < MaxHistory THEN buffer.head + 1 ELSE 0
        /\ next.size = IF buffer.size < MaxHistory THEN buffer.size + 1 ELSE buffer.size
        /\ next.slots = [buffer.slots EXCEPT ![buffer.head] = item]
    BY <1>3 DEF Push
  <1>5. /\ old \in Seq(Messages) /\ Len(old) = buffer.size
        /\ new \in Seq(Messages) /\ Len(new) = next.size
    BY <1>2, ToArrayType
  <1>6. ASSUME NEW b, IsBuffer(b), NEW i \in 1 .. b.size
        PROVE  ToArray(b)[i] = b.slots[at(IF IsFull(b) THEN b.head ELSE 0, i)]
    <2> DEFINE first == IF IsFull(b) THEN b.head ELSE 0
    <2>1. first \in Slots /\ i \in 1 .. MaxHistory
      BY <1>6 DEF IsBuffer, Rings, Slots
    <2>2. ToArray(b)[i] = b.slots[(first + i - 1) % MaxHistory]
      BY DEF ToArray
    <2> HIDE DEF first
    <2>3. (first + i - 1) % MaxHistory = at(first, i)
      BY <2>1, WrapIndex
    <2> QED  BY <2>2, <2>3 DEF first
  <1> HIDE DEF next, old, new
  <1>7. CASE buffer.size < MaxHistory
    <2>1. Remember(old, item) = Append(old, item)
      BY <1>5, <1>7 DEF Remember
    <2>2. \A i \in 1 .. next.size : new[i] = IF i <= buffer.size THEN old[i] ELSE item
      <3> TAKE i \in 1 .. next.size
      <3>1. new[i] = next.slots[i - 1]
        <4>1. new[i] = next.slots[at(IF IsFull(next) THEN next.head ELSE 0, i)]
          BY <1>2, <1>6 DEF new
        <4>2. next.head = 0 \/ ~IsFull(next)
          BY <1>1, <1>4, <1>7 DEF IsFull, Slots
        <4> QED  BY <1>1, <1>4, <1>7, <4>1, <4>2
      <3>2. i <= buffer.size => old[i] = buffer.slots[i - 1]
        <4> SUFFICES ASSUME i <= buffer.size PROVE old[i] = buffer.slots[i - 1]
          OBVIOUS
        <4>1. old[i] = buffer.slots[at(0, i)]
          BY <1>1, <1>6, <1>7 DEF old, IsFull
        <4> QED  BY <1>1, <1>7, <4>1
      <3> QED  BY <1>1, <1>4, <1>7, <3>1, <3>2 DEF IsFull, Slots
    <2>3. new = Append(old, item)
      <3>1. /\ Append(old, item) \in Seq(Messages)
            /\ Len(Append(old, item)) = buffer.size + 1
            /\ \A i \in 1 .. buffer.size + 1 :
                   Append(old, item)[i] = IF i <= buffer.size THEN old[i] ELSE item
        BY <1>5
      <3>2. next.size = buffer.size + 1
        BY <1>4, <1>7
      <3>3. \A i \in 1 .. Len(new) : new[i] = Append(old, item)[i]
        BY <1>5, <2>2, <3>1, <3>2
      <3> HIDE DEF at
      <3> QED  BY ONLY <1>5, <3>1, <3>2, <3>3, SameSequence
    <2> QED  BY <2>1, <2>3 DEF next, old, new
  <1>8. CASE buffer.size = MaxHistory
    <2>1. Remember(old, item) = Append(Tail(old), item)
      BY <1>5, <1>8 DEF Remember
    <2>2. ASSUME NEW i \in 1 .. next.size
          PROVE  new[i] = IF i < buffer.size THEN old[i + 1] ELSE item
      <3>1. next.size = MaxHistory /\ next.head \in Slots
        BY <1>1, <1>4, <1>8 DEF Slots
      <3>2. new[i] = next.slots[at(next.head, i)]
        BY <1>2, <1>6, <3>1 DEF new, IsFull
      <3>3. CASE i < buffer.size
        <4>1. old[i + 1] = buffer.slots[at(buffer.head, i + 1)]
          BY <1>1, <1>6, <1>8, <3>1, <3>3 DEF old, IsFull
        <4>2. at(next.head, i) = at(buffer.head, i + 1)
          BY <1>1, <1>4, <1>8, <3>1, <3>3 DEF Slots
        <4>3. at(buffer.head, i + 1) \in Slots \ {buffer.head}
          BY <1>1, <1>8, <3>1, <3>3 DEF Slots
        <4> QED  BY <1>1, <1>4, <3>2, <3>3, <4>1, <4>2, <4>3
      <3>4. CASE i = buffer.size
        <4>1. at(next.head, i) = buffer.head
          BY <1>1, <1>4, <1>8, <3>1, <3>4 DEF Slots
        <4> QED  BY <1>1, <1>4, <3>2, <3>4, <4>1
      <3> QED  BY <1>1, <1>8, <3>1, <3>3, <3>4
    <2>3. new = Append(Tail(old), item)
      <3>1. Tail(old) \in Seq(Messages) /\ Len(Tail(old)) = buffer.size - 1
            /\ \A i \in 1 .. buffer.size - 1 : Tail(old)[i] = old[i + 1]
        BY <1>1, <1>5, <1>8
      <3>2. next.size = buffer.size /\ buffer.size \in Nat \ {0}
        BY <1>1, <1>4, <1>8 DEF MaxHistoryAssumption
      <3>3. /\ Append(Tail(old), item) \in Seq(Messages)
            /\ Len(Append(Tail(old), item)) = buffer.size
            /\ \A i \in 1 .. buffer.size :
                   Append(Tail(old), item)[i] = IF i < buffer.size THEN old[i + 1] ELSE item
        BY <3>1, <3>2
      <3>4. \A i \in 1 .. Len(new) : new[i] = Append(Tail(old), item)[i]
        BY <1>5, <2>2, <3>2, <3>3
      <3> QED  BY ONLY <1>5, <3>2, <3>3, <3>4, SameSequence
    <2> QED  BY <2>1, <2>3 DEF next, old, new
  <1> QED  BY <1>1, <1>7, <1>8

\* peekFirst and peekLast are the two ends of what toArray returns.
THEOREM PeekIsEndOfArray ==
    ASSUME NEW buffer, IsBuffer(buffer), buffer.size > 0
    PROVE  /\ PeekFirst(buffer) = ToArray(buffer)[1]
           /\ PeekLast(buffer) = ToArray(buffer)[Len(ToArray(buffer))]
  <1> USE MaxHistoryAssumption
  <1>1. /\ buffer.head \in Slots /\ buffer.size \in 0 .. MaxHistory
        /\ ~IsFull(buffer) => buffer.head = buffer.size
        /\ Len(ToArray(buffer)) = buffer.size
    BY ToArrayType DEF IsBuffer, Rings
  <1> DEFINE first == IF IsFull(buffer) THEN buffer.head ELSE 0
             last == buffer.head - 1 + MaxHistory
  <1>2. first \in Slots /\ 1 \in 1 .. MaxHistory /\ buffer.size \in 1 .. MaxHistory
    BY <1>1 DEF Slots
  <1>3. \A i \in 1 .. buffer.size :
            ToArray(buffer)[i] = buffer.slots[(first + i - 1) % MaxHistory]
    BY DEF ToArray
  <1>4. PeekFirst(buffer) = buffer.slots[first]
    BY <1>1 DEF PeekFirst
  <1>5. PeekLast(buffer) = buffer.slots[last % MaxHistory]
    BY <1>1 DEF PeekLast
  <1>6. last \in Nat /\ last < 2 * MaxHistory
    BY <1>1 DEF Slots
  <1>7. first + buffer.size - 1 = last \/ (last >= MaxHistory /\ first + buffer.size - 1 = last - MaxHistory)
    BY <1>1 DEF IsFull, Slots
  <1> HIDE DEF first, last
  <1>8. (first + 1 - 1) % MaxHistory = first
    BY <1>2, WrapIndex DEF Slots
  <1>9. (first + buffer.size - 1) % MaxHistory = last % MaxHistory
    <2>1. last % MaxHistory = IF last < MaxHistory THEN last ELSE last - MaxHistory
      BY <1>6, Wrap
    <2>2. (first + buffer.size - 1) % MaxHistory =
             IF first + buffer.size - 1 < MaxHistory THEN first + buffer.size - 1
             ELSE first + buffer.size - 1 - MaxHistory
      BY <1>2, WrapIndex
    <2> QED  BY <1>2, <1>6, <1>7, <2>1, <2>2 DEF Slots
  <1> QED  BY <1>1, <1>2, <1>3, <1>4, <1>5, <1>8, <1>9

-----------------------------------------------------------------------------
(* The store.                                                                *)

\* WithinCapacity speaks of a cardinality, so the stored keys must be finite.
CapacityInv == IsFiniteSet(Stored) /\ WithinCapacity

\* What a Map gives: one order on exactly the keys that are stored.
OrderIsTotal ==
    /\ \A p \in older : p[1] \in Stored /\ p[2] \in Stored /\ p[1] # p[2]
    /\ \A a, b \in Stored : a # b => (<<a, b>> \in older <=> <<b, a>> \notin older)
    /\ \A a, b, c \in Stored : <<a, b>> \in older /\ <<b, c>> \in older => <<a, c>> \in older

IInv == TypeOK /\ TimersFollowSessions /\ OrderIsTotal /\ CapacityInv

LEMMA AbsentType == Absent \in InternalSession
  BY EmptyIsBuffer DEF Absent, InternalSession, NoTime, IsBuffer

LEMMA FreshType == now \in Nat => Fresh \in InternalSession
  BY EmptyIsBuffer, ConfigAssumption DEF Fresh, InternalSession, NoTime, IsBuffer

\* Replacing one session by another of its type.
LEMMA UpdateType ==
    ASSUME TypeOK, NEW c \in Clients, NEW new \in InternalSession,
           IsBuffer(new.conversationBuffer), session' = [session EXCEPT ![c] = new]
    PROVE  /\ session' \in [Clients -> InternalSession]
           /\ \A k \in Clients : IsBuffer(session'[k].conversationBuffer)
  BY DEF TypeOK

LEMMA InitInv == Init => IInv
  <1> SUFFICES ASSUME Init PROVE IInv
    OBVIOUS
  <1>1. Stored = {} /\ Active = {} /\ Disconnected = {}
    BY DEF Init, Stored, Active, Disconnected, Absent
  <1>2. TypeOK
    BY EmptyIsBuffer, AbsentType DEF Init, TypeOK, Absent, NoTimer
  <1>3. TimersFollowSessions
    BY <1>1 DEF Init, TimersFollowSessions
  <1>4. OrderIsTotal
    BY <1>1 DEF Init, OrderIsTotal
  <1>5. CapacityInv
    BY <1>1, FS_EmptySet, ConfigAssumption DEF CapacityInv, WithinCapacity
  <1> QED  BY <1>2, <1>3, <1>4, <1>5 DEF IInv

-----------------------------------------------------------------------------
(* Destroying any set of sessions: destroySession, lazy expiry, both timers, *)
(* the sweep and clearAllSessions are all this step.                         *)

LEMMA DestroyKeepsInv ==
    ASSUME IInv, NEW gone \in SUBSET Clients, Destroy(gone)
    PROVE  IInv'
  <1> USE DEF IInv
  <1>1. /\ Stored' = Stored \ gone
        /\ Active' = Active \ gone
        /\ Disconnected' = Disconnected \ gone
    BY DEF Destroy, Removed, Absent, Stored, Active, Disconnected
  <1>2. TypeOK'
    BY EmptyIsBuffer, AbsentType
       DEF TypeOK, Destroy, Removed, Without, Cleared, Absent, NoTimer
  <1>3. TimersFollowSessions'
    BY <1>1 DEF TimersFollowSessions, Destroy, Removed, Cleared, Stored, Active, Disconnected
  <1>4. OrderIsTotal'
    BY <1>1 DEF OrderIsTotal, Destroy, Without
  <1>5. CapacityInv'
    BY <1>1, FS_Subset, FS_CardinalityType, ConfigAssumption DEF CapacityInv, WithinCapacity
  <1> QED  BY <1>2, <1>3, <1>4, <1>5

-----------------------------------------------------------------------------
(* createSession.                                                            *)

LEMMA KeepExistingKeepsInv ==
    ASSUME IInv, NEW c \in Clients, KeepExisting(c)
    PROVE  IInv'
  <1> USE DEF IInv
  <1>1. c \in Stored /\ Stored' = Stored /\ Active' = Active /\ Disconnected' = Disconnected
    BY DEF KeepExisting, Stored, Active, Disconnected
  <1>2. TypeOK'
    BY DEF TypeOK, KeepExisting, AtEnd, Without, Stored
  <1>3. TimersFollowSessions'
    BY <1>1 DEF TimersFollowSessions, KeepExisting
  <1>4. OrderIsTotal'
    BY <1>1 DEF OrderIsTotal, KeepExisting, AtEnd, Without
  <1>5. CapacityInv'
    BY <1>1 DEF CapacityInv, WithinCapacity
  <1> QED  BY <1>2, <1>3, <1>4, <1>5

LEMMA CreateOverKeepsInv ==
    ASSUME IInv, NEW c \in Clients, CreateOver(c)
    PROVE  IInv'
  <1> USE DEF IInv
  <1>1. PICK evicted \in Evictions :
          /\ c \notin Active
          /\ session' = [Removed(evicted) EXCEPT ![c] = Fresh]
          /\ older' = IF c \in Stored \ evicted
                      THEN Without(older, evicted)
                      ELSE AtEnd(Without(older, evicted), Stored \ evicted, c)
          /\ expirationTimer' = Set(Cleared(expirationTimer, evicted), c, now + TTL)
          /\ disconnectTimer' = Cleared(disconnectTimer, evicted)
          /\ UNCHANGED <<now, up>>
    BY DEF CreateOver
  <1>2. evicted \subseteq Stored
    BY DEF Evictions, Oldest
  <1>3. Fresh \in InternalSession /\ Fresh.status = "active" /\ Fresh.lastActivityAt = now
    BY FreshType DEF TypeOK, Fresh
  <1>4. session' = [k \in Clients |-> IF k = c THEN Fresh
                                      ELSE IF k \in evicted THEN Absent ELSE session[k]]
    BY <1>1 DEF Removed
  <1>5. /\ Stored' = (Stored \ evicted) \cup {c}
        /\ Active' = (Active \ evicted) \cup {c}
        /\ Disconnected' = (Disconnected \ evicted) \ {c}
    BY <1>3, <1>4 DEF Stored, Active, Disconnected, Absent
  <1>6. TypeOK'
    <2>1. session' \in [Clients -> InternalSession]
      BY <1>3, <1>4, AbsentType DEF TypeOK
    <2>2. \A k \in Clients : IsBuffer(session'[k].conversationBuffer)
      BY <1>4, EmptyIsBuffer DEF TypeOK, Absent, Fresh
    <2>3. older' \in SUBSET (Clients \X Clients)
      BY <1>1 DEF TypeOK, AtEnd, Without, Stored
    <2>4. expirationTimer' \in [Clients -> Int] /\ disconnectTimer' \in [Clients -> Int]
      BY <1>1, ConfigAssumption DEF TypeOK, Set, Cleared, NoTimer
    <2> QED  BY <1>1, <2>1, <2>2, <2>3, <2>4 DEF TypeOK
  <1>7. TimersFollowSessions'
    <2> SUFFICES ASSUME NEW k \in Clients
                 PROVE  /\ k \notin Stored' => /\ expirationTimer'[k] = NoTimer
                                               /\ disconnectTimer'[k] = NoTimer
                        /\ k \in Disconnected' => expirationTimer'[k] = NoTimer
                        /\ up' /\ k \in Active' =>
                             expirationTimer'[k] = session'[k].lastActivityAt + TTL
                        /\ up' /\ k \in Disconnected' =>
                             disconnectTimer'[k] = session'[k].disconnectedAt + Grace
      BY DEF TimersFollowSessions
    <2>1. CASE k = c
      BY <1>1, <1>3, <1>4, <1>5, <2>1 DEF TypeOK, Set, Cleared, Disconnected
    <2>2. CASE k # c
      BY <1>1, <1>4, <1>5, <2>2
         DEF TimersFollowSessions, TypeOK, Set, Cleared, Stored, Active, Disconnected
    <2> QED  BY <2>1, <2>2
  <1>8. OrderIsTotal'
    <2>1. CASE c \in Stored \ evicted
      BY <1>1, <1>5, <2>1 DEF OrderIsTotal, Without
    <2>2. CASE c \notin Stored \ evicted
      BY <1>1, <1>5, <2>2 DEF OrderIsTotal, Without, AtEnd
    <2> QED  BY <2>1, <2>2
  <1>9. CapacityInv'
    <2> DEFINE kept == Stored \ evicted
    <2>1. IsFiniteSet(kept) /\ Cardinality(kept) \in Nat /\ Cardinality(kept) + 1 <= MaxSessions
      <3>1. CASE Cardinality(Stored) >= MaxSessions
        <4>1. PICK victim \in Stored : evicted = {victim}
          BY <3>1 DEF Evictions, Oldest
        <4>2. IsFiniteSet(kept) /\ Cardinality(kept) = Cardinality(Stored) - 1
          BY <4>1, FS_RemoveElement DEF CapacityInv
        <4> QED  BY <4>2, FS_CardinalityType, ConfigAssumption DEF CapacityInv, WithinCapacity
      <3>2. CASE ~(Cardinality(Stored) >= MaxSessions)
        <4>1. kept = Stored
          BY <3>2 DEF Evictions
        <4>2. IsFiniteSet(Stored) /\ Cardinality(Stored) \in Nat
          BY FS_CardinalityType DEF CapacityInv
        <4> QED  BY <3>2, <4>1, <4>2, ConfigAssumption
      <3> QED  BY <3>1, <3>2
    <2>2. IsFiniteSet(Stored') /\ Cardinality(Stored') <= Cardinality(kept) + 1
      <3>1. Stored' = kept \cup {c}
        BY <1>5
      <3> HIDE DEF kept
      <3>2. /\ IsFiniteSet(kept \cup {c})
            /\ Cardinality(kept \cup {c}) =
                 IF c \in kept THEN Cardinality(kept) ELSE Cardinality(kept) + 1
        BY <2>1, FS_AddElement
      <3> QED  BY <2>1, <3>1, <3>2
    <2>3. Cardinality(Stored') \in Nat
      BY <2>2, FS_CardinalityType
    <2> QED  BY <2>1, <2>2, <2>3, ConfigAssumption DEF CapacityInv, WithinCapacity
  <1> QED  BY <1>6, <1>7, <1>8, <1>9

-----------------------------------------------------------------------------
(* The life of a stored session.                                             *)

LEMMA MarkDisconnectedKeepsInv ==
    ASSUME IInv, NEW c \in Clients, MarkDisconnected(c)
    PROVE  IInv'
  <1> USE DEF IInv
  <1>1. /\ Stored' = Stored /\ c \in Stored
        /\ Active' = Active \ {c}
        /\ Disconnected' = Disconnected \cup {c}
    BY DEF TypeOK, InternalSession, MarkDisconnected, Stored, Active, Disconnected
  <1>2. TypeOK'
    <2> DEFINE new == [session[c] EXCEPT !.status = "disconnected", !.disconnectedAt = now]
    <2>1. session' = [session EXCEPT ![c] = new]
      BY DEF MarkDisconnected
    <2>2. session[c] \in InternalSession /\ IsBuffer(session[c].conversationBuffer)
      BY DEF TypeOK
    <2>3. new \in InternalSession /\ IsBuffer(new.conversationBuffer)
      <3>1. now \in Int /\ now + TTL \in Int /\ NoTime \in Int
        BY ConfigAssumption DEF TypeOK, NoTime
      <3> HIDE DEF IInv
      <3>2. new \in InternalSession
        BY <2>2, <3>1 DEF InternalSession
      <3>3. new.conversationBuffer = session[c].conversationBuffer
        BY <2>2 DEF InternalSession
      <3> QED  BY <2>2, <3>2, <3>3
    <2> HIDE DEF new
    <2>4. /\ session' \in [Clients -> InternalSession]
          /\ \A k \in Clients : IsBuffer(session'[k].conversationBuffer)
      BY <2>1, <2>3, UpdateType
    <2> QED  BY <2>4, ConfigAssumption DEF TypeOK, MarkDisconnected, Set, NoTimer
  <1>3. TimersFollowSessions'
    BY <1>1 DEF TimersFollowSessions, TypeOK, InternalSession, MarkDisconnected, Set
  <1>4. OrderIsTotal'
    BY <1>1 DEF OrderIsTotal, MarkDisconnected
  <1>5. CapacityInv'
    BY <1>1 DEF CapacityInv, WithinCapacity
  <1> QED  BY <1>2, <1>3, <1>4, <1>5

LEMMA ReconnectSessionKeepsInv ==
    ASSUME IInv, NEW c \in Clients, ReconnectSession(c)
    PROVE  IInv'
  <1> USE DEF IInv
  <1>1. /\ Stored' = Stored /\ c \in Stored
        /\ Active' = Active \cup {c}
        /\ Disconnected' = Disconnected \ {c}
    BY DEF TypeOK, InternalSession, ReconnectSession, Stored, Active, Disconnected
  <1>2. TypeOK'
    <2> DEFINE new == [session[c] EXCEPT !.status = "active", !.lastActivityAt = now,
                                    !.expiresAt = now + TTL, !.disconnectedAt = NoTime]
    <2>1. session' = [session EXCEPT ![c] = new]
      BY DEF ReconnectSession
    <2>2. session[c] \in InternalSession /\ IsBuffer(session[c].conversationBuffer)
      BY DEF TypeOK
    <2>3. new \in InternalSession /\ IsBuffer(new.conversationBuffer)
      <3>1. now \in Int /\ now + TTL \in Int /\ NoTime \in Int
        BY ConfigAssumption DEF TypeOK, NoTime
      <3> HIDE DEF IInv
      <3>2. new \in InternalSession
        BY <2>2, <3>1 DEF InternalSession
      <3>3. new.conversationBuffer = session[c].conversationBuffer
        BY <2>2 DEF InternalSession
      <3> QED  BY <2>2, <3>2, <3>3
    <2> HIDE DEF new
    <2>4. /\ session' \in [Clients -> InternalSession]
          /\ \A k \in Clients : IsBuffer(session'[k].conversationBuffer)
      BY <2>1, <2>3, UpdateType
    <2> QED  BY <2>4, ConfigAssumption DEF TypeOK, ReconnectSession, Set, NoTimer
  <1>3. TimersFollowSessions'
    BY <1>1 DEF TimersFollowSessions, TypeOK, InternalSession, ReconnectSession, Set
  <1>4. OrderIsTotal'
    BY <1>1 DEF OrderIsTotal, ReconnectSession
  <1>5. CapacityInv'
    BY <1>1 DEF CapacityInv, WithinCapacity
  <1> QED  BY <1>2, <1>3, <1>4, <1>5

\* touchSession and the message that addMessage pushes before it.
LEMMA TouchKeepsInv ==
    ASSUME IInv, NEW c \in Clients, NEW buffer, IsBuffer(buffer), TouchWith(c, buffer)
    PROVE  IInv'
  <1> USE DEF IInv
  <1>1. Stored' = Stored /\ c \in Stored /\ Active' = Active /\ Disconnected' = Disconnected
    BY DEF TypeOK, InternalSession, TouchWith, Stored, Active, Disconnected
  <1>2. TypeOK'
    <2> DEFINE new == [session[c] EXCEPT !.lastActivityAt = now, !.expiresAt = now + TTL,
                                         !.conversationBuffer = buffer]
    <2>1. session' = [session EXCEPT ![c] = new]
      BY DEF TouchWith
    <2>2. session[c] \in InternalSession /\ buffer \in Rings
      BY DEF TypeOK, IsBuffer
    <2>3. new \in InternalSession /\ IsBuffer(new.conversationBuffer)
      <3>1. now \in Int /\ now + TTL \in Int /\ NoTime \in Int
        BY ConfigAssumption DEF TypeOK, NoTime
      <3> HIDE DEF IInv
      <3>2. new \in InternalSession
        BY <2>2, <3>1 DEF InternalSession
      <3>3. new.conversationBuffer = buffer
        BY <2>2 DEF InternalSession
      <3> QED  BY <2>2, <3>2, <3>3
    <2> HIDE DEF new
    <2>4. /\ session' \in [Clients -> InternalSession]
          /\ \A k \in Clients : IsBuffer(session'[k].conversationBuffer)
      BY <2>1, <2>3, UpdateType
    <2>5. older' \in SUBSET (Clients \X Clients)
      BY DEF TypeOK, TouchWith, AtEnd, Without, Stored
    <2> QED  BY <2>4, <2>5, ConfigAssumption DEF TypeOK, TouchWith, Set
  <1>3. TimersFollowSessions'
    BY <1>1 DEF TimersFollowSessions, TypeOK, InternalSession, TouchWith, Set,
                Active, Disconnected
  <1>4. OrderIsTotal'
    BY <1>1 DEF OrderIsTotal, TouchWith, AtEnd, Without
  <1>5. CapacityInv'
    BY <1>1 DEF CapacityInv, WithinCapacity
  <1> QED  BY <1>2, <1>3, <1>4, <1>5

LEMMA ForceExpireSessionKeepsInv ==
    ASSUME IInv, NEW c \in Clients, ForceExpireSession(c)
    PROVE  IInv'
  <1> USE DEF IInv
  <1>1. Stored' = Stored /\ Active' = Active /\ Disconnected' = Disconnected
    BY DEF TypeOK, InternalSession, ForceExpireSession, Stored, Active, Disconnected
  <1>2. TypeOK'
    BY DEF TypeOK, InternalSession, ForceExpireSession
  <1>3. TimersFollowSessions'
    BY <1>1 DEF TimersFollowSessions, TypeOK, InternalSession, ForceExpireSession
  <1>4. OrderIsTotal'
    BY <1>1 DEF OrderIsTotal, ForceExpireSession
  <1>5. CapacityInv'
    BY <1>1 DEF CapacityInv, WithinCapacity
  <1> QED  BY <1>2, <1>3, <1>4, <1>5

LEMMA OnModuleDestroyKeepsInv ==
    ASSUME IInv, OnModuleDestroy
    PROVE  IInv'
  <1> USE DEF IInv
  <1>1. Stored' = Stored /\ Active' = Active /\ Disconnected' = Disconnected
    BY DEF OnModuleDestroy, Stored, Active, Disconnected
  <1>2. TypeOK'
    <2>1. /\ expirationTimer' \in [Clients -> Int]
          /\ disconnectTimer' \in [Clients -> Int]
      BY DEF TypeOK, OnModuleDestroy, Cleared, NoTimer
    <2>2. up' \in BOOLEAN
      BY DEF OnModuleDestroy
    <2> QED  BY <2>1, <2>2 DEF TypeOK, OnModuleDestroy
  <1>3. TimersFollowSessions'
    BY <1>1 DEF TimersFollowSessions, OnModuleDestroy, Cleared
  <1>4. OrderIsTotal'
    BY <1>1 DEF OrderIsTotal, OnModuleDestroy
  <1>5. CapacityInv'
    BY <1>1 DEF CapacityInv, WithinCapacity
  <1> QED  BY <1>2, <1>3, <1>4, <1>5

\* The clock, and steps in which nothing moves.
LEMMA TickKeepsInv ==
    ASSUME IInv, Tick \/ UNCHANGED vars
    PROVE  IInv'
  <1> USE DEF IInv
  <1>1. UNCHANGED <<session, older, expirationTimer, disconnectTimer, up>>
    BY DEF Tick, vars
  <1>2. Stored' = Stored /\ Active' = Active /\ Disconnected' = Disconnected
    BY <1>1 DEF Stored, Active, Disconnected
  <1>3. now' \in Nat
    BY DEF TypeOK, Tick, vars
  <1>4. TypeOK'
    BY <1>1, <1>3 DEF TypeOK
  <1>5. TimersFollowSessions' /\ OrderIsTotal' /\ CapacityInv'
    BY <1>1, <1>2 DEF TimersFollowSessions, OrderIsTotal, CapacityInv, WithinCapacity
  <1> QED  BY <1>4, <1>5

-----------------------------------------------------------------------------
LEMMA ReadSessionKeepsInv ==
    ASSUME IInv, NEW c \in Clients, ReadSession(c)
    PROVE  IInv'
  BY DestroyKeepsInv, TickKeepsInv DEF ReadSession

LEMMA AddMessageKeepsInv ==
    ASSUME IInv, NEW c \in Clients, NEW message \in Messages, AddMessage(c, message)
    PROVE  IInv'
  <1>1. IsBuffer(Push(session[c].conversationBuffer, message))
    BY PushIsBuffer DEF IInv, TypeOK
  <1> QED  BY <1>1, TouchKeepsInv, ReadSessionKeepsInv DEF AddMessage

\* Whatever a caller asks of the service.
LEMMA MethodsKeepInv ==
    ASSUME IInv, NEW c \in Clients, Methods(c)
    PROVE  IInv'
  <1>1. CASE CreateSession(c)
    BY <1>1, KeepExistingKeepsInv, CreateOverKeepsInv DEF CreateSession
  <1>2. CASE DestroySession(c)
    BY <1>2, DestroyKeepsInv DEF DestroySession
  <1>3. CASE MarkDisconnected(c)
    BY <1>3, MarkDisconnectedKeepsInv
  <1>4. CASE ReconnectSession(c)
    BY <1>4, ReconnectSessionKeepsInv
  <1>5. CASE TouchSession(c)
    <2>1. IsBuffer(session[c].conversationBuffer)
      BY DEF IInv, TypeOK
    <2> QED  BY <1>5, <2>1, TouchKeepsInv DEF TouchSession
  <1>6. CASE ReadSession(c)
    BY <1>6, ReadSessionKeepsInv
  <1>7. CASE ForceExpireSession(c)
    BY <1>7, ForceExpireSessionKeepsInv
  <1>8. CASE \E message \in Messages : AddMessage(c, message)
    BY <1>8, AddMessageKeepsInv
  <1> QED  BY <1>1, <1>2, <1>3, <1>4, <1>5, <1>6, <1>7, <1>8 DEF Methods

\* Whatever the process does by itself.
LEMMA BackgroundKeepsInv ==
    ASSUME IInv, Background
    PROVE  IInv'
  <1>1. ASSUME NEW c \in Clients, TimersFire(c) PROVE IInv'
    BY <1>1, DestroyKeepsInv
       DEF TimersFire, HandleSessionExpiration, HandleDisconnectTimeout, DestroySession
  <1>2. CASE CleanupExpiredSessions
    <2>1. {c \in Active : IsExpired(c)} \in SUBSET Clients
      BY DEF Active
    <2> QED  BY <1>2, <2>1, DestroyKeepsInv DEF CleanupExpiredSessions
  <1> QED  BY <1>1, <1>2, OnModuleDestroyKeepsInv, TickKeepsInv DEF Background

LEMMA NextKeepsInv == IInv /\ [Next]_vars => IInv'
  <1> SUFFICES ASSUME IInv, [Next]_vars PROVE IInv'
    OBVIOUS
  <1>1. CASE \E c \in Clients : Methods(c)
    BY <1>1, MethodsKeepInv
  <1>2. CASE ClearAllSessions
    <2>1. Clients \in SUBSET Clients
      OBVIOUS
    <2> QED  BY <1>2, <2>1, DestroyKeepsInv DEF ClearAllSessions
  <1>3. CASE Background
    BY <1>3, BackgroundKeepsInv
  <1>4. CASE UNCHANGED vars
    BY <1>4, TickKeepsInv
  <1> QED  BY <1>1, <1>2, <1>3, <1>4 DEF Next

THEOREM Invariance == Spec => []IInv
  BY InitInv, NextKeepsInv, PTL DEF Spec

\* Every variable keeps its type, and every history is a ring that pushes build.
THEOREM TypeCorrect == Spec => []TypeOK
  BY Invariance, PTL DEF IInv

\* No timer outlives its session, none is missing: the timer that fires is always
\* the one set from the session's own latest activity or disconnection.
THEOREM TimersAreRight == Spec => []TimersFollowSessions
  BY Invariance, PTL DEF IInv

\* The store never holds more than maxSessions sessions.
THEOREM CapacityIsKept == Spec => []WithinCapacity
  BY Invariance, PTL DEF IInv, CapacityInv

-----------------------------------------------------------------------------
(* The store implements the conversations of module Conversation.            *)

\* A session that keeps its status and its history keeps its conversation.
LEMMA SameView ==
    ASSUME NEW k \in Clients,
           session'[k].status = session[k].status,
           session'[k].conversationBuffer = session[k].conversationBuffer
    PROVE  View(k)' = View(k)
  BY DEF View

LEMMA AbsentView == [status |-> Absent.status,
                     said |-> ToArray(Absent.conversationBuffer)] = Talk!None
  BY EmptyIsBuffer DEF Absent, Talk!None

\* One client is served, the sessions in `gone` end, the others stay.
LEMMA ServingStep ==
    ASSUME NEW c \in Clients, NEW gone \in SUBSET Clients,
           \A k \in Clients \ {c} :
              IF k \in gone THEN session'[k] = Absent ELSE session'[k] = session[k],
           \/ Talk!Starts(c) \/ Talk!Leaves(c) \/ Talk!Returns(c) \/ Talk!Ends(c)
           \/ \E m \in Messages : Talk!Says(c, m)
    PROVE  Talk!Next
  <1>1. ASSUME NEW k \in Clients \ {c} PROVE Talk!Keeps(k) \/ Talk!Ends(k)
    <2>1. CASE k \in gone
      BY <2>1, AbsentView DEF Talk!Ends, View
    <2>2. CASE k \notin gone
      BY <2>2, SameView DEF Talk!Keeps
    <2> QED  BY <2>1, <2>2
  <1> QED  BY <1>1 DEF Talk!Next, Talk!Serves

LEMMA ServingAlone ==
    ASSUME NEW c \in Clients,
           \A k \in Clients \ {c} : session'[k] = session[k],
           \/ Talk!Starts(c) \/ Talk!Leaves(c) \/ Talk!Returns(c) \/ Talk!Ends(c)
           \/ \E m \in Messages : Talk!Says(c, m)
    PROVE  Talk!Next
  <1>1. ASSUME NEW k \in Clients \ {c} PROVE Talk!Keeps(k)
    BY SameView DEF Talk!Keeps
  <1> QED  BY <1>1 DEF Talk!Next, Talk!Serves

\* A step that touches no status and no history is a stutter of the conversations.
LEMMA StutterStep ==
    ASSUME \A k \in Clients : /\ session'[k].status = session[k].status
                              /\ session'[k].conversationBuffer = session[k].conversationBuffer
    PROVE  UNCHANGED [c \in Clients |-> View(c)]
  BY SameView

LEMMA DestroySteps ==
    ASSUME NEW gone \in SUBSET Clients, Destroy(gone)
    PROVE  Talk!Next \/ UNCHANGED [c \in Clients |-> View(c)]
  <1>1. \A k \in Clients : session'[k] = IF k \in gone THEN Absent ELSE session[k]
    BY DEF Destroy, Removed
  <1>2. CASE gone = {}
    BY <1>1, <1>2, StutterStep
  <1>3. CASE gone # {}
    <2>1. PICK c \in gone : TRUE
      BY <1>3
    <2>2. Talk!Ends(c)
      BY <1>1, <2>1, AbsentView DEF Talk!Ends, View
    <2> QED  BY <1>1, <2>1, <2>2, ServingStep
  <1> QED  BY <1>2, <1>3

LEMMA CreateSteps ==
    ASSUME IInv, NEW c \in Clients, CreateSession(c)
    PROVE  Talk!Next \/ UNCHANGED [k \in Clients |-> View(k)]
  <1>1. CASE KeepExisting(c)
    BY <1>1, StutterStep DEF KeepExisting
  <1>2. CASE CreateOver(c)
    <2>1. PICK evicted \in Evictions : session' = [Removed(evicted) EXCEPT ![c] = Fresh]
      BY <1>2 DEF CreateOver
    <2>2. evicted \in SUBSET Clients
      BY DEF Evictions, Oldest, Stored
    <2>3. /\ session'[c] = Fresh
          /\ \A k \in Clients \ {c} :
               IF k \in evicted THEN session'[k] = Absent ELSE session'[k] = session[k]
      BY <2>1 DEF Removed
    <2>4. Talk!Starts(c)
      BY <2>3, EmptyIsBuffer DEF Talk!Starts, View, Fresh
    <2> QED  BY <2>2, <2>3, <2>4, ServingStep
  <1> QED  BY <1>1, <1>2 DEF CreateSession

LEMMA PresenceSteps ==
    ASSUME IInv, NEW c \in Clients, MarkDisconnected(c) \/ ReconnectSession(c)
    PROVE  Talk!Next
  <1>1. \A k \in Clients \ {c} : session'[k] = session[k]
    BY DEF MarkDisconnected, ReconnectSession, IInv, TypeOK
  <1>2. session'[c].conversationBuffer = session[c].conversationBuffer
    BY DEF MarkDisconnected, ReconnectSession, IInv, TypeOK, InternalSession
  <1>3. CASE MarkDisconnected(c)
    <2>1. session[c].status = "active" /\ session'[c].status = "disconnected"
      BY <1>3 DEF MarkDisconnected, Active, IInv, TypeOK, InternalSession
    <2>2. Talk!Leaves(c)
      BY <1>2, <2>1 DEF Talk!Leaves, View
    <2> QED  BY <1>1, <2>2, ServingAlone
  <1>4. CASE ReconnectSession(c)
    <2>1. session[c].status = "disconnected" /\ session'[c].status = "active"
      BY <1>4 DEF ReconnectSession, Disconnected, IInv, TypeOK, InternalSession
    <2>2. Talk!Returns(c)
      BY <1>2, <2>1 DEF Talk!Returns, View
    <2> QED  BY <1>1, <2>2, ServingAlone
  <1> QED  BY <1>3, <1>4

LEMMA ReadSteps ==
    ASSUME NEW c \in Clients, ReadSession(c)
    PROVE  Talk!Next \/ UNCHANGED [k \in Clients |-> View(k)]
  <1>1. CASE Destroy({c})
    BY <1>1, DestroySteps
  <1>2. CASE UNCHANGED vars
    BY <1>2, StutterStep DEF vars
  <1> QED  BY <1>1, <1>2 DEF ReadSession

LEMMA AddMessageSteps ==
    ASSUME IInv, NEW c \in Clients, NEW m \in Messages, AddMessage(c, m)
    PROVE  Talk!Next \/ UNCHANGED [k \in Clients |-> View(k)]
  <1> DEFINE old == session[c].conversationBuffer
  <1>1. CASE HasSession(c)
    <2>1. /\ c \in Active
          /\ session' = [session EXCEPT ![c].lastActivityAt = now,
                                        ![c].expiresAt = now + TTL,
                                        ![c].conversationBuffer = Push(old, m)]
      BY <1>1 DEF AddMessage, TouchWith
    <2>2. /\ session'[c].status = "active" /\ session[c].status = "active"
          /\ session'[c].conversationBuffer = Push(old, m)
          /\ \A k \in Clients \ {c} : session'[k] = session[k]
      BY <2>1 DEF Active, IInv, TypeOK, InternalSession
    <2>3. ToArray(Push(old, m)) = Talk!Remember(ToArray(old), m)
      <3>1. IsBuffer(old)
        BY DEF IInv, TypeOK
      <3>2. ToArray(Push(old, m)) = Remember(ToArray(old), m)
        BY <3>1, PushRemembers
      <3> QED  BY <3>2 DEF Remember, Talk!Remember
    <2>4. Talk!Says(c, m)
      BY <2>2, <2>3 DEF Talk!Says, View
    <2> QED  BY <2>2, <2>4, ServingAlone
  <1>2. CASE ~HasSession(c)
    BY <1>2, ReadSteps DEF AddMessage
  <1> QED  BY <1>1, <1>2

LEMMA QuietSteps ==
    ASSUME IInv, \/ \E c \in Clients : TouchSession(c) \/ ForceExpireSession(c)
                 \/ OnModuleDestroy \/ Tick \/ UNCHANGED vars
    PROVE  UNCHANGED [k \in Clients |-> View(k)]
  <1>1. ASSUME NEW c \in Clients, TouchSession(c) \/ ForceExpireSession(c)
        PROVE  \A k \in Clients : /\ session'[k].status = session[k].status
                                  /\ session'[k].conversationBuffer = session[k].conversationBuffer
    <2>1. session \in [Clients -> InternalSession]
      BY DEF IInv, TypeOK
    <2>2. CASE TouchSession(c)
      BY <2>1, <2>2 DEF TouchSession, TouchWith, InternalSession
    <2>3. CASE ForceExpireSession(c)
      BY <2>1, <2>3 DEF ForceExpireSession, InternalSession
    <2> QED  BY <1>1, <2>2, <2>3
  <1>2. CASE OnModuleDestroy \/ Tick \/ UNCHANGED vars
    BY <1>2, StutterStep DEF OnModuleDestroy, Tick, vars
  <1> QED  BY <1>1, <1>2, StutterStep

LEMMA NextImplements ==
    IInv /\ [Next]_vars => [Talk!Next]_[c \in Clients |-> View(c)]
  <1> SUFFICES ASSUME IInv, [Next]_vars
               PROVE  Talk!Next \/ UNCHANGED [c \in Clients |-> View(c)]
    OBVIOUS
  <1>1. ASSUME NEW c \in Clients, Methods(c)
        PROVE  Talk!Next \/ UNCHANGED [k \in Clients |-> View(k)]
    <2>1. CASE DestroySession(c)
      BY <2>1, DestroySteps DEF DestroySession
    <2>2. CASE CreateSession(c) \/ MarkDisconnected(c) \/ ReconnectSession(c)
      BY <2>2, CreateSteps, PresenceSteps
    <2>3. CASE TouchSession(c) \/ ForceExpireSession(c)
      BY <2>3, QuietSteps
    <2>4. CASE ReadSession(c) \/ \E m \in Messages : AddMessage(c, m)
      BY <2>4, ReadSteps, AddMessageSteps
    <2> QED  BY <1>1, <2>1, <2>2, <2>3, <2>4 DEF Methods
  <1>2. CASE ClearAllSessions
    <2>1. Clients \in SUBSET Clients
      OBVIOUS
    <2> QED  BY <1>2, <2>1, DestroySteps DEF ClearAllSessions
  <1>3. CASE Background
    <2>1. ASSUME NEW c \in Clients, TimersFire(c)
          PROVE  Talk!Next \/ UNCHANGED [k \in Clients |-> View(k)]
      BY <2>1, DestroySteps
         DEF TimersFire, HandleSessionExpiration, HandleDisconnectTimeout, DestroySession
    <2>2. CASE CleanupExpiredSessions
      <3>1. {c \in Active : IsExpired(c)} \in SUBSET Clients
        BY DEF Active
      <3> QED  BY <2>2, <3>1, DestroySteps DEF CleanupExpiredSessions
    <2> QED  BY <1>3, <2>1, <2>2, QuietSteps DEF Background
  <1>4. CASE UNCHANGED vars
    BY <1>4, QuietSteps
  <1> QED  BY <1>1, <1>2, <1>3, <1>4 DEF Next

LEMMA InitImplements == Init => Talk!Init
  <1> SUFFICES ASSUME Init PROVE Talk!Init
    OBVIOUS
  <1>1. \A c \in Clients : View(c) = Talk!None
    BY AbsentView DEF Init, View
  <1> QED  BY <1>1 DEF Talk!Init

\* The store keeps conversations as module Conversation promises: ring, clock,
\* timers, sweep and eviction show as nothing but messages said and endings.
THEOREM StoreImplementsConversations == Spec => ImplementsConversation
  <1>1. Spec => Talk!Init /\ [][Talk!Next]_[c \in Clients |-> View(c)]
    BY InitImplements, NextImplements, Invariance, PTL DEF Spec
  <1> QED  BY <1>1, PTL DEF ImplementsConversation, Talk!Spec
=============================================================================
