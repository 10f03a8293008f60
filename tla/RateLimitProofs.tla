-------------------------- MODULE RateLimitProofs ---------------------------
(* The sliding windows, for any limit, window length, clients and clock.     *)
(* CountIsExact speaks of the window that ends now; what is inductive is that *)
(* the ring's newest entries are the requests since t, for every t that some *)
(* window from now on may begin at (Exact), for time passes and the window's *)
(* beginning moves.  AtMostMaxRequestsInAnyWindow follows with it, since a    *)
(* request is granted only below the limit.                                  *)
EXTENDS RateLimit, WellFoundedInduction, TLAPS

\* The library's induction on numbers, in the one form the provers can use.
LEMMA LeastNumber ==
    ASSUME NEW T \in SUBSET Nat, T # {}
    PROVE  \E n \in T : \A m \in T : n <= m
  <1>1. IsWellFoundedOn({ss \in Nat \X Nat : ss[1] < ss[2]}, Nat)
    BY NatLessThanWellFounded DEF OpToRel
  <1>2. PICK n \in T : \A m \in T : ~(<<m, n>> \in {ss \in Nat \X Nat : ss[1] < ss[2]})
    BY <1>1, WFMin
  <1>3. ASSUME NEW m \in T
        PROVE  n <= m
    <2>1. <<m, n>> \in Nat \X Nat /\ <<m, n>>[1] = m /\ <<m, n>>[2] = n
      OBVIOUS
    <2>2. ~(m < n)
      BY <1>2, <2>1
    <2> QED  BY <2>2
  <1> QED  BY <1>3

\* What the code's (index) % capacity computes on the indices it meets.
LEMMA Wrap ==
    ASSUME NEW a \in Nat, a < 2 * Capacity
    PROVE  a % Capacity = IF a < Capacity THEN a ELSE a - Capacity
  BY LimitAssumption DEF Capacity

LEMMA SumIsChosen ==
    ASSUME NEW log, NEW from, NEW to
    PROVE  SumBetween(log, from, to) =
             (CHOOSE sum : sum = [t \in from - 1 .. to |-> IF t = from - 1 THEN 0 ELSE sum[t - 1] + log[t]])[to]
  BY DEF SumBetween

-----------------------------------------------------------------------------
(* Sums of a log are differences of its prefix sums.                         *)

Logs == [Times -> Nat]

SumsUpto(n, F, log) ==
    F \in [0 .. n -> Int] /\ F[0] = 0 /\ \A t \in 0 .. n - 1 : F[t + 1] = F[t] + log[t]

IsPrefix(F, log) == SumsUpto(Horizon + 1, F, log)

LEMMA PrefixExists ==
    ASSUME NEW log \in Logs
    PROVE  \E F : IsPrefix(F, log)
  <1> DEFINE Exists(n) == \E F : SumsUpto(n, F, log)
             Missing == {n \in Nat : n <= Horizon + 1 /\ ~Exists(n)}
  <1>1. Exists(0)
    <2>1. SumsUpto(0, [t \in 0 .. 0 |-> 0], log)
      BY DEF SumsUpto
    <2> QED  BY <2>1
  <1>2. ASSUME NEW n \in Times, Exists(n)
        PROVE  Exists(n + 1)
    <2>1. PICK F : SumsUpto(n, F, log)
      BY <1>2
    <2>2. n \in Nat /\ log[n] \in Int
      BY BoundsAssumption DEF Times, Logs
    <2>3. SumsUpto(n + 1, [t \in 0 .. n + 1 |-> IF t = n + 1 THEN F[n] + log[n] ELSE F[t]], log)
      BY <2>1, <2>2 DEF SumsUpto
    <2> QED  BY <2>3
  <1> HIDE DEF Exists
  <1>3. Missing = {}
    <2>1. SUFFICES ASSUME NEW n \in Missing, \A m \in Missing : n <= m
                   PROVE  FALSE
      <3>1. Missing \in SUBSET Nat
        OBVIOUS
      <3> QED  BY <2>1, <3>1, LeastNumber
    <2>2. n \in Nat /\ n # 0 /\ n <= Horizon + 1 /\ n - 1 \notin Missing
      BY <1>1, <2>1
    <2>3. n - 1 \in Times /\ n - 1 + 1 = n
      BY <2>2, BoundsAssumption DEF Times
    <2>4. Exists(n - 1)
      BY <2>2, <2>3, BoundsAssumption DEF Times
    <2>5. Exists(n - 1 + 1)
      BY <1>2, <2>3, <2>4
    <2> QED  BY <2>3, <2>5
  <1>4. Exists(Horizon + 1)
    BY <1>3, BoundsAssumption
  <1> QED  BY <1>4 DEF Exists, IsPrefix

LEMMA PrefixStep ==
    ASSUME NEW log \in Logs, NEW F, IsPrefix(F, log)
    PROVE  /\ F \in [0 .. Horizon + 1 -> Int] /\ F[0] = 0
           /\ \A t \in Times : F[t + 1] = F[t] + log[t] /\ F[t] \in Int /\ F[t + 1] \in Int /\ log[t] \in Nat
  <1>1. 0 .. Horizon + 1 - 1 = Times
    BY BoundsAssumption DEF Times
  <1> QED  BY <1>1, BoundsAssumption DEF IsPrefix, SumsUpto, Times, Logs

LEMMA PrefixIs ==
    ASSUME NEW log \in Logs, NEW F, F \in [0 .. Horizon + 1 -> Int], F[0] = 0,
           \A t \in Times : F[t + 1] = F[t] + log[t]
    PROVE  IsPrefix(F, log)
  <1>1. 0 .. Horizon + 1 - 1 = Times
    BY BoundsAssumption DEF Times
  <1>2. \A t \in 0 .. Horizon + 1 - 1 : F[t + 1] = F[t] + log[t]
    BY <1>1
  <1> QED  BY <1>1, BoundsAssumption DEF IsPrefix, SumsUpto, Times, Logs

LEMMA SumIsDifference ==
    ASSUME NEW log \in Logs, NEW F, IsPrefix(F, log),
           NEW from \in 0 .. Horizon + 1, NEW to \in -1 .. Horizon, from <= to + 1
    PROVE  SumBetween(log, from, to) = F[to + 1] - F[from]
  <1> DEFINE Body(f) == [t \in from - 1 .. to |-> IF t = from - 1 THEN 0 ELSE f[t - 1] + log[t]]
             sum == CHOOSE f : f = Body(f)
             diff == [t \in from - 1 .. to |-> F[t + 1] - F[from]]
  <1>1. \A t \in from .. to : F[t + 1] = F[t] + log[t] /\ F[t] \in Int /\ log[t] \in Int
    BY PrefixStep, BoundsAssumption DEF Times
  <1>2. F[from] \in Int
    BY PrefixStep
  <1>3. diff = Body(diff)
    BY <1>1, <1>2, BoundsAssumption
  <1>4. sum = Body(sum)
    BY <1>3
  <1>5. SumBetween(log, from, to) = sum[to]
    BY SumIsChosen
  <1> HIDE DEF sum, diff
  <1> DEFINE Wrong == {n \in Nat : n <= to - from + 1 /\ sum[from - 1 + n] # F[from + n] - F[from]}
  <1>6. SUFFICES Wrong = {}
    <2>1. PICK n \in Nat : n = to - from + 1
      BY BoundsAssumption
    <2>2. from - 1 + n = to /\ from + n = to + 1 /\ n <= to - from + 1
      BY <2>1, BoundsAssumption
    <2> QED  BY <1>5, <1>6, <2>2
  <1>7. SUFFICES ASSUME NEW n \in Wrong, \A m \in Wrong : n <= m
                 PROVE  FALSE
    BY LeastNumber
  <1>8. n # 0
    BY <1>2, <1>4, BoundsAssumption
  <1>9. sum[from - 1 + (n - 1)] = F[from + (n - 1)] - F[from]
    BY <1>7, <1>8
  <1>10. PICK t \in from .. to : t = from - 1 + n
    BY <1>8, BoundsAssumption
  <1>11. sum[t] = sum[t - 1] + log[t]
    BY <1>4, <1>10, BoundsAssumption
  <1>12. t - 1 = from - 1 + (n - 1) /\ from + (n - 1) = t /\ from + n = t + 1
    BY <1>10, BoundsAssumption
  <1>13. sum[t] = F[t + 1] - F[from]
    BY <1>1, <1>2, <1>9, <1>11, <1>12
  <1> QED  BY <1>10, <1>12, <1>13

LEMMA SumSteps ==
    ASSUME NEW log \in Logs
    PROVE  /\ \A from \in 0 .. Horizon + 1, to \in -1 .. Horizon : from <= to + 1 => SumBetween(log, from, to) \in Int
           /\ \A from \in 0 .. Horizon + 1 : SumBetween(log, from, from - 1) = 0
           /\ \A to \in Times : \A from \in 0 .. to :
                /\ SumBetween(log, from, to) = SumBetween(log, from, to - 1) + log[to]
                /\ SumBetween(log, from, to) = log[from] + SumBetween(log, from + 1, to)
  <1>1. PICK F : IsPrefix(F, log)
    BY PrefixExists
  <1>2. \A from \in 0 .. Horizon + 1, to \in -1 .. Horizon : from <= to + 1 =>
          SumBetween(log, from, to) = F[to + 1] - F[from]
    BY <1>1, SumIsDifference
  <1>3. \A t \in 0 .. Horizon + 1 : F[t] \in Int
    BY <1>1, PrefixStep
  <1>4. ASSUME NEW from \in 0 .. Horizon + 1, NEW to \in -1 .. Horizon, from <= to + 1
        PROVE  SumBetween(log, from, to) \in Int
    <2>1. to + 1 \in 0 .. Horizon + 1
      BY BoundsAssumption
    <2> QED  BY <1>2, <1>3, <1>4, <2>1
  <1>5. ASSUME NEW from \in 0 .. Horizon + 1
        PROVE  SumBetween(log, from, from - 1) = 0
    <2>1. from - 1 \in -1 .. Horizon /\ from <= from - 1 + 1 /\ from - 1 + 1 = from
      BY BoundsAssumption
    <2>2. SumBetween(log, from, from - 1) = F[from - 1 + 1] - F[from]
      BY <1>2, <2>1
    <2> QED  BY <1>3, <2>1, <2>2
  <1>6. ASSUME NEW to \in Times, NEW from \in 0 .. to
        PROVE  /\ SumBetween(log, from, to) = SumBetween(log, from, to - 1) + log[to]
               /\ SumBetween(log, from, to) = log[from] + SumBetween(log, from + 1, to)
    <2>1. /\ from \in Times /\ from \in 0 .. Horizon + 1 /\ from + 1 \in 0 .. Horizon + 1
          /\ to \in -1 .. Horizon /\ to - 1 \in -1 .. Horizon /\ to \in Int /\ from \in Int
          /\ from <= to + 1 /\ from <= to - 1 + 1 /\ from + 1 <= to + 1 /\ to - 1 + 1 = to
      BY BoundsAssumption DEF Times
    <2>2. /\ SumBetween(log, from, to) = F[to + 1] - F[from]
          /\ SumBetween(log, from, to - 1) = F[to - 1 + 1] - F[from]
          /\ SumBetween(log, from + 1, to) = F[to + 1] - F[from + 1]
      BY <1>2, <2>1
    <2>3. F[to + 1] = F[to] + log[to] /\ F[from + 1] = F[from] + log[from]
      BY <1>1, <2>1, PrefixStep
    <2>4. F[to] \in Int /\ F[from] \in Int /\ log[to] \in Int /\ log[from] \in Int
      BY <1>1, <2>1, PrefixStep
    <2> QED  BY <2>1, <2>2, <2>3, <2>4
  <1> QED  BY <1>4, <1>5, <1>6

\* One more at a time counts in every sum that covers the time.
LEMMA SumOfOneMore ==
    ASSUME NEW log \in Logs, NEW n \in Times, NEW from \in 0 .. Horizon + 1, NEW to \in -1 .. Horizon, from <= to + 1
    PROVE  SumBetween([log EXCEPT ![n] = @ + 1], from, to) =
             SumBetween(log, from, to) + (IF from <= n /\ n <= to THEN 1 ELSE 0)
  <1> DEFINE more == [log EXCEPT ![n] = @ + 1]
  <1>1. more \in Logs /\ \A t \in Times : more[t] = IF t = n THEN log[t] + 1 ELSE log[t]
    BY DEF Logs
  <1>2. PICK F : IsPrefix(F, log)
    BY PrefixExists
  <1> DEFINE G == [t \in 0 .. Horizon + 1 |-> IF t <= n THEN F[t] ELSE F[t] + 1]
  <1> HIDE DEF more
  <1>3. IsPrefix(G, more)
    <2>1. 0 .. Horizon + 1 - 1 = Times /\ 0 \in 0 .. Horizon + 1 /\ 0 <= n
      BY BoundsAssumption DEF Times
    <2>2. G \in [0 .. Horizon + 1 -> Int] /\ G[0] = 0
      <3>1. F \in [0 .. Horizon + 1 -> Int] /\ F[0] = 0 /\ n \in Nat
        BY <1>2, PrefixStep, BoundsAssumption DEF Times
      <3>2. \A t \in 0 .. Horizon + 1 : F[t] \in Int /\ F[t] + 1 \in Int
        BY <3>1
      <3> QED  BY <2>1, <3>1, <3>2
    <2>3. ASSUME NEW t \in Times
          PROVE  G[t + 1] = G[t] + more[t]
      <3>1. t \in 0 .. Horizon + 1 /\ t + 1 \in 0 .. Horizon + 1 /\ t \in Int /\ n \in Int
        BY BoundsAssumption DEF Times
      <3>2. F[t + 1] = F[t] + log[t] /\ F[t] \in Int /\ log[t] \in Nat
        BY <1>2, PrefixStep
      <3> QED  BY <1>1, <3>1, <3>2
    <2> HIDE DEF G
    <2> QED  BY <1>1, <2>2, <2>3, PrefixIs
  <1>4. /\ SumBetween(log, from, to) = F[to + 1] - F[from]
        /\ SumBetween(more, from, to) = G[to + 1] - G[from]
    BY <1>1, <1>2, <1>3, SumIsDifference
  <1>5. to + 1 \in 0 .. Horizon + 1 /\ from \in Int /\ to \in Int /\ n \in Int
    BY BoundsAssumption DEF Times
  <1>6. F[to + 1] \in Int /\ F[from] \in Int
    BY <1>2, <1>5, PrefixStep
  <1> QED  BY <1>4, <1>5, <1>6 DEF more

LEMMA SumOfNothing ==
    ASSUME NEW from \in 0 .. Horizon + 1, NEW to \in -1 .. Horizon, from <= to + 1
    PROVE  SumBetween(Nothing, from, to) = 0
  <1>1. Nothing \in Logs /\ \A t \in Times : Nothing[t] = 0
    BY DEF Nothing, Logs
  <1> DEFINE F == [t \in 0 .. Horizon + 1 |-> 0]
  <1>2. IsPrefix(F, Nothing)
    <2>1. \A t \in Times : t \in 0 .. Horizon + 1 /\ t + 1 \in 0 .. Horizon + 1
      BY BoundsAssumption DEF Times
    <2>2. F \in [0 .. Horizon + 1 -> Int] /\ F[0] = 0
      BY BoundsAssumption
    <2>3. \A t \in Times : F[t + 1] = F[t] + Nothing[t]
      BY <1>1, <2>1
    <2> HIDE DEF F
    <2> QED  BY <1>1, <2>2, <2>3, PrefixIs
  <1>3. F[to + 1] = 0 /\ F[from] = 0
    BY BoundsAssumption
  <1> HIDE DEF F
  <1>4. SumBetween(Nothing, from, to) = F[to + 1] - F[from]
    BY <1>1, <1>2, SumIsDifference
  <1> QED  BY <1>3, <1>4

-----------------------------------------------------------------------------
(* The ring, for every capacity.                                             *)

\* The place `b` steps after place `a`.
After(a, b) == (a + b) % Capacity

Well(w) == w \in Windows /\ w.tail = After(w.head, w.count)

LEMMA Wraps ==
    ASSUME NEW a \in Places, NEW b \in 0 .. Capacity
    PROVE  /\ After(a, b) = IF a + b <= MaxRequests THEN a + b ELSE a + b - MaxRequests - 1
           /\ After(a, b) \in Places
  <1>1. PICK n \in Nat : n = a + b /\ n < 2 * Capacity
    BY LimitAssumption DEF Places, Capacity
  <1>2. n % Capacity = IF n < Capacity THEN n ELSE n - Capacity
    BY <1>1, Wrap
  <1>3. After(a, b) = n % Capacity
    BY <1>1 DEF After
  <1> DEFINE m == n % Capacity
  <1> HIDE DEF m
  <1>4. m = IF n < Capacity THEN n ELSE n - Capacity
    BY <1>2 DEF m
  <1>5. After(a, b) = m
    BY <1>3 DEF m
  <1> QED  BY <1>1, <1>4, <1>5, LimitAssumption DEF Places, Capacity

\* Steps round the ring add up, and come back only after a whole round.
LEMMA Steps ==
    ASSUME NEW a \in Places
    PROVE  /\ After(a, 0) = a /\ After(a, Capacity) = a
           /\ \A i, j \in 0 .. Capacity : i + j <= Capacity => After(After(a, i), j) = After(a, i + j)
           /\ \A i, j \in 0 .. Capacity : i < j /\ j - i < Capacity => After(a, i) # After(a, j)
  <1>1. After(a, 0) = a /\ After(a, Capacity) = a
    <2>1. 0 \in 0 .. Capacity /\ Capacity \in 0 .. Capacity
      BY LimitAssumption DEF Capacity
    <2>2. /\ After(a, 0) = IF a + 0 <= MaxRequests THEN a + 0 ELSE a + 0 - MaxRequests - 1
          /\ After(a, Capacity) = IF a + Capacity <= MaxRequests THEN a + Capacity ELSE a + Capacity - MaxRequests - 1
      BY <2>1, Wraps
    <2> QED  BY <2>2, LimitAssumption DEF Places, Capacity
  <1>2. ASSUME NEW i \in 0 .. Capacity, NEW j \in 0 .. Capacity, i + j <= Capacity
        PROVE  After(After(a, i), j) = After(a, i + j)
    <2>1. PICK b \in Places : b = After(a, i)
      BY Wraps
    <2>2. b = IF a + i <= MaxRequests THEN a + i ELSE a + i - MaxRequests - 1
      BY <2>1, Wraps
    <2>3. After(b, j) = IF b + j <= MaxRequests THEN b + j ELSE b + j - MaxRequests - 1
      BY Wraps
    <2>4. PICK k \in 0 .. Capacity : k = i + j
      BY <1>2, LimitAssumption DEF Capacity
    <2>5. After(a, k) = IF a + k <= MaxRequests THEN a + k ELSE a + k - MaxRequests - 1
      BY Wraps
    <2>6. After(b, j) = After(a, k)
      BY <2>2, <2>3, <2>4, <2>5, <1>2, LimitAssumption DEF Places, Capacity
    <2> QED  BY <2>1, <2>4, <2>6
  <1>3. ASSUME NEW i \in 0 .. Capacity, NEW j \in 0 .. Capacity, i < j, j - i < Capacity
        PROVE  After(a, i) # After(a, j)
    <2>1. /\ After(a, i) = IF a + i <= MaxRequests THEN a + i ELSE a + i - MaxRequests - 1
          /\ After(a, j) = IF a + j <= MaxRequests THEN a + j ELSE a + j - MaxRequests - 1
      BY Wraps
    <2> QED  BY <1>3, <2>1, LimitAssumption DEF Places, Capacity
  <1> QED  BY <1>1, <1>2, <1>3

LEMMA WindowParts ==
    ASSUME NEW w \in Windows
    PROVE  /\ w.head \in Places /\ w.tail \in Places /\ w.count \in 0 .. Capacity
           /\ w.timestamps \in [Places -> Nat]
  BY DEF Windows

LEMMA EntryIs ==
    ASSUME NEW w \in Windows, NEW i \in 0 .. Capacity
    PROVE  /\ Entry(w, i) = w.timestamps[After(w.head, i)]
           /\ After(w.head, i) \in Places
           /\ Entry(w, i) \in Nat
  <1>1. After(w.head, i) \in Places
    BY Wraps, WindowParts
  <1>2. Entry(w, i) = w.timestamps[After(w.head, i)]
    BY DEF Entry, After
  <1> QED  BY <1>1, <1>2, WindowParts

LEMMA RecordIs ==
    ASSUME NEW w \in Windows, NEW time \in Nat
    PROVE  /\ Record(w, time).timestamps = [w.timestamps EXCEPT ![w.tail] = time]
           /\ Record(w, time).tail = After(w.tail, 1)
           /\ Record(w, time).count = IF w.count < Capacity THEN w.count + 1 ELSE w.count
           /\ Record(w, time).head = IF w.count < Capacity THEN w.head ELSE After(w.head, 1)
           /\ Record(w, time) \in Windows
  <1>1. PICK tail : tail = (w.tail + 1) % Capacity /\ tail = After(w.tail, 1)
    BY DEF After
  <1>2. PICK head : head = (w.head + 1) % Capacity /\ head = After(w.head, 1)
    BY DEF After
  <1>3. 1 \in 0 .. Capacity /\ Capacity \in Nat \ {0} /\ w.tail \in Int /\ w.head \in Int
    BY WindowParts, LimitAssumption DEF Capacity, Places
  <1>4. tail \in Places /\ head \in Places
    BY <1>1, <1>2, <1>3, Wraps, WindowParts
  <1> DEFINE stamps == [w.timestamps EXCEPT ![w.tail] = time]
             count == IF w.count < Capacity THEN w.count + 1 ELSE w.count
             first == IF w.count < Capacity THEN w.head ELSE head
  <1>5. /\ stamps \in [Places -> Nat] /\ count \in 0 .. Capacity /\ first \in Places
    BY <1>3, <1>4, WindowParts
  <1>6. Record(w, time) = [w EXCEPT !.timestamps = stamps, !.tail = tail, !.count = count, !.head = first]
    BY <1>1, <1>2, <1>3 DEF Record, Windows
  <1> HIDE DEF stamps, count, first
  <1>7. Record(w, time) = [timestamps |-> stamps, head |-> first, tail |-> tail, count |-> count]
    BY <1>6 DEF Windows
  <1>8. Record(w, time) \in Windows
    BY <1>4, <1>5, <1>7 DEF Windows
  <1> QED  BY <1>1, <1>2, <1>7, <1>8 DEF stamps, count, first

\* The newest entry is `time`; a full ring lost its oldest.
LEMMA RecordEffect ==
    ASSUME NEW w, Well(w), NEW time \in Nat
    PROVE  /\ Well(Record(w, time))
           /\ w.count < Capacity =>
                /\ Record(w, time).count = w.count + 1
                /\ \A i \in 0 .. w.count - 1 : Entry(Record(w, time), i) = Entry(w, i)
                /\ Entry(Record(w, time), w.count) = time
           /\ w.count = Capacity =>
                /\ Record(w, time).count = Capacity
                /\ \A i \in 0 .. MaxRequests - 1 : Entry(Record(w, time), i) = Entry(w, i + 1)
                /\ Entry(Record(w, time), MaxRequests) = time
  <1> DEFINE r == Record(w, time)
  <1>1. /\ w \in Windows
        /\ w.head \in Places /\ w.tail \in Places /\ w.count \in 0 .. Capacity /\ w.timestamps \in [Places -> Nat]
        /\ w.tail = After(w.head, w.count)
    BY DEF Well, Windows
  <1>2. /\ r.timestamps = [w.timestamps EXCEPT ![w.tail] = time]
        /\ r.tail = After(w.tail, 1)
        /\ r.count = IF w.count < Capacity THEN w.count + 1 ELSE w.count
        /\ r.head = IF w.count < Capacity THEN w.head ELSE After(w.head, 1)
        /\ r \in Windows
    BY <1>1, RecordIs
  <1> HIDE DEF r
  <1>3. 0 \in 0 .. Capacity /\ 1 \in 0 .. Capacity /\ MaxRequests \in 0 .. Capacity /\ Capacity \in Nat /\ Capacity = MaxRequests + 1
    BY LimitAssumption DEF Capacity
  <1>4. \A i \in 0 .. Capacity : /\ Entry(w, i) = w.timestamps[After(w.head, i)] /\ After(w.head, i) \in Places
                                 /\ Entry(r, i) = r.timestamps[After(r.head, i)] /\ After(r.head, i) \in Places
    BY <1>1, <1>2, EntryIs
  <1>5. ASSUME w.count < Capacity
        PROVE  /\ Well(r)
               /\ r.count = w.count + 1
               /\ \A i \in 0 .. w.count - 1 : Entry(r, i) = Entry(w, i)
               /\ Entry(r, w.count) = time
    <2>1. r.head = w.head /\ r.count = w.count + 1
      BY <1>2, <1>5
    <2>2. r.tail = After(r.head, r.count)
      BY <1>1, <1>2, <1>3, <1>5, <2>1, Steps
    <2>3. ASSUME NEW i \in 0 .. w.count - 1
          PROVE  Entry(r, i) = Entry(w, i)
      <3>1. i \in 0 .. Capacity /\ i < w.count /\ w.count - i < Capacity
        BY <1>1, <1>3, <1>5
      <3>2. After(w.head, i) # w.tail
        BY <1>1, <3>1, Steps
      <3> QED  BY <1>1, <1>2, <1>4, <2>1, <3>1, <3>2
    <2>4. Entry(r, w.count) = time
      BY <1>1, <1>2, <1>4, <2>1
    <2> QED  BY <1>2, <2>1, <2>2, <2>3, <2>4 DEF Well
  <1>6. ASSUME w.count = Capacity
        PROVE  /\ Well(r)
               /\ r.count = Capacity
               /\ \A i \in 0 .. MaxRequests - 1 : Entry(r, i) = Entry(w, i + 1)
               /\ Entry(r, MaxRequests) = time
    <2>1. w.tail = w.head /\ r.head = After(w.head, 1) /\ r.count = Capacity
      BY <1>1, <1>2, <1>3, <1>6, Steps
    <2>2. r.tail = After(r.head, r.count)
      <3>1. r.tail = r.head /\ r.head \in Places
        BY <1>2, <2>1, WindowParts
      <3> QED  BY <2>1, <3>1, Steps
    <2>3. \A i \in 0 .. MaxRequests : i \in 0 .. Capacity /\ i + 1 \in 0 .. Capacity /\ After(r.head, i) = After(w.head, i + 1)
      <3>1. ASSUME NEW i \in 0 .. MaxRequests
            PROVE  i \in 0 .. Capacity /\ i + 1 \in 0 .. Capacity /\ After(r.head, i) = After(w.head, i + 1)
        <4>1. i \in 0 .. Capacity /\ i + 1 \in 0 .. Capacity /\ 1 + i <= Capacity /\ 1 + i = i + 1
          BY <1>3
        <4>2. After(After(w.head, 1), i) = After(w.head, 1 + i)
          BY <1>1, <1>3, <4>1, Steps
        <4> QED  BY <2>1, <4>1, <4>2
      <3> QED  BY <3>1
    <2>4. ASSUME NEW i \in 0 .. MaxRequests - 1
          PROVE  Entry(r, i) = Entry(w, i + 1)
      <3>1. i \in 0 .. MaxRequests /\ i + 1 < Capacity /\ i + 1 \in 0 .. Capacity /\ 0 < i + 1 /\ i + 1 - 0 < Capacity
        BY <1>3
      <3>2. After(w.head, i + 1) # w.tail
        BY <1>1, <1>3, <2>1, <3>1, Steps
      <3> QED  BY <1>1, <1>2, <1>4, <2>3, <3>1, <3>2
    <2>5. Entry(r, MaxRequests) = time
      <3>1. MaxRequests \in 0 .. MaxRequests /\ MaxRequests + 1 = Capacity
        BY <1>3
      <3>2. After(r.head, MaxRequests) = w.tail
        BY <1>1, <2>1, <2>3, <3>1, Steps
      <3> QED  BY <1>1, <1>2, <1>3, <1>4, <3>2
    <2> QED  BY <1>2, <2>1, <2>2, <2>4, <2>5 DEF Well
  <1>7. w.count < Capacity \/ w.count = Capacity
    BY <1>1, <1>3
  <1> QED  BY <1>5, <1>6, <1>7 DEF r

-----------------------------------------------------------------------------
(* Sweeping.                                                                 *)

LEMMA SkippedExists ==
    ASSUME NEW w \in Windows, NEW time \in Int
    PROVE  /\ Skipped(w, time) \in 0 .. w.count
           /\ \A i \in 0 .. Skipped(w, time) - 1 : Expired(Entry(w, i), time)
           /\ Skipped(w, time) < w.count => ~Expired(Entry(w, Skipped(w, time)), time)
  <1> DEFINE Fits(k) == /\ \A i \in 0 .. k - 1 : Expired(Entry(w, i), time)
                        /\ k < w.count => ~Expired(Entry(w, k), time)
             Alive == {k \in Nat : k < w.count => ~Expired(Entry(w, k), time)}
  <1>1. w.count \in Nat
    BY WindowParts, LimitAssumption DEF Capacity
  <1>2. PICK k \in Alive : \A m \in Alive : k <= m
    <2>1. w.count \in Alive
      BY <1>1
    <2> QED  BY <2>1, LeastNumber
  <1>3. \A i \in 0 .. k - 1 : Expired(Entry(w, i), time)
    <2>1. ASSUME NEW i \in 0 .. k - 1
          PROVE  Expired(Entry(w, i), time)
      <3>1. i \in Nat /\ ~(k <= i)
        BY <1>2
      <3>2. i \notin Alive
        BY <1>2, <3>1
      <3> QED  BY <3>1, <3>2
    <2> QED  BY <2>1
  <1>4. k \in 0 .. w.count
    <2>1. w.count \in Alive
      BY <1>1
    <2> QED  BY <1>1, <1>2, <2>1
  <1>5. Fits(k)
    BY <1>2, <1>3
  <1>6. Skipped(w, time) = CHOOSE j \in 0 .. w.count : Fits(j)
    BY DEF Skipped
  <1> HIDE DEF Fits
  <1>7. Skipped(w, time) \in 0 .. w.count /\ Fits(Skipped(w, time))
    BY <1>4, <1>5, <1>6
  <1> QED  BY <1>7 DEF Fits

\* It is the only such number.
LEMMA SkippedIs ==
    ASSUME NEW w \in Windows, NEW time \in Int, NEW k \in 0 .. w.count,
           \A i \in 0 .. k - 1 : Expired(Entry(w, i), time),
           k < w.count => ~Expired(Entry(w, k), time)
    PROVE  Skipped(w, time) = k
  <1>1. PICK j \in 0 .. w.count : /\ j = Skipped(w, time)
                                  /\ \A i \in 0 .. j - 1 : Expired(Entry(w, i), time)
                                  /\ j < w.count => ~Expired(Entry(w, j), time)
    BY SkippedExists
  <1>2. w.count \in Nat
    BY WindowParts, LimitAssumption DEF Capacity
  <1>3. ~(j < k)
    BY <1>1, <1>2
  <1>4. ~(k < j)
    BY <1>1, <1>2
  <1> QED  BY <1>1, <1>2, <1>3, <1>4

\* Sweeping drops the skipped entries and keeps the others in their order.
LEMMA SweptEffect ==
    ASSUME NEW w, Well(w), NEW time \in Int, NEW k, k = Skipped(w, time)
    PROVE  /\ Well(Swept(w, time))
           /\ Swept(w, time).count = w.count - k
           /\ \A i \in 0 .. w.count - k - 1 : Entry(Swept(w, time), i) = Entry(w, i + k)
  <1>1. /\ w \in Windows /\ w.head \in Places /\ w.tail \in Places /\ w.count \in 0 .. Capacity
        /\ w.timestamps \in [Places -> Nat] /\ w.tail = After(w.head, w.count)
    BY DEF Well, Windows
  <1>2. Capacity \in Nat
    BY LimitAssumption DEF Capacity
  <1>3. k \in 0 .. w.count /\ k \in 0 .. Capacity /\ w.count - k \in 0 .. Capacity
    BY <1>1, <1>2, SkippedExists
  <1>4. PICK first \in Places : first = After(w.head, k)
    BY <1>1, <1>3, Wraps
  <1>5. first = (w.head + k) % Capacity
    BY <1>4 DEF After
  <1> DEFINE s == Swept(w, time)
  <1>6. s = [w EXCEPT !.head = first, !.count = w.count - k]
    BY <1>1, <1>5 DEF Swept, Windows
  <1>7. /\ s \in Windows /\ s.timestamps = w.timestamps /\ s.tail = w.tail
        /\ s.head = first /\ s.count = w.count - k
    <2>1. s = [timestamps |-> w.timestamps, head |-> first, tail |-> w.tail, count |-> w.count - k]
      BY <1>1, <1>6 DEF Windows
    <2> HIDE DEF s
    <2>2. s \in Windows
      BY <1>1, <1>3, <2>1 DEF Windows
    <2> QED  BY <2>1, <2>2
  <1> HIDE DEF s
  <1>8. s.tail = After(s.head, s.count)
    <2>1. k + (w.count - k) = w.count /\ k + (w.count - k) <= Capacity
      BY <1>1, <1>2, <1>3
    <2>2. After(After(w.head, k), w.count - k) = After(w.head, k + (w.count - k))
      BY <1>1, <1>3, <2>1, Steps
    <2> QED  BY <1>1, <1>4, <1>7, <2>1, <2>2
  <1>9. ASSUME NEW i \in 0 .. w.count - k - 1
        PROVE  Entry(s, i) = Entry(w, i + k)
    <2>1. i \in 0 .. Capacity /\ i + k \in 0 .. Capacity /\ k + i = i + k /\ k + i <= Capacity
      BY <1>1, <1>2, <1>3
    <2>2. After(After(w.head, k), i) = After(w.head, k + i)
      BY <1>1, <1>3, <2>1, Steps
    <2>3. Entry(s, i) = s.timestamps[After(s.head, i)] /\ Entry(w, i + k) = w.timestamps[After(w.head, i + k)]
      BY <1>1, <1>7, <2>1, EntryIs
    <2> QED  BY <1>4, <1>7, <2>1, <2>2, <2>3
  <1> QED  BY <1>7, <1>8, <1>9 DEF s, Well

LEMMA NewWindowIsWell ==
    Well(NewWindow) /\ NewWindow.count = 0
  <1>1. 0 \in Places /\ 0 \in 0 .. Capacity
    BY LimitAssumption DEF Places, Capacity
  <1>2. NewWindow \in Windows
    BY <1>1 DEF NewWindow, Windows
  <1>3. After(0, 0) = 0
    BY <1>1, Steps
  <1> QED  BY <1>2, <1>3 DEF NewWindow, Well

-----------------------------------------------------------------------------
(* Sums of smaller logs are smaller.                                         *)

LEMMA SumOfFewer ==
    ASSUME NEW log \in Logs, NEW more \in Logs, \A t \in Times : log[t] <= more[t],
           NEW from \in 0 .. Horizon + 1, NEW to \in -1 .. Horizon, from <= to + 1
    PROVE  SumBetween(log, from, to) <= SumBetween(more, from, to)
  <1> DEFINE A(n) == SumBetween(log, from, from - 1 + n)
             B(n) == SumBetween(more, from, from - 1 + n)
             Wrong == {n \in Nat : n <= Horizon + 1 - from /\ ~(A(n) <= B(n))}
  <1>1. PICK last \in Nat : from - 1 + last = to /\ last <= Horizon + 1 - from
    <2>1. to - from + 1 \in Nat /\ from - 1 + (to - from + 1) = to /\ to - from + 1 <= Horizon + 1 - from
      BY BoundsAssumption
    <2> QED  BY <2>1
  <1>2. A(0) = 0 /\ B(0) = 0
    <2>1. from - 1 + 0 = from - 1
      BY BoundsAssumption
    <2> QED  BY <2>1, SumSteps
  <1>3. ASSUME NEW n \in Nat, n # 0, n <= Horizon + 1 - from
        PROVE  /\ A(n - 1) \in Int /\ B(n - 1) \in Int
               /\ \E t \in Times : A(n) = A(n - 1) + log[t] /\ B(n) = B(n - 1) + more[t]
    <2>1. PICK t \in Times : t = from - 1 + n
      BY <1>3, BoundsAssumption DEF Times
    <2>2. from \in 0 .. t /\ t - 1 = from - 1 + (n - 1) /\ t - 1 \in -1 .. Horizon /\ from <= t - 1 + 1
      BY <1>3, <2>1, BoundsAssumption DEF Times
    <2>3. /\ SumBetween(log, from, t) = SumBetween(log, from, t - 1) + log[t]
          /\ SumBetween(more, from, t) = SumBetween(more, from, t - 1) + more[t]
      BY <2>2, SumSteps
    <2>4. SumBetween(log, from, t - 1) \in Int /\ SumBetween(more, from, t - 1) \in Int
      BY <2>2, SumSteps
    <2> QED  BY <2>1, <2>2, <2>3, <2>4
  <1> HIDE DEF A, B
  <1>4. Wrong = {}
    <2>1. SUFFICES ASSUME NEW n \in Wrong, \A m \in Wrong : n <= m
                   PROVE  FALSE
      BY LeastNumber
    <2>2. n # 0
      BY <1>2
    <2>3. n - 1 \in Nat /\ A(n - 1) <= B(n - 1)
      BY <2>1, <2>2, BoundsAssumption
    <2>4. PICK t \in Times : A(n) = A(n - 1) + log[t] /\ B(n) = B(n - 1) + more[t]
      BY <1>3, <2>2
    <2>5. A(n - 1) \in Int /\ B(n - 1) \in Int
      BY <1>3, <2>2
    <2>6. log[t] \in Nat /\ more[t] \in Nat /\ log[t] <= more[t]
      BY DEF Logs
    <2> QED  BY <2>3, <2>4, <2>5, <2>6
  <1>5. A(last) <= B(last)
    BY <1>1, <1>4
  <1> QED  BY <1>1, <1>5 DEF A, B

LEMMA SumType ==
    ASSUME NEW log \in Logs, NEW from \in 0 .. Horizon + 1, NEW to \in -1 .. Horizon, from <= to + 1
    PROVE  SumBetween(log, from, to) \in Nat
  <1>1. Nothing \in Logs /\ \A t \in Times : Nothing[t] <= log[t]
    BY DEF Nothing, Logs
  <1>2. SumBetween(Nothing, from, to) <= SumBetween(log, from, to)
    BY <1>1, SumOfFewer
  <1>3. SumBetween(Nothing, from, to) = 0
    BY SumOfNothing
  <1>4. SumBetween(log, from, to) \in Int
    BY SumSteps
  <1> QED  BY <1>2, <1>3, <1>4

-----------------------------------------------------------------------------
(* What a window knows of the requests recorded for its client.              *)

\* `n` requests were recorded since `t`: they are the newest entries.
Matches(w, n, t) ==
    /\ n \in Nat
    /\ n <= w.count \/ w.count = Capacity
    /\ \A i \in 0 .. w.count - 1 : Entry(w, i) >= t <=> i >= w.count - n

Exact(w, log, time) ==
    /\ Well(w)
    /\ \A i \in 0 .. w.count - 1 : Entry(w, i) <= time
    /\ \A t \in 0 .. time + 1 : time - WindowMs < t => Matches(w, SumBetween(log, t, time), t)

\* The window's counters, and the type of its entries.
LEMMA WellParts ==
    ASSUME NEW w, Well(w)
    PROVE  /\ w \in Windows /\ w.count \in Nat /\ w.count \in 0 .. Capacity /\ Capacity \in Nat
           /\ Capacity = MaxRequests + 1 /\ MaxRequests \in Nat \ {0} /\ WindowMs \in Nat \ {0}
           /\ \A i \in 0 .. w.count - 1 : Entry(w, i) \in Nat
  <1>1. Capacity \in Nat /\ Capacity = MaxRequests + 1
    BY LimitAssumption DEF Capacity
  <1>2. w \in Windows /\ w.count \in 0 .. Capacity
    BY WindowParts DEF Well
  <1>3. \A i \in 0 .. w.count - 1 : i \in 0 .. Capacity
    BY <1>1, <1>2
  <1>4. \A i \in 0 .. w.count - 1 : Entry(w, i) \in Nat
    BY <1>2, <1>3, EntryIs
  <1> QED  BY <1>1, <1>2, <1>4, LimitAssumption

LEMMA SweepMatches ==
    ASSUME NEW w, Well(w), NEW time \in Nat, NEW n, NEW t \in Nat, time - WindowMs < t, Matches(w, n, t)
    PROVE  Matches(Swept(w, time), n, t)
  <1>1. PICK k : k = Skipped(w, time)
    OBVIOUS
  <1>2. PICK s : s = Swept(w, time)
    OBVIOUS
  <1>3. /\ s.count = w.count - k
        /\ \A i \in 0 .. w.count - k - 1 : Entry(s, i) = Entry(w, i + k)
    BY <1>1, <1>2, SweptEffect
  <1>4. /\ w \in Windows /\ w.count \in Nat /\ Capacity \in Nat
        /\ \A i \in 0 .. w.count - 1 : Entry(w, i) \in Nat
    BY WellParts
  <1>5. /\ k \in 0 .. w.count
        /\ \A i \in 0 .. k - 1 : Expired(Entry(w, i), time)
    BY <1>1, <1>4, SkippedExists
  <1>6. n \in Nat /\ (n <= w.count \/ w.count = Capacity) /\ \A i \in 0 .. w.count - 1 : Entry(w, i) >= t <=> i >= w.count - n
    BY DEF Matches
  <1>7. k = 0 \/ k <= w.count - n
    <2>1. SUFFICES ASSUME k # 0
                   PROVE  k <= w.count - n
      OBVIOUS
    <2>2. k - 1 \in 0 .. k - 1 /\ k - 1 \in 0 .. w.count - 1
      BY <1>4, <1>5, <2>1
    <2>3. Entry(w, k - 1) <= time - WindowMs
      BY <1>5, <2>2 DEF Expired
    <2>4. Entry(w, k - 1) \in Nat
      BY <1>4, <2>2
    <2>5. ~(Entry(w, k - 1) >= t)
      BY <2>3, <2>4, LimitAssumption
    <2>6. ~(k - 1 >= w.count - n)
      BY <1>6, <2>2, <2>5
    <2> QED  BY <1>4, <1>5, <1>6, <2>6
  <1>8. n <= s.count \/ s.count = Capacity
    BY <1>3, <1>4, <1>5, <1>6, <1>7
  <1>9. ASSUME NEW i \in 0 .. s.count - 1
        PROVE  Entry(s, i) >= t <=> i >= s.count - n
    <2>1. i + k \in 0 .. w.count - 1 /\ i \in 0 .. w.count - k - 1
      BY <1>3, <1>4, <1>5
    <2>2. Entry(s, i) = Entry(w, i + k) /\ (Entry(w, i + k) >= t <=> i + k >= w.count - n)
      BY <1>3, <1>6, <2>1
    <2>3. i + k >= w.count - n <=> i >= s.count - n
      BY <1>3, <1>4, <1>5, <1>6
    <2> QED  BY <2>2, <2>3
  <1> QED  BY <1>2, <1>6, <1>8, <1>9 DEF Matches

LEMMA SweepIsExact ==
    ASSUME NEW w, NEW log, NEW time \in Nat, Exact(w, log, time)
    PROVE  Exact(Swept(w, time), log, time)
  <1>1. Well(w)
    BY DEF Exact
  <1>2. PICK k : k = Skipped(w, time)
    OBVIOUS
  <1>3. PICK s : s = Swept(w, time)
    OBVIOUS
  <1>4. /\ Well(s) /\ s.count = w.count - k
        /\ \A i \in 0 .. w.count - k - 1 : Entry(s, i) = Entry(w, i + k)
    BY <1>1, <1>2, <1>3, SweptEffect
  <1>5. w \in Windows /\ w.count \in Nat
    BY <1>1, WellParts
  <1>6. k \in 0 .. w.count
    BY <1>2, <1>5, SkippedExists
  <1>7. ASSUME NEW i \in 0 .. s.count - 1
        PROVE  Entry(s, i) <= time
    <2>1. i + k \in 0 .. w.count - 1 /\ i \in 0 .. w.count - k - 1
      BY <1>4, <1>5, <1>6
    <2> QED  BY <1>4, <2>1 DEF Exact
  <1>8. ASSUME NEW t \in 0 .. time + 1, time - WindowMs < t
        PROVE  Matches(s, SumBetween(log, t, time), t)
    <2>1. Matches(w, SumBetween(log, t, time), t)
      BY <1>8 DEF Exact
    <2> QED  BY <1>1, <1>3, <1>8, <2>1, SweepMatches
  <1> QED  BY <1>3, <1>4, <1>7, <1>8 DEF Exact

LEMMA RecordMatches ==
    ASSUME NEW w, Well(w), NEW time \in Nat, NEW n, NEW t \in 0 .. time, Matches(w, n, t)
    PROVE  Matches(Record(w, time), n + 1, t)
  <1>1. PICK r : r = Record(w, time)
    OBVIOUS
  <1>2. n \in Nat /\ (n <= w.count \/ w.count = Capacity) /\ \A i \in 0 .. w.count - 1 : Entry(w, i) >= t <=> i >= w.count - n
    BY DEF Matches
  <1>3. /\ w.count \in Nat /\ w.count \in 0 .. Capacity /\ Capacity \in Nat /\ Capacity = MaxRequests + 1
        /\ MaxRequests \in Nat \ {0} /\ \A i \in 0 .. w.count - 1 : Entry(w, i) \in Nat
    BY WellParts
  <1>4. ASSUME w.count < Capacity
        PROVE  Matches(r, n + 1, t)
    <2>1. /\ r.count = w.count + 1
          /\ \A i \in 0 .. w.count - 1 : Entry(r, i) = Entry(w, i)
          /\ Entry(r, w.count) = time
      BY <1>1, <1>4, RecordEffect
    <2>2. ASSUME NEW i \in 0 .. r.count - 1
          PROVE  Entry(r, i) >= t <=> i >= r.count - (n + 1)
      <3>1. ASSUME i = w.count
            PROVE  Entry(r, i) >= t <=> i >= r.count - (n + 1)
        BY <1>2, <1>3, <2>1, <3>1
      <3>2. ASSUME i # w.count
            PROVE  Entry(r, i) >= t <=> i >= r.count - (n + 1)
        <4>1. i \in 0 .. w.count - 1
          BY <1>3, <2>1, <3>2
        <4>2. Entry(r, i) = Entry(w, i) /\ (Entry(w, i) >= t <=> i >= w.count - n)
          BY <1>2, <2>1, <4>1
        <4>3. i >= w.count - n <=> i >= r.count - (n + 1)
          BY <1>2, <1>3, <2>1
        <4> QED  BY <4>2, <4>3
      <3> QED  BY <3>1, <3>2
    <2>3. n + 1 \in Nat /\ n + 1 <= r.count
      BY <1>2, <1>3, <1>4, <2>1
    <2> QED  BY <2>2, <2>3 DEF Matches
  <1>5. ASSUME w.count = Capacity
        PROVE  Matches(r, n + 1, t)
    <2>1. /\ r.count = Capacity
          /\ \A i \in 0 .. MaxRequests - 1 : Entry(r, i) = Entry(w, i + 1)
          /\ Entry(r, MaxRequests) = time
      BY <1>1, <1>5, RecordEffect
    <2>2. ASSUME NEW i \in 0 .. r.count - 1
          PROVE  Entry(r, i) >= t <=> i >= r.count - (n + 1)
      <3>1. ASSUME i = MaxRequests
            PROVE  Entry(r, i) >= t <=> i >= r.count - (n + 1)
        BY <1>2, <1>3, <2>1, <3>1
      <3>2. ASSUME i # MaxRequests
            PROVE  Entry(r, i) >= t <=> i >= r.count - (n + 1)
        <4>1. i \in 0 .. MaxRequests - 1 /\ i + 1 \in 0 .. w.count - 1
          BY <1>3, <1>5, <2>1, <3>2
        <4>2. Entry(r, i) = Entry(w, i + 1) /\ (Entry(w, i + 1) >= t <=> i + 1 >= w.count - n)
          BY <1>2, <2>1, <4>1
        <4>3. i + 1 >= w.count - n <=> i >= r.count - (n + 1)
          BY <1>2, <1>3, <1>5, <2>1
        <4> QED  BY <4>2, <4>3
      <3> QED  BY <3>1, <3>2
    <2> QED  BY <1>2, <2>1, <2>2 DEF Matches
  <1> QED  BY <1>1, <1>3, <1>4, <1>5

LEMMA RecordIsExact ==
    ASSUME NEW w, NEW log \in Logs, NEW time \in Times, Exact(w, log, time)
    PROVE  Exact(Record(w, time), [log EXCEPT ![time] = @ + 1], time)
  <1>1. Well(w)
    BY DEF Exact
  <1>2. PICK r : r = Record(w, time)
    OBVIOUS
  <1>3. PICK more : more = [log EXCEPT ![time] = @ + 1]
    OBVIOUS
  <1>4. time \in Nat /\ time \in -1 .. Horizon
    BY BoundsAssumption DEF Times
  <1>5. /\ w.count \in Nat /\ w.count \in 0 .. Capacity /\ Capacity \in Nat /\ Capacity = MaxRequests + 1
        /\ MaxRequests \in Nat \ {0} /\ \A i \in 0 .. w.count - 1 : Entry(w, i) \in Nat
    BY <1>1, WellParts
  <1>6. Well(r)
    BY <1>1, <1>2, <1>4, RecordEffect
  <1>7. ASSUME NEW i \in 0 .. r.count - 1
        PROVE  Entry(r, i) <= time
    <2>1. ASSUME w.count < Capacity
          PROVE  Entry(r, i) <= time
      <3>1. /\ r.count = w.count + 1
            /\ \A j \in 0 .. w.count - 1 : Entry(r, j) = Entry(w, j)
            /\ Entry(r, w.count) = time
        BY <1>1, <1>2, <1>4, <2>1, RecordEffect
      <3>2. i = w.count \/ i \in 0 .. w.count - 1
        BY <1>5, <3>1
      <3>3. \A j \in 0 .. w.count - 1 : Entry(w, j) <= time
        BY DEF Exact
      <3> QED  BY <1>4, <3>1, <3>2, <3>3
    <2>2. ASSUME w.count = Capacity
          PROVE  Entry(r, i) <= time
      <3>1. /\ r.count = Capacity
            /\ \A j \in 0 .. MaxRequests - 1 : Entry(r, j) = Entry(w, j + 1)
            /\ Entry(r, MaxRequests) = time
        BY <1>1, <1>2, <1>4, <2>2, RecordEffect
      <3>2. i = MaxRequests \/ (i \in 0 .. MaxRequests - 1 /\ i + 1 \in 0 .. w.count - 1)
        BY <1>5, <2>2, <3>1
      <3>3. \A j \in 0 .. w.count - 1 : Entry(w, j) <= time
        BY DEF Exact
      <3> QED  BY <1>4, <3>1, <3>2, <3>3
    <2> QED  BY <1>5, <2>1, <2>2
  <1>8. ASSUME NEW t \in 0 .. time + 1, time - WindowMs < t
        PROVE  Matches(r, SumBetween(more, t, time), t)
    <2>1. t \in 0 .. Horizon + 1 /\ t <= time + 1 /\ t \in Int
      BY <1>4, BoundsAssumption DEF Times
    <2>2. SumBetween(more, t, time) = SumBetween(log, t, time) + (IF t <= time /\ time <= time THEN 1 ELSE 0)
      BY <1>3, <1>4, <2>1, SumOfOneMore
    <2>3. ASSUME t <= time
          PROVE  Matches(r, SumBetween(more, t, time), t)
      <3>1. SumBetween(more, t, time) = SumBetween(log, t, time) + 1 /\ t \in 0 .. time
        BY <1>4, <2>1, <2>2, <2>3
      <3>2. Matches(w, SumBetween(log, t, time), t)
        BY <1>8 DEF Exact
      <3>3. Matches(r, SumBetween(log, t, time) + 1, t)
        BY <1>1, <1>2, <1>4, <3>1, <3>2, RecordMatches
      <3> QED  BY <3>1, <3>3
    <2>4. ASSUME t = time + 1
          PROVE  Matches(r, SumBetween(more, t, time), t)
      <3>1. t - 1 = time /\ SumBetween(log, t, t - 1) = 0
        BY <1>4, <2>1, <2>4, SumSteps
      <3>2. SumBetween(more, t, time) = 0
        BY <1>4, <2>2, <2>4, <3>1
      <3>3. r.count \in Nat /\ \A i \in 0 .. r.count - 1 : Entry(r, i) \in Nat
        BY <1>6, WellParts
      <3>4. \A i \in 0 .. r.count - 1 : Entry(r, i) >= t <=> i >= r.count - 0
        BY <1>4, <1>7, <2>4, <3>3
      <3> QED  BY <3>2, <3>3, <3>4 DEF Matches
    <2> QED  BY <1>4, <2>1, <2>3, <2>4
  <1> QED  BY <1>2, <1>3, <1>6, <1>7, <1>8 DEF Exact

\* An empty window knows that nothing was recorded in its time.
LEMMA NewIsExact ==
    ASSUME NEW w, NEW log, NEW time \in Nat, Exact(w, log, time), w.count = 0
    PROVE  Exact(NewWindow, log, time)
  <1>1. Well(NewWindow) /\ NewWindow.count = 0
    BY NewWindowIsWell
  <1>2. Capacity # 0
    BY LimitAssumption DEF Capacity
  <1>3. ASSUME NEW t \in 0 .. time + 1, time - WindowMs < t
        PROVE  Matches(NewWindow, SumBetween(log, t, time), t)
    <2>1. Matches(w, SumBetween(log, t, time), t)
      BY <1>3 DEF Exact
    <2> QED  BY <1>1, <1>2, <2>1 DEF Matches
  <1>4. \A i \in 0 .. NewWindow.count - 1 : Entry(NewWindow, i) <= time
    BY <1>1
  <1> QED  BY <1>1, <1>3, <1>4 DEF Exact

LEMMA FreshIsExact ==
    ASSUME NEW time \in Times
    PROVE  Exact(NewWindow, Nothing, time)
  <1>1. Well(NewWindow) /\ NewWindow.count = 0
    BY NewWindowIsWell
  <1>2. ASSUME NEW t \in 0 .. time + 1
        PROVE  Matches(NewWindow, SumBetween(Nothing, t, time), t)
    <2>1. t \in 0 .. Horizon + 1 /\ time \in -1 .. Horizon /\ t <= time + 1
      BY BoundsAssumption DEF Times
    <2>2. SumBetween(Nothing, t, time) = 0
      BY <2>1, SumOfNothing
    <2> QED  BY <1>1, <2>2 DEF Matches
  <1>3. \A i \in 0 .. NewWindow.count - 1 : Entry(NewWindow, i) <= time
    BY <1>1
  <1> QED  BY <1>1, <1>2, <1>3 DEF Exact

\* As long as nothing is recorded ahead of the clock, the clock may advance.
LEMMA TickIsExact ==
    ASSUME NEW w, NEW log \in Logs, NEW time \in Times, time < Horizon,
           Exact(w, log, time), log[time + 1] = 0
    PROVE  Exact(w, log, time + 1)
  <1>1. Well(w)
    BY DEF Exact
  <1>2. PICK next \in Times : next = time + 1 /\ next - 1 = time /\ time \in Nat /\ next \in Nat
    BY BoundsAssumption DEF Times
  <1>3. /\ w.count \in Nat
        /\ \A i \in 0 .. w.count - 1 : Entry(w, i) \in Nat /\ Entry(w, i) <= time
    BY <1>1, WellParts DEF Exact
  <1>4. \A i \in 0 .. w.count - 1 : Entry(w, i) <= next
    BY <1>2, <1>3
  <1>5. ASSUME NEW t \in 0 .. next + 1, next - WindowMs < t
        PROVE  Matches(w, SumBetween(log, t, next), t)
    <2>1. ASSUME t <= next
          PROVE  Matches(w, SumBetween(log, t, next), t)
      <3>1. t \in 0 .. next /\ t \in 0 .. time + 1 /\ time - WindowMs < t
        BY <1>2, <1>5, <2>1, LimitAssumption
      <3>2. SumBetween(log, t, next) = SumBetween(log, t, time) + log[next]
        BY <1>2, <3>1, SumSteps
      <3>3. t \in 0 .. Horizon + 1 /\ time \in -1 .. Horizon /\ t <= time + 1
        BY <1>2, <3>1, BoundsAssumption DEF Times
      <3>4. SumBetween(log, t, time) \in Nat
        BY <3>3, SumType
      <3>5. SumBetween(log, t, next) = SumBetween(log, t, time)
        BY <1>2, <3>2, <3>4
      <3> QED  BY <3>1, <3>5 DEF Exact
    <2>2. ASSUME t = next + 1
          PROVE  Matches(w, SumBetween(log, t, next), t)
      <3>1. t \in 0 .. Horizon + 1 /\ t - 1 = next
        BY <1>2, <2>2, BoundsAssumption DEF Times
      <3>2. SumBetween(log, t, next) = 0
        BY <3>1, SumSteps
      <3>3. \A i \in 0 .. w.count - 1 : Entry(w, i) >= t <=> i >= w.count - 0
        BY <1>2, <1>3, <2>2
      <3> QED  BY <1>3, <3>2, <3>3 DEF Matches
    <2> QED  BY <1>2, <2>1, <2>2
  <1> QED  BY <1>1, <1>2, <1>4, <1>5 DEF Exact

\* The times of the window that ends at `time`.
Start(time) == IF time >= WindowMs THEN time - WindowMs + 1 ELSE 0

LEMMA StartType ==
    ASSUME NEW time \in Times
    PROVE  /\ Start(time) \in 0 .. time /\ Start(time) \in 0 .. Horizon + 1 /\ time - WindowMs < Start(time)
           /\ time \in -1 .. Horizon /\ Start(time) <= time + 1
           /\ \A log : InWindow(log, time) = SumBetween(log, Start(time), time)
  <1>1. /\ Start(time) \in 0 .. time /\ Start(time) \in 0 .. Horizon + 1 /\ time - WindowMs < Start(time)
        /\ time \in -1 .. Horizon /\ Start(time) <= time + 1
    BY LimitAssumption, BoundsAssumption DEF Start, Times
  <1>2. \A log : InWindow(log, time) = SumBetween(log, Start(time), time)
    BY DEF InWindow, Start
  <1> QED  BY <1>1, <1>2

\* Once swept, an exact window counts the requests, up to its capacity.
LEMMA SweptCount ==
    ASSUME NEW w, NEW log, NEW time \in Times, Exact(w, log, time)
    PROVE  /\ InWindow(log, time) \in Nat
           /\ Swept(w, time).count = IF InWindow(log, time) <= Capacity THEN InWindow(log, time) ELSE Capacity
  <1>1. PICK s : s = Swept(w, time)
    OBVIOUS
  <1>2. PICK n : n = InWindow(log, time) /\ n = SumBetween(log, Start(time), time)
    BY StartType
  <1>3. time \in Nat
    BY BoundsAssumption DEF Times
  <1>4. Exact(s, log, time)
    BY <1>1, <1>3, SweepIsExact
  <1>5. Matches(s, n, Start(time))
    <2>1. Start(time) \in 0 .. time + 1 /\ time - WindowMs < Start(time)
      BY <1>3, StartType
    <2> QED  BY <1>2, <1>4, <2>1 DEF Exact
  <1>6. Well(w) /\ Well(s)
    BY <1>4 DEF Exact
  <1>7. /\ s.count \in Nat /\ s.count \in 0 .. Capacity /\ Capacity \in Nat /\ Capacity # 0
        /\ w \in Windows /\ w.count \in Nat /\ WindowMs \in Nat /\ \A i \in 0 .. w.count - 1 : Entry(w, i) \in Nat
    BY <1>6, WellParts
  <1>8. n \in Nat /\ (n <= s.count \/ s.count = Capacity) /\ \A i \in 0 .. s.count - 1 : Entry(s, i) >= Start(time) <=> i >= s.count - n
    BY <1>5 DEF Matches
  <1>9. s.count <= n
    <2>1. SUFFICES ASSUME s.count # 0
                   PROVE  s.count <= n
      BY <1>8
    <2>2. PICK k \in 0 .. w.count : k = Skipped(w, time) /\ (k < w.count => ~Expired(Entry(w, k), time))
      BY <1>3, <1>7, SkippedExists
    <2>3. s.count = w.count - k /\ \A i \in 0 .. w.count - k - 1 : Entry(s, i) = Entry(w, i + k)
      <3>1. k = Skipped(w, time) /\ time \in Int
        BY <1>3, <2>2
      <3>2. /\ Swept(w, time).count = w.count - k
            /\ \A i \in 0 .. w.count - k - 1 : Entry(Swept(w, time), i) = Entry(w, i + k)
        BY <1>6, <3>1, SweptEffect
      <3> QED  BY <1>1, <3>2
    <2>4. 0 \in 0 .. s.count - 1 /\ 0 \in 0 .. w.count - k - 1 /\ 0 + k = k /\ k < w.count /\ k \in 0 .. w.count - 1
      BY <1>7, <2>1, <2>3
    <2>5. Entry(s, 0) = Entry(w, k) /\ ~(Entry(w, k) <= time - WindowMs) /\ Entry(w, k) \in Nat
      BY <1>7, <2>2, <2>3, <2>4 DEF Expired
    <2>6. Entry(s, 0) >= Start(time)
      BY <1>3, <1>7, <2>5 DEF Start
    <2>7. 0 >= s.count - n
      BY <1>8, <2>4, <2>6
    <2> QED  BY <1>7, <1>8, <2>7
  <1> QED  BY <1>1, <1>2, <1>7, <1>8, <1>9

-----------------------------------------------------------------------------
(* The invariant of a client, and what each operation does to it.            *)

Follows(w, rec, gra, time) ==
    /\ Exact(w, rec, time)
    /\ \A t \in Times : gra[t] <= rec[t] /\ (t > time => rec[t] = 0)
    /\ \A t \in 0 .. time : InWindow(gra, t) <= MaxRequests

LEMMA SweepFollows ==
    ASSUME NEW w, NEW rec, NEW gra, NEW time \in Times, Follows(w, rec, gra, time)
    PROVE  Follows(Swept(w, time), rec, gra, time)
  <1>1. time \in Nat
    BY BoundsAssumption DEF Times
  <1> QED  BY <1>1, SweepIsExact DEF Follows

LEMMA FreshFollows ==
    ASSUME NEW time \in Times
    PROVE  Follows(NewWindow, Nothing, Nothing, time)
  <1>1. \A t \in Times : Nothing[t] = 0
    BY DEF Nothing
  <1>2. ASSUME NEW t \in 0 .. time
        PROVE  InWindow(Nothing, t) <= MaxRequests
    <2>1. t \in Times
      BY BoundsAssumption DEF Times
    <2>2. InWindow(Nothing, t) = 0
      BY <2>1, StartType, SumOfNothing
    <2> QED  BY <2>2, LimitAssumption
  <1>3. \A t \in Times : Nothing[t] <= Nothing[t]
    BY <1>1
  <1> QED  BY <1>1, <1>2, <1>3, FreshIsExact DEF Follows

\* recordRequest, allowed or not; the limit is only about what was allowed.
LEMMA RecordFollows ==
    ASSUME NEW w, NEW rec \in Logs, NEW gra \in Logs, NEW time \in Times, Follows(w, rec, gra, time)
    PROVE  Follows(Swept(Record(w, time), time), [rec EXCEPT ![time] = @ + 1], gra, time)
  <1>1. PICK more : more = [rec EXCEPT ![time] = @ + 1]
    OBVIOUS
  <1>2. /\ Exact(w, rec, time)
        /\ \A t \in Times : gra[t] <= rec[t] /\ (t > time => rec[t] = 0)
        /\ \A t \in 0 .. time : InWindow(gra, t) <= MaxRequests
    BY DEF Follows
  <1>3. time \in Nat
    BY BoundsAssumption DEF Times
  <1>4. Exact(Swept(Record(w, time), time), more, time)
    BY <1>1, <1>2, <1>3, RecordIsExact, SweepIsExact
  <1>5. ASSUME NEW t \in Times
        PROVE  gra[t] <= more[t] /\ (t > time => more[t] = 0)
    <2>1. gra[t] \in Nat /\ rec[t] \in Nat /\ more[t] = IF t = time THEN rec[t] + 1 ELSE rec[t]
      BY <1>1 DEF Logs
    <2> QED  BY <1>2, <1>3, <2>1
  <1> QED  BY <1>1, <1>2, <1>4, <1>5 DEF Follows

\* A request that is allowed leaves every window within the limit.
LEMMA GrantFollows ==
    ASSUME NEW w, NEW rec \in Logs, NEW gra \in Logs, NEW time \in Times, Follows(w, rec, gra, time),
           Swept(w, time).count < MaxRequests
    PROVE  Follows(Swept(Record(Swept(w, time), time), time),
                   [rec EXCEPT ![time] = @ + 1], [gra EXCEPT ![time] = @ + 1], time)
  <1>1. PICK more, mine : more = [rec EXCEPT ![time] = @ + 1] /\ mine = [gra EXCEPT ![time] = @ + 1]
    OBVIOUS
  <1>2. /\ Exact(w, rec, time)
        /\ \A t \in Times : gra[t] <= rec[t] /\ (t > time => rec[t] = 0)
        /\ \A t \in 0 .. time : InWindow(gra, t) <= MaxRequests
    BY DEF Follows
  <1>3. time \in Nat
    BY BoundsAssumption DEF Times
  <1>4. Exact(Swept(Record(Swept(w, time), time), time), more, time)
    BY <1>1, <1>2, <1>3, RecordIsExact, SweepIsExact
  <1>5. ASSUME NEW t \in Times
        PROVE  mine[t] <= more[t] /\ (t > time => more[t] = 0)
    <2>1. /\ gra[t] \in Nat /\ rec[t] \in Nat /\ more[t] = IF t = time THEN rec[t] + 1 ELSE rec[t]
          /\ mine[t] = IF t = time THEN gra[t] + 1 ELSE gra[t]
      BY <1>1 DEF Logs
    <2> QED  BY <1>2, <1>3, <2>1
  <1>6. ASSUME NEW t \in 0 .. time
        PROVE  InWindow(mine, t) <= MaxRequests
    <2>1. t \in Times /\ t \in Int
      BY BoundsAssumption DEF Times
    <2>2. InWindow(mine, t) = InWindow(gra, t) + (IF Start(t) <= time /\ time <= t THEN 1 ELSE 0)
      <3>1. /\ Start(t) \in 0 .. Horizon + 1 /\ t \in -1 .. Horizon /\ Start(t) <= t + 1
            /\ InWindow(mine, t) = SumBetween(mine, Start(t), t)
            /\ InWindow(gra, t) = SumBetween(gra, Start(t), t)
        BY <2>1, StartType
      <3>2. SumBetween([gra EXCEPT ![time] = @ + 1], Start(t), t) =
              SumBetween(gra, Start(t), t) + (IF Start(t) <= time /\ time <= t THEN 1 ELSE 0)
        BY <3>1, SumOfOneMore
      <3> QED  BY <1>1, <3>1, <3>2
    <2>3. InWindow(gra, t) \in Nat
      BY <2>1, StartType, SumType
    <2>4. ASSUME t < time
          PROVE  InWindow(mine, t) <= MaxRequests
      BY <1>2, <1>3, <2>1, <2>2, <2>3, <2>4
    <2>5. ASSUME t = time
          PROVE  InWindow(mine, t) <= MaxRequests
      <3>1. InWindow(gra, time) <= InWindow(rec, time)
        BY <1>2, StartType, SumOfFewer
      <3>2. InWindow(rec, time) \in Nat /\ InWindow(rec, time) < MaxRequests
        BY <1>2, SweptCount, LimitAssumption DEF Capacity
      <3>3. Start(time) <= time
        BY <1>3, StartType
      <3> QED  BY <1>3, <2>2, <2>3, <2>5, <3>1, <3>2, <3>3, LimitAssumption
    <2> QED  BY <1>3, <2>1, <2>4, <2>5
  <1> QED  BY <1>1, <1>4, <1>5, <1>6 DEF Follows

\* cleanupOldEntries: an empty window may go.
LEMMA CleanupFollows ==
    ASSUME NEW w, NEW rec, NEW gra, NEW time \in Times, Follows(w, rec, gra, time), Swept(w, time).count = 0
    PROVE  Follows(NewWindow, rec, gra, time)
  <1>1. time \in Nat
    BY BoundsAssumption DEF Times
  <1>2. Exact(NewWindow, rec, time)
    BY <1>1, SweepIsExact, NewIsExact DEF Follows
  <1> QED  BY <1>2 DEF Follows

LEMMA TickFollows ==
    ASSUME NEW w, NEW rec \in Logs, NEW gra \in Logs, NEW time \in Times, time < Horizon, Follows(w, rec, gra, time)
    PROVE  Follows(w, rec, gra, time + 1)
  <1>1. PICK next \in Times : next = time + 1 /\ next - 1 = time /\ time \in Nat /\ next \in Nat
    BY BoundsAssumption DEF Times
  <1>2. /\ Exact(w, rec, time)
        /\ \A t \in Times : gra[t] <= rec[t] /\ (t > time => rec[t] = 0)
        /\ \A t \in 0 .. time : InWindow(gra, t) <= MaxRequests
    BY DEF Follows
  <1>3. rec[next] = 0 /\ gra[next] = 0
    <2>1. gra[next] \in Nat /\ next > time
      BY <1>1 DEF Logs
    <2>2. rec[next] = 0 /\ gra[next] <= rec[next]
      BY <1>2, <2>1
    <2> QED  BY <2>1, <2>2
  <1>4. Exact(w, rec, next)
    BY <1>1, <1>2, <1>3, TickIsExact
  <1>5. \A t \in Times : gra[t] <= rec[t] /\ (t > next => rec[t] = 0)
    <2>1. \A t \in Times : t \in Nat
      BY DEF Times
    <2> QED  BY <1>1, <1>2, <2>1
  <1>6. InWindow(gra, next) <= MaxRequests
    <2>1. /\ Start(next) \in 0 .. next /\ Start(next) \in 0 .. Horizon + 1
          /\ Start(time) \in 0 .. time /\ time \in -1 .. Horizon
      BY <1>1, StartType
    <2>2. InWindow(gra, next) = SumBetween(gra, Start(next), time) + gra[next]
      BY <1>1, <2>1, StartType, SumSteps
    <2>3. SumBetween(gra, Start(next), time) \in Nat
      BY <1>1, <2>1, SumType
    <2>4. InWindow(gra, next) = SumBetween(gra, Start(next), time)
      BY <1>3, <2>2, <2>3
    <2>5. InWindow(gra, time) = SumBetween(gra, Start(time), time) /\ InWindow(gra, time) <= MaxRequests
      BY <1>1, <1>2, StartType
    <2>6. Start(next) = Start(time) \/ Start(next) = Start(time) + 1
      BY <1>1, LimitAssumption DEF Start
    <2>7. ASSUME Start(next) = Start(time) + 1
          PROVE  InWindow(gra, next) <= MaxRequests
      <3>1. SumBetween(gra, Start(time), time) = gra[Start(time)] + SumBetween(gra, Start(time) + 1, time)
        BY <2>1, SumSteps
      <3>2. gra[Start(time)] \in Nat
        BY <1>1, <2>1, BoundsAssumption DEF Logs, Times
      <3> QED  BY <2>3, <2>4, <2>5, <2>7, <3>1, <3>2, LimitAssumption
    <2> QED  BY <2>4, <2>5, <2>6, <2>7
  <1>7. \A t \in 0 .. next : InWindow(gra, t) <= MaxRequests
    <2>1. \A t \in 0 .. next : t = next \/ t \in 0 .. time
      BY <1>1
    <2> QED  BY <1>2, <1>6, <2>1
  <1> QED  BY <1>1, <1>4, <1>5, <1>7 DEF Follows

-----------------------------------------------------------------------------
(* The service.                                                              *)

RInv ==
    /\ TypeOK
    /\ \A c \in Clients : Follows(window[c], recorded[c], granted[c], now)

LEMMA ClientTypes ==
    ASSUME TypeOK, NEW c \in Clients
    PROVE  /\ now \in Times /\ now \in Nat
           /\ window[c] \in Windows /\ recorded[c] \in Logs /\ granted[c] \in Logs
           /\ \A t \in Times : recorded[c][t] \in 0 .. MaxPerInstant /\ granted[c][t] \in 0 .. MaxPerInstant
  <1>1. \A n \in 0 .. MaxPerInstant : n \in Nat
    BY BoundsAssumption
  <1>2. now \in Nat
    BY BoundsAssumption DEF TypeOK, Times
  <1>3. recorded[c] \in [Times -> 0 .. MaxPerInstant] /\ granted[c] \in [Times -> 0 .. MaxPerInstant]
    BY DEF TypeOK
  <1> QED  BY <1>1, <1>2, <1>3 DEF TypeOK, Logs

\* A swept window has the type of a window, and so has one with one more entry.
LEMMA WindowTypes ==
    ASSUME NEW w, Well(w), NEW time \in Nat
    PROVE  /\ Swept(w, time) \in Windows /\ Well(Swept(w, time))
           /\ Swept(Record(w, time), time) \in Windows
  <1>1. Well(Swept(w, time))
    <2>1. PICK k : k = Skipped(w, time)
      OBVIOUS
    <2> QED  BY <2>1, SweptEffect
  <1>2. Well(Swept(Record(w, time), time))
    <2>1. PICK r : r = Record(w, time) /\ Well(r)
      BY RecordEffect
    <2>2. PICK k : k = Skipped(r, time)
      OBVIOUS
    <2> QED  BY <2>1, <2>2, SweptEffect
  <1> QED  BY <1>1, <1>2 DEF Well

LEMMA InitRInv == Init => RInv
  <1> SUFFICES ASSUME Init
               PROVE  RInv
    OBVIOUS
  <1>1. 0 \in Times /\ 0 \in 0 .. MaxPerInstant
    BY BoundsAssumption DEF Times
  <1>2. NewWindow \in Windows
    BY NewWindowIsWell DEF Well
  <1>3. Nothing \in [Times -> 0 .. MaxPerInstant]
    BY <1>1 DEF Nothing
  <1>4. TypeOK
    BY <1>1, <1>2, <1>3 DEF Init, TypeOK
  <1>5. \A c \in Clients : Follows(window[c], recorded[c], granted[c], now)
    BY <1>1, FreshFollows DEF Init
  <1> QED  BY <1>4, <1>5 DEF RInv

\* What the operations do to the window of the client they are about.
LEMMA SweepStep ==
    ASSUME RInv, NEW c \in Clients, tracked' \in SUBSET Clients, tracked \subseteq tracked', c \in tracked',
           window' = [window EXCEPT ![c] = Swept(@, now)],
           UNCHANGED <<now, up, recorded, granted>>
    PROVE  RInv'
  <1>1. TypeOK /\ \A d \in Clients : Follows(window[d], recorded[d], granted[d], now)
    BY DEF RInv
  <1>2. now \in Times /\ now \in Nat /\ Well(window[c])
    BY <1>1, ClientTypes DEF Follows, Exact
  <1>3. PICK s \in Windows : s = Swept(window[c], now)
    BY <1>2, WindowTypes
  <1>4. \A d \in Clients : window'[d] = IF d = c THEN s ELSE window[d]
    BY <1>1, <1>3 DEF TypeOK
  <1>5. window' \in [Clients -> Windows]
    BY <1>1, <1>3 DEF TypeOK
  <1>6. \A d \in Clients \ tracked' : window'[d] = NewWindow
    BY <1>1, <1>4 DEF TypeOK
  <1>7. TypeOK'
    BY <1>1, <1>5, <1>6 DEF TypeOK
  <1>8. Follows(s, recorded[c], granted[c], now)
    BY <1>1, <1>2, <1>3, SweepFollows
  <1>9. \A d \in Clients : Follows(window'[d], recorded'[d], granted'[d], now')
    BY <1>1, <1>4, <1>8
  <1> QED  BY <1>7, <1>9 DEF RInv

LEMMA RecordTypes ==
    ASSUME NEW log \in [Clients -> [Times -> 0 .. MaxPerInstant]], NEW c \in Clients, NEW t \in Times,
           log[c][t] < MaxPerInstant
    PROVE  /\ [log EXCEPT ![c][t] = @ + 1] \in [Clients -> [Times -> 0 .. MaxPerInstant]]
           /\ \A d \in Clients : [log EXCEPT ![c][t] = @ + 1][d] = IF d = c THEN [log[c] EXCEPT ![t] = @ + 1] ELSE log[d]
  <1>1. log[c] \in [Times -> 0 .. MaxPerInstant] /\ log[c][t] + 1 \in 0 .. MaxPerInstant
    BY BoundsAssumption
  <1>2. [log[c] EXCEPT ![t] = @ + 1] \in [Times -> 0 .. MaxPerInstant]
    BY <1>1
  <1>3. PICK more : more = [log[c] EXCEPT ![t] = @ + 1]
    OBVIOUS
  <1>4. [log EXCEPT ![c][t] = @ + 1] = [log EXCEPT ![c] = more]
    BY <1>3
  <1> QED  BY <1>2, <1>3, <1>4

LEMMA RecordStep ==
    ASSUME RInv, NEW c \in Clients, RecordRequest(c)
    PROVE  RInv'
  <1>1. TypeOK /\ \A d \in Clients : Follows(window[d], recorded[d], granted[d], now)
    BY DEF RInv
  <1>2. /\ now \in Times /\ now \in Nat /\ Well(window[c]) /\ recorded[c] \in Logs /\ granted[c] \in Logs
    BY <1>1, ClientTypes DEF Follows, Exact
  <1>3. PICK s \in Windows : s = Swept(Record(window[c], now), now)
    BY <1>2, WindowTypes
  <1>4. PICK more : more = [recorded[c] EXCEPT ![now] = @ + 1]
    OBVIOUS
  <1>5. \A d \in Clients : window'[d] = IF d = c THEN s ELSE window[d]
    BY <1>1, <1>3 DEF TypeOK, RecordRequest, Recorded
  <1>6. window' \in [Clients -> Windows]
    BY <1>1, <1>3 DEF TypeOK, RecordRequest, Recorded
  <1>7. /\ recorded' \in [Clients -> [Times -> 0 .. MaxPerInstant]]
        /\ \A d \in Clients : recorded'[d] = IF d = c THEN more ELSE recorded[d]
    BY <1>1, <1>2, <1>4, RecordTypes DEF TypeOK, RecordRequest
  <1>8. TypeOK'
    BY <1>1, <1>5, <1>6, <1>7 DEF TypeOK, RecordRequest
  <1>9. Follows(s, more, granted[c], now)
    BY <1>1, <1>2, <1>3, <1>4, RecordFollows
  <1>10. \A d \in Clients : Follows(window'[d], recorded'[d], granted'[d], now')
    <2>1. now' = now /\ granted' = granted
      BY DEF RecordRequest
    <2> QED  BY <1>1, <1>5, <1>7, <1>9, <2>1
  <1> QED  BY <1>8, <1>10 DEF RInv

LEMMA GrantStep ==
    ASSUME RInv, NEW c \in Clients, Allowed(c), Consume(c)
    PROVE  RInv'
  <1>1. TypeOK /\ \A d \in Clients : Follows(window[d], recorded[d], granted[d], now)
    BY DEF RInv
  <1>2. /\ now \in Times /\ now \in Nat /\ Well(window[c]) /\ recorded[c] \in Logs /\ granted[c] \in Logs
        /\ recorded[c][now] \in 0 .. MaxPerInstant /\ granted[c][now] \in 0 .. MaxPerInstant
        /\ granted[c][now] <= recorded[c][now]
    BY <1>1, ClientTypes DEF Follows, Exact
  <1>3. PICK s \in Windows : s = Swept(Record(Swept(window[c], now), now), now)
    BY <1>2, WindowTypes
  <1>4. PICK more, mine : more = [recorded[c] EXCEPT ![now] = @ + 1] /\ mine = [granted[c] EXCEPT ![now] = @ + 1]
    OBVIOUS
  <1>5. /\ recorded[c][now] < MaxPerInstant
        /\ tracked' = tracked \cup {c}
        /\ window' = [window EXCEPT ![c] = s]
        /\ recorded' = [recorded EXCEPT ![c][now] = @ + 1]
        /\ granted' = [granted EXCEPT ![c][now] = @ + 1]
        /\ UNCHANGED <<now, up>>
    BY <1>3 DEF Consume, Recorded
  <1>6. granted[c][now] < MaxPerInstant
    BY <1>2, <1>5, BoundsAssumption
  <1>7. window' \in [Clients -> Windows] /\ \A d \in Clients : window'[d] = IF d = c THEN s ELSE window[d]
    BY <1>1, <1>3, <1>5 DEF TypeOK
  <1>8. /\ recorded' \in [Clients -> [Times -> 0 .. MaxPerInstant]]
        /\ \A d \in Clients : recorded'[d] = IF d = c THEN more ELSE recorded[d]
    BY <1>1, <1>2, <1>4, <1>5, RecordTypes DEF TypeOK
  <1>9. /\ granted' \in [Clients -> [Times -> 0 .. MaxPerInstant]]
        /\ \A d \in Clients : granted'[d] = IF d = c THEN mine ELSE granted[d]
    BY <1>1, <1>2, <1>4, <1>5, <1>6, RecordTypes DEF TypeOK
  <1>10. TypeOK'
    BY <1>1, <1>5, <1>7, <1>8, <1>9 DEF TypeOK
  <1>11. Follows(s, more, mine, now)
    BY <1>1, <1>2, <1>3, <1>4, GrantFollows DEF Allowed
  <1>12. \A d \in Clients : Follows(window'[d], recorded'[d], granted'[d], now')
    BY <1>1, <1>5, <1>7, <1>8, <1>9, <1>11
  <1> QED  BY <1>10, <1>12 DEF RInv

LEMMA ForgetStep ==
    ASSUME RInv, NEW gone \in SUBSET Clients, Forget(gone), up' \in BOOLEAN
    PROVE  RInv'
  <1>1. TypeOK /\ \A d \in Clients : Follows(window[d], recorded[d], granted[d], now)
    BY DEF RInv
  <1>2. 0 \in 0 .. MaxPerInstant /\ now \in Times
    BY <1>1, BoundsAssumption DEF TypeOK
  <1>3. NewWindow \in Windows /\ Nothing \in [Times -> 0 .. MaxPerInstant]
    BY <1>2, NewWindowIsWell DEF Well, Nothing
  <1>4. /\ window' = [c \in Clients |-> IF c \in gone THEN NewWindow ELSE window[c]]
        /\ recorded' = [c \in Clients |-> IF c \in gone THEN Nothing ELSE recorded[c]]
        /\ granted' = [c \in Clients |-> IF c \in gone THEN Nothing ELSE granted[c]]
        /\ tracked' = tracked \ gone /\ now' = now
    BY DEF Forget
  <1>5. TypeOK'
    BY <1>1, <1>3, <1>4 DEF TypeOK
  <1>6. \A d \in Clients : Follows(window'[d], recorded'[d], granted'[d], now')
    BY <1>1, <1>2, <1>4, FreshFollows
  <1> QED  BY <1>5, <1>6 DEF RInv

LEMMA CleanupStep ==
    ASSUME RInv, CleanupOldEntries
    PROVE  RInv'
  <1>1. TypeOK /\ \A d \in Clients : Follows(window[d], recorded[d], granted[d], now)
    BY DEF RInv
  <1>2. NewWindow \in Windows
    BY NewWindowIsWell DEF Well
  <1>3. /\ tracked' = {c \in tracked : ~Empty(c)}
        /\ window' = [c \in Clients |-> IF c \in tracked' THEN Swept(window[c], now) ELSE NewWindow]
        /\ UNCHANGED <<now, up, recorded, granted>>
    BY DEF CleanupOldEntries
  <1>4. ASSUME NEW c \in Clients
        PROVE  /\ Swept(window[c], now) \in Windows
               /\ Follows(window'[c], recorded[c], granted[c], now)
    <2>1. now \in Times /\ now \in Nat /\ Well(window[c])
      BY <1>1, ClientTypes DEF Follows, Exact
    <2>2. Swept(window[c], now) \in Windows
      BY <2>1, WindowTypes
    <2>3. window'[c] = IF c \in tracked' THEN Swept(window[c], now) ELSE NewWindow
      BY <1>3
    <2>4. ASSUME c \in tracked'
          PROVE  Follows(window'[c], recorded[c], granted[c], now)
      BY <1>1, <2>1, <2>3, <2>4, SweepFollows
    <2>5. ASSUME c \notin tracked
          PROVE  Follows(window'[c], recorded[c], granted[c], now)
      <3>1. window[c] = NewWindow /\ window'[c] = NewWindow
        BY <1>1, <1>3, <2>3, <2>5 DEF TypeOK
      <3> QED  BY <1>1, <3>1
    <2>6. ASSUME c \in tracked, c \notin tracked'
          PROVE  Follows(window'[c], recorded[c], granted[c], now)
      <3>1. Swept(window[c], now).count = 0
        BY <1>3, <2>6 DEF Empty
      <3> QED  BY <1>1, <2>1, <2>3, <2>6, <3>1, CleanupFollows
    <2> QED  BY <2>2, <2>4, <2>5, <2>6
  <1>5. window' \in [Clients -> Windows]
    BY <1>2, <1>3, <1>4
  <1>6. \A c \in Clients \ tracked' : window'[c] = NewWindow
    BY <1>3
  <1>7. TypeOK'
    BY <1>1, <1>3, <1>5, <1>6 DEF TypeOK
  <1> QED  BY <1>3, <1>4, <1>7 DEF RInv

LEMMA TickStep ==
    ASSUME RInv, Tick
    PROVE  RInv'
  <1>1. TypeOK /\ \A d \in Clients : Follows(window[d], recorded[d], granted[d], now)
    BY DEF RInv
  <1>2. now \in Times /\ now < Horizon /\ now' = now + 1 /\ UNCHANGED <<tracked, window, up, recorded, granted>>
    BY <1>1 DEF Tick, TypeOK
  <1>3. now' \in Times
    BY <1>2, BoundsAssumption DEF Times
  <1>4. TypeOK'
    BY <1>1, <1>2, <1>3 DEF TypeOK
  <1>5. ASSUME NEW d \in Clients
        PROVE  Follows(window[d], recorded[d], granted[d], now + 1)
    <2>1. recorded[d] \in Logs /\ granted[d] \in Logs
      BY <1>1, ClientTypes
    <2> QED  BY <1>1, <1>2, <2>1, TickFollows
  <1> QED  BY <1>2, <1>4, <1>5 DEF RInv

LEMMA NextRInv == RInv /\ [Next]_vars => RInv'
  <1> SUFFICES ASSUME RInv, [Next]_vars
               PROVE  RInv'
    OBVIOUS
  <1>1. tracked \in SUBSET Clients /\ up \in BOOLEAN
    BY DEF RInv, TypeOK
  <1>2. ASSUME NEW c \in Clients, CheckLimit(c)
        PROVE  RInv'
    <2>1. tracked' = tracked \cup {c} /\ window' = [window EXCEPT ![c] = Swept(@, now)]
          /\ UNCHANGED <<now, up, recorded, granted>>
      BY <1>2 DEF CheckLimit
    <2> QED  BY <1>1, <2>1, SweepStep
  <1>3. ASSUME NEW c \in Clients, Consume(c)
        PROVE  RInv'
    <2>1. CASE Allowed(c)
      BY <1>3, <2>1, GrantStep
    <2>2. CASE ~Allowed(c)
      BY <1>2, <1>3, <2>2 DEF Consume
    <2> QED  BY <2>1, <2>2
  <1>4. ASSUME NEW c \in Clients, GetRequestCount(c)
        PROVE  RInv'
    <2>1. c \in tracked /\ tracked' = tracked /\ window' = [window EXCEPT ![c] = Swept(@, now)]
          /\ UNCHANGED <<now, up, recorded, granted>>
      BY <1>4 DEF GetRequestCount
    <2> QED  BY <1>1, <2>1, SweepStep
  <1>5. ASSUME NEW c \in Clients, ResetClient(c)
        PROVE  RInv'
    <2>1. {c} \in SUBSET Clients /\ Forget({c}) /\ up' \in BOOLEAN
      BY <1>1, <1>5 DEF ResetClient
    <2> QED  BY <2>1, ForgetStep
  <1>6. ASSUME ClearAll \/ OnModuleDestroy
        PROVE  RInv'
    <2>1. Clients \in SUBSET Clients /\ Forget(Clients) /\ up' \in BOOLEAN
      BY <1>1, <1>6 DEF ClearAll, OnModuleDestroy
    <2> QED  BY <2>1, ForgetStep
  <1>7. CASE UNCHANGED vars
    BY <1>7 DEF vars, RInv, TypeOK
  <1> QED  BY <1>2, <1>3, <1>4, <1>5, <1>6, <1>7, RecordStep, CleanupStep, TickStep DEF Next

LEMMA Invariance == Spec => []RInv
  <1> QED  BY InitRInv, NextRInv, PTL DEF Spec

-----------------------------------------------------------------------------
(* The theorems.                                                             *)

\* Every variable keeps its type, the ring's places its bounds, and a client
\* whose window was removed starts from a new one.
THEOREM TypeCorrect == Spec => []TypeOK
  <1>1. RInv => TypeOK
    BY DEF RInv
  <1> QED  BY <1>1, Invariance, PTL

\* Whatever checks, records, sweeps, resets and removals happened, the count the
\* limiter decides by is the number of requests of the window that ends now.
THEOREM CountsAreExact == Spec => []CountIsExact
  <1>1. RInv => CountIsExact
    <2> SUFFICES ASSUME RInv, NEW c \in Clients
                 PROVE  Swept(window[c], now).count =
                          IF InWindow(recorded[c], now) <= Capacity THEN InWindow(recorded[c], now) ELSE Capacity
      BY DEF CountIsExact
    <2>1. now \in Times /\ Exact(window[c], recorded[c], now)
      BY ClientTypes DEF RInv, Follows
    <2> QED  BY <2>1, SweptCount
  <1> QED  BY <1>1, Invariance, PTL

\* Both ways: consume grants a request exactly when fewer than maxRequests were
\* recorded in the window that ends now, and so refuses nobody without a reason,
\* whatever became of the client's ring and of its place in the Map before.
THEOREM GrantsAreDue ==
    Spec => [][\A c \in Clients : Consume(c) =>
                 (granted'[c] # granted[c] <=> InWindow(recorded[c], now) < MaxRequests)]_vars
  <1>1. ASSUME RInv, NEW c \in Clients, Consume(c)
        PROVE  granted'[c] # granted[c] <=> InWindow(recorded[c], now) < MaxRequests
    <2>1. now \in Times /\ Exact(window[c], recorded[c], now) /\ recorded[c] \in Logs
          /\ granted \in [Clients -> [Times -> 0 .. MaxPerInstant]]
      BY <1>1, ClientTypes DEF RInv, TypeOK, Follows
    <2>2. Swept(window[c], now).count =
            IF InWindow(recorded[c], now) <= Capacity THEN InWindow(recorded[c], now) ELSE Capacity
      BY <2>1, SweptCount
    <2>3. InWindow(recorded[c], now) \in Nat
      BY <2>1, SweptCount
    <2>4. Allowed(c) <=> InWindow(recorded[c], now) < MaxRequests
      BY <2>2, <2>3, LimitAssumption DEF Allowed, Capacity
    <2>5. CASE Allowed(c)
      <3>1. granted'[c][now] = granted[c][now] + 1 /\ granted[c][now] \in Nat
        BY <1>1, <2>1, <2>5, BoundsAssumption DEF Consume
      <3> QED  BY <2>4, <2>5, <3>1
    <2>6. CASE ~Allowed(c)
      BY <1>1, <2>4, <2>6 DEF Consume, CheckLimit
    <2> QED  BY <2>5, <2>6
  <1>2. RInv /\ [Next]_vars => [\A c \in Clients : Consume(c) =>
                 (granted'[c] # granted[c] <=> InWindow(recorded[c], now) < MaxRequests)]_vars
    BY <1>1
  <1> QED  BY <1>2, Invariance, PTL DEF Spec

\* The promise of the limiter: no window over the past holds more than
\* maxRequests requests that consume allowed.
THEOREM LimitIsKept == Spec => []AtMostMaxRequestsInAnyWindow
  <1>1. RInv => AtMostMaxRequestsInAnyWindow
    BY DEF RInv, Follows, AtMostMaxRequestsInAnyWindow
  <1> QED  BY <1>1, Invariance, PTL

\* The resetAt that a refused client is told is the first time it is allowed.
THEOREM ResetIsExact == Spec => []ResetAtIsExact
  <1>1. RInv => ResetAtIsExact
    <2> SUFFICES ASSUME RInv, NEW c \in Clients, NEW w, w = Swept(window[c], now), w.count = MaxRequests,
                        NEW resetAt, resetAt = OldestOr(w, now) + WindowMs
                 PROVE  /\ Swept(w, resetAt).count < MaxRequests
                        /\ Swept(w, resetAt - 1).count = MaxRequests
      BY DEF ResetAtIsExact
    <2>1. Well(w)
      BY ClientTypes, WindowTypes DEF RInv, Follows, Exact
    <2>2. /\ w \in Windows /\ MaxRequests \in Nat \ {0} /\ WindowMs \in Nat \ {0} /\ 0 \in 0 .. w.count - 1
          /\ Entry(w, 0) \in Nat
      BY <2>1, WellParts
    <2>3. resetAt = Entry(w, 0) + WindowMs /\ resetAt \in Int /\ resetAt - 1 \in Int
      BY <2>2 DEF OldestOr
    <2>4. Expired(Entry(w, 0), resetAt) /\ ~Expired(Entry(w, 0), resetAt - 1)
      BY <2>2, <2>3 DEF Expired
    <2>5. PICK k \in 0 .. w.count : k = Skipped(w, resetAt) /\ (k < w.count => ~Expired(Entry(w, k), resetAt))
      BY <2>2, <2>3, SkippedExists
    <2>6. k # 0
      BY <2>2, <2>4, <2>5
    <2>7. Swept(w, resetAt).count = w.count - k
      BY <2>1, <2>3, <2>5, SweptEffect
    <2>8. Skipped(w, resetAt - 1) = 0
      <3>1. 0 \in 0 .. w.count /\ \A i \in 0 .. 0 - 1 : Expired(Entry(w, i), resetAt - 1)
        BY <2>2
      <3> QED  BY <2>2, <2>3, <2>4, <3>1, SkippedIs
    <2>9. Swept(w, resetAt - 1).count = w.count - 0
      BY <2>1, <2>3, <2>8, SweptEffect
    <2> QED  BY <2>2, <2>5, <2>6, <2>7, <2>9
  <1> QED  BY <1>1, Invariance, PTL
=============================================================================
