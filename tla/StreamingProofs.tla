-------------------------- MODULE StreamingProofs --------------------------
(* The response cache of AIService and streamed answers, for any providers,  *)
(* conversations, calls and lengths.  CachedAnswersAreOwn takes a fact about *)
(* calls that are still awaited: the key that each made beforehand is its    *)
(* provider's and its conversation's (CallsKeepTheirKey).  BatchesAreBounded *)
(* takes that the batcher's buffer stays below its limit (BInv), and         *)
(* StreamIsWhole how far the stream has come (SInv): the lines to come are   *)
(* those after the ones that were passed on, the reader's buffer and the     *)
(* wire are the two sides of one place in the text, and the client and the   *)
(* batcher have the contents of the lines before.                            *)
EXTENDS Streaming, SequenceTheorems, FiniteSetTheorems, WellFoundedInduction, TLAPS

CallsKeepTheirKey ==
    \A r \in Calls : call[r] # Idle => call[r].key = <<call[r].provider, Normalized[call[r].conversation]>>

AInv == AITypeOK /\ CallsKeepTheirKey /\ CachedAnswersAreOwn

Awaiting == [phase : {"awaiting"}, conversation : Conversations, key : Keys, provider : Ready]
Completions == [by : Ready, to : Conversations]

LEMMA KeyType ==
    ASSUME NEW p \in Providers, NEW c \in Conversations
    PROVE  <<p, Normalized[c]>> \in Keys
  BY DEF Keys

LEMMA ReadyAreProviders == Ready \subseteq Providers /\ Mock \in Ready
  BY AIServiceAssumption

LEMMA AIInitInv == AIInit => AInv
  <1> SUFFICES ASSUME AIInit PROVE AInv
    OBVIOUS
  <1>1. activeProvider \in Ready
    BY ReadyAreProviders DEF AIInit, Selected
  <1> QED  BY <1>1 DEF AIInit, AInv, AITypeOK, CallsKeepTheirKey, CachedAnswersAreOwn

\* What a call that is awaited carries.
LEMMA CallType ==
    ASSUME AInv, NEW r \in Calls, call[r] # Idle
    PROVE  /\ call[r].key \in Keys /\ call[r].provider \in Ready /\ call[r].conversation \in Conversations
           /\ call[r].key = <<call[r].provider, Normalized[call[r].conversation]>>
  <1>1. call[r] \in Awaiting
    BY DEF AInv, AITypeOK, Awaiting
  <1> QED  BY <1>1 DEF AInv, CallsKeepTheirKey, Awaiting

LEMMA GenerateCompletionKeepsInv ==
    ASSUME AInv, NEW r \in Calls, NEW c \in Conversations, GenerateCompletion(r, c)
    PROVE  AInv'
  <1> DEFINE key == GenerateCacheKey(c)
             new == [phase |-> "awaiting", conversation |-> c, key |-> key, provider |-> activeProvider]
  <1>1. call' = [call EXCEPT ![r] = new] /\ UNCHANGED <<activeProvider, responseCache>>
    BY DEF GenerateCompletion
  <1>2. activeProvider \in Ready
    BY DEF AInv, AITypeOK
  <1>3. key \in Keys /\ key = <<activeProvider, Normalized[c]>>
    BY <1>2, KeyType, ReadyAreProviders DEF GenerateCacheKey
  <1>4. new \in Awaiting /\ new.key = <<new.provider, Normalized[new.conversation]>>
    BY <1>2, <1>3 DEF Awaiting
  <1> HIDE DEF new
  <1>5. AITypeOK'
    BY <1>1, <1>4 DEF AInv, AITypeOK, Awaiting
  <1>6. CallsKeepTheirKey'
    BY <1>1, <1>4 DEF AInv, AITypeOK, CallsKeepTheirKey
  <1>7. CachedAnswersAreOwn'
    BY <1>1 DEF AInv, CachedAnswersAreOwn
  <1> QED  BY <1>5, <1>6, <1>7 DEF AInv

LEMMA CallEnds ==
    ASSUME AInv, NEW r \in Calls, call' = [call EXCEPT ![r] = Idle]
    PROVE  CallsKeepTheirKey' /\ call' \in [Calls -> {Idle} \cup Awaiting]
  BY DEF AInv, AITypeOK, CallsKeepTheirKey, Awaiting

LEMMA CompletionArrivesKeepsInv ==
    ASSUME AInv, NEW r \in Calls, CompletionArrives(r)
    PROVE  AInv'
  <1>1. /\ call[r] # Idle /\ call' = [call EXCEPT ![r] = Idle] /\ UNCHANGED activeProvider
        /\ responseCache' = [responseCache EXCEPT ![call[r].key] =
                               [by |-> call[r].provider, to |-> call[r].conversation]]
    BY DEF CompletionArrives, KeyOf
  <1>2. PICK k \in Keys, p \in Ready, c \in Conversations :
          k = call[r].key /\ p = call[r].provider /\ c = call[r].conversation /\ k = <<p, Normalized[c]>>
    BY <1>1, CallType
  <1>3. PICK answer \in Completions : answer = [by |-> p, to |-> c]
    BY DEF Completions
  <1>4. responseCache' = [responseCache EXCEPT ![k] = answer]
    BY <1>1, <1>2, <1>3
  <1>5. AITypeOK'
    BY <1>1, <1>4, CallEnds DEF AInv, AITypeOK, Awaiting, Completions
  <1>6. answer.by = k[1] /\ Normalized[answer.to] = k[2]
    BY <1>2, <1>3
  <1>7. CachedAnswersAreOwn'
    BY <1>4, <1>6 DEF AInv, AITypeOK, CachedAnswersAreOwn
  <1> QED  BY <1>1, <1>5, <1>7, CallEnds DEF AInv

LEMMA CompletionFailsKeepsInv ==
    ASSUME AInv, NEW r \in Calls, CompletionFails(r)
    PROVE  AInv'
  <1>1. call' = [call EXCEPT ![r] = Idle] /\ UNCHANGED <<activeProvider, responseCache>>
    BY DEF CompletionFails
  <1> QED  BY <1>1, CallEnds DEF AInv, AITypeOK, CachedAnswersAreOwn, Awaiting

\* The cache loses entries.
LEMMA ForgettingKeepsInv ==
    ASSUME AInv, UNCHANGED <<activeProvider, call>>, DOMAIN responseCache' = Keys,
           responseCache' = [k \in Keys |-> responseCache'[k]],
           \A k \in Keys : responseCache'[k] \in {Nothing, responseCache[k]}
    PROVE  AInv'
  BY DEF AInv, AITypeOK, CallsKeepTheirKey, CachedAnswersAreOwn

LEMMA AIKeepsInv == AInv /\ [AISteps]_aiVars => AInv'
  <1> SUFFICES ASSUME AInv, [AISteps]_aiVars PROVE AInv'
    OBVIOUS
  <1>1. ASSUME NEW r \in Calls, NEW c \in Conversations, GenerateCompletion(r, c) PROVE AInv'
    BY <1>1, GenerateCompletionKeepsInv
  <1>2. ASSUME NEW r \in Calls, CompletionArrives(r) \/ CompletionFails(r) PROVE AInv'
    BY <1>2, CompletionArrivesKeepsInv, CompletionFailsKeepsInv
  <1>3. ASSUME NEW p \in Providers, SwitchProvider(p) PROVE AInv'
    BY <1>3 DEF SwitchProvider, AInv, AITypeOK, CallsKeepTheirKey, CachedAnswersAreOwn
  <1>4. CASE ClearCache
    BY <1>4, ForgettingKeepsInv DEF ClearCache
  <1>5. ASSUME NEW k \in Keys, CacheForgets(k) PROVE AInv'
    BY <1>5, ForgettingKeepsInv DEF CacheForgets, AInv, AITypeOK
  <1>6. CASE UNCHANGED aiVars
    BY <1>6 DEF aiVars, AInv, AITypeOK, CallsKeepTheirKey, CachedAnswersAreOwn
  <1> QED  BY <1>1, <1>2, <1>3, <1>4, <1>5, <1>6 DEF AISteps

-----------------------------------------------------------------------------
(* Sequences of sequences.                                                   *)

LEMMA LeastNumber ==
    ASSUME NEW T \in SUBSET Nat, T # {}
    PROVE  \E n \in T : \A m \in T : n <= m
  <1>1. IsWellFoundedOn({ss \in Nat \X Nat : ss[1] < ss[2]}, Nat)
    BY NatLessThanWellFounded DEF OpToRel
  <1>2. PICK n \in T : \A m \in T : ~(<<m, n>> \in {ss \in Nat \X Nat : ss[1] < ss[2]})
    BY <1>1, WFMin
  <1>3. ASSUME NEW m \in T
        PROVE  n <= m
    <2>1. <<m, n>> \in Nat \X Nat /\ <<m, n>>[1] = m /\ <<m, n>>[2] = n
      OBVIOUS
    <2>2. ~(m < n)
      BY <1>2, <2>1
    <2> QED  BY <2>2
  <1> QED  BY <1>3

\* What FlattenSeq computes for the first n sequences of s.
Flattens(f, s, n) == f = [i \in 1 .. n |-> IF i = 1 THEN s[i] ELSE f[i - 1] \o s[i]]

LEMMA FlatteningAt ==
    ASSUME NEW f, NEW s, NEW n, Flattens(f, s, n), NEW i \in 1 .. n
    PROVE  f[i] = IF i = 1 THEN s[i] ELSE f[i - 1] \o s[i]
  BY Zenon DEF Flattens

LEMMA FlatteningExists ==
    ASSUME NEW s, NEW n \in Nat
    PROVE  \E f : Flattens(f, s, n)
  <1> DEFINE T == {k \in Nat : ~\E f : Flattens(f, s, k)}
  <1> SUFFICES ASSUME T # {} PROVE FALSE
    OBVIOUS
  <1>1. PICK k \in T : \A j \in T : k <= j
    BY LeastNumber
  <1>2. k # 0
    <2>1. Flattens(<<>>, s, 0)
      BY DEF Flattens
    <2> QED  BY <2>1
  <1>3. k - 1 \in Nat /\ k - 1 \notin T
    BY <1>1, <1>2
  <1>4. PICK g : Flattens(g, s, k - 1)
    BY <1>3
  <1> DEFINE f == [i \in 1 .. k |-> IF i = 1 THEN s[1] ELSE g[i - 1] \o s[i]]
  <1>5. \A i \in 1 .. k - 1 : f[i] = g[i]
    <2>1. ASSUME NEW i \in 1 .. k - 1
          PROVE  f[i] = g[i]
      <3>1. g[i] = IF i = 1 THEN s[i] ELSE g[i - 1] \o s[i]
        BY <1>4, FlatteningAt
      <3>2. i \in 1 .. k
        BY <1>2
      <3> QED  BY <3>1, <3>2
    <2> QED  BY <2>1
  <1>6. f = [i \in 1 .. k |-> IF i = 1 THEN s[i] ELSE f[i - 1] \o s[i]]
    <2>1. ASSUME NEW i \in 1 .. k
          PROVE  f[i] = IF i = 1 THEN s[i] ELSE f[i - 1] \o s[i]
      <3>1. CASE i = 1
        BY <3>1
      <3>2. CASE i # 1
        <4>1. i - 1 \in 1 .. k - 1
          BY <3>2
        <4>2. f[i] = g[i - 1] \o s[i]
          BY <3>2
        <4> QED  BY <1>5, <3>2, <4>1, <4>2
      <3> QED  BY <3>1, <3>2
    <2> QED  BY <2>1
  <1> QED  BY <1>6 DEF Flattens

\* It depends on no more than those.
LEMMA FlatteningAgrees ==
    ASSUME NEW f, NEW s, NEW n, Flattens(f, s, n), NEW g, NEW t, NEW m, Flattens(g, t, m),
           n \in Nat, m \in Nat, n <= m, \A i \in 1 .. n : s[i] = t[i]
    PROVE  \A i \in 1 .. n : f[i] = g[i]
  <1> DEFINE T == {k \in 1 .. n : f[k] # g[k]}
  <1> SUFFICES ASSUME T # {} PROVE FALSE
    OBVIOUS
  <1>0. T \in SUBSET Nat
    OBVIOUS
  <1>1. PICK k \in T : \A j \in T : k <= j
    BY <1>0, LeastNumber
  <1>2. f[k] = IF k = 1 THEN s[k] ELSE f[k - 1] \o s[k]
    BY FlatteningAt
  <1>3. g[k] = IF k = 1 THEN t[k] ELSE g[k - 1] \o t[k]
    <2>1. k \in 1 .. m
      OBVIOUS
    <2> QED  BY <2>1, FlatteningAt
  <1>4. s[k] = t[k] /\ f[k] # g[k]
    BY <1>1
  <1>5. k # 1
    BY <1>2, <1>3, <1>4
  <1>6. k - 1 \in 1 .. n /\ ~(k <= k - 1)
    BY <1>5
  <1>7. f[k - 1] = g[k - 1]
    BY <1>1, <1>6
  <1> QED  BY <1>2, <1>3, <1>4, <1>5, <1>7

LEMMA FlattenIs ==
    ASSUME NEW s, Len(s) \in Nat \ {0}
    PROVE  \E f : Flattens(f, s, Len(s)) /\ FlattenSeq(s) = f[Len(s)]
  <1> DEFINE f == CHOOSE f : f = [i \in 1 .. Len(s) |-> IF i = 1 THEN s[i] ELSE f[i - 1] \o s[i]]
  <1>1. FlattenSeq(s) = f[Len(s)]
    BY DEF FlattenSeq
  <1>2. \E g : g = [i \in 1 .. Len(s) |-> IF i = 1 THEN s[i] ELSE g[i - 1] \o s[i]]
    BY FlatteningExists DEF Flattens
  <1>3. f = [i \in 1 .. Len(s) |-> IF i = 1 THEN s[i] ELSE f[i - 1] \o s[i]]
    BY <1>2
  <1> QED  BY <1>1, <1>3 DEF Flattens

LEMMA FlattenOne ==
    ASSUME NEW s, Len(s) = 1
    PROVE  FlattenSeq(s) = s[1]
  <1>1. PICK f : Flattens(f, s, 1) /\ FlattenSeq(s) = f[1]
    <2>1. Len(s) \in Nat \ {0}
      OBVIOUS
    <2>2. \E f : Flattens(f, s, Len(s)) /\ FlattenSeq(s) = f[Len(s)]
      BY <2>1, FlattenIs
    <2> QED  BY <2>2
  <1>2. 1 \in 1 .. 1
    OBVIOUS
  <1> QED  BY <1>1, <1>2, FlatteningAt

\* One sequence more.
LEMMA FlattenLonger ==
    ASSUME NEW s, NEW t, NEW n \in Nat \ {0}, Len(s) = n, Len(t) = n + 1, \A i \in 1 .. n : s[i] = t[i]
    PROVE  FlattenSeq(t) = FlattenSeq(s) \o t[n + 1]
  <1>1. PICK g : Flattens(g, t, n + 1) /\ FlattenSeq(t) = g[n + 1]
    BY FlattenIs
  <1>2. PICK f : Flattens(f, s, n) /\ FlattenSeq(s) = f[n]
    BY FlattenIs
  <1>3. \A i \in 1 .. n : f[i] = g[i]
    <2>1. PICK m \in Nat : m = n + 1
      OBVIOUS
    <2>2. Flattens(g, t, m) /\ n <= m /\ n \in Nat
      BY <1>1, <2>1
    <2> QED  BY <1>2, <2>2, FlatteningAgrees
  <1>4. f[n] = g[n]
    BY <1>3
  <1>5. g[n + 1] = IF n + 1 = 1 THEN t[n + 1] ELSE g[n + 1 - 1] \o t[n + 1]
    <2>1. n + 1 \in 1 .. n + 1
      OBVIOUS
    <2> QED  BY <1>1, <2>1, FlatteningAt
  <1>6. n + 1 # 1 /\ n + 1 - 1 = n
    OBVIOUS
  <1> QED  BY <1>1, <1>2, <1>4, <1>5, <1>6

LEMMA FlattenEmpty == FlattenSeq(<<>>) = <<>>
  BY DEF FlattenSeq

LEMMA FlattenType ==
    ASSUME NEW S, NEW s \in Seq(Seq(S))
    PROVE  FlattenSeq(s) \in Seq(S)
  <1>1. CASE Len(s) = 0
    <2>1. FlattenSeq(s) = s /\ s = <<>>
      BY <1>1 DEF FlattenSeq
    <2> QED  BY <2>1
  <1>2. CASE Len(s) # 0
    <2>0. Len(s) \in Nat \ {0}
      BY <1>2
    <2>1. PICK f : Flattens(f, s, Len(s)) /\ FlattenSeq(s) = f[Len(s)]
      BY <2>0, FlattenIs
    <2> DEFINE T == {k \in 1 .. Len(s) : f[k] \notin Seq(S)}
    <2>2. ASSUME T # {} PROVE FALSE
      <3>0. T \in SUBSET Nat
        OBVIOUS
      <3>1. PICK k \in T : \A j \in T : k <= j
        BY <2>2, <3>0, LeastNumber
      <3>2. f[k] = IF k = 1 THEN s[k] ELSE f[k - 1] \o s[k]
        BY <2>1, FlatteningAt
      <3>3. s[k] \in Seq(S) /\ f[k] \notin Seq(S)
        OBVIOUS
      <3>4. k # 1
        BY <3>2, <3>3
      <3>5. k - 1 \in 1 .. Len(s) /\ ~(k <= k - 1)
        BY <3>4
      <3>6. f[k - 1] \in Seq(S)
        BY <3>1, <3>5
      <3> QED  BY <3>2, <3>3, <3>4, <3>6, ConcatProperties
    <2>3. Len(s) \in 1 .. Len(s)
      BY <1>2
    <2> QED  BY <2>1, <2>2, <2>3
  <1> QED  BY <1>1, <1>2

LEMMA FlattenAppend ==
    ASSUME NEW S, NEW s \in Seq(Seq(S)), NEW x \in Seq(S)
    PROVE  FlattenSeq(Append(s, x)) = FlattenSeq(s) \o x
  <1>1. PICK t : t = Append(s, x)
    OBVIOUS
  <1>2. PICK n \in Nat : n = Len(s)
    OBVIOUS
  <1>3. Len(t) = n + 1 /\ t[n + 1] = x /\ \A i \in 1 .. n : s[i] = t[i]
    BY <1>1, <1>2
  <1>4. CASE n = 0
    <2>0. Len(s) = 0
      BY <1>2, <1>4
    <2>1. s = <<>>
      BY <2>0
    <2>2. FlattenSeq(s) \o x = x
      BY <2>1, FlattenEmpty, ConcatEmptySeq
    <2>3. FlattenSeq(t) = t[1]
      <3>1. Len(t) = 1
        BY <1>3, <1>4
      <3> QED  BY <3>1, FlattenOne
    <2>4. t[1] = x
      BY <1>3, <1>4
    <2> QED  BY <1>1, <2>2, <2>3, <2>4
  <1>5. CASE n # 0
    <2>1. FlattenSeq(t) = FlattenSeq(s) \o t[n + 1]
      BY <1>2, <1>3, <1>5, FlattenLonger
    <2> QED  BY <1>1, <1>3, <2>1
  <1> QED  BY <1>4, <1>5

-----------------------------------------------------------------------------
(* The text on the wire.                                                     *)

Symbols == Nat \X Nat
Symbol(j) == IF j % 3 = 0 THEN LineFeed ELSE Half((j \div 3) + 1, j % 3)
Piece(from, to) == [j \in 1 .. to - from |-> Symbol(from + j)]
LinesFrom(k, m) == [j \in 1 .. m - k |-> Line(k + j)]

LEMMA SymbolAt ==
    ASSUME NEW i \in Nat
    PROVE  Symbol(3 * i + 1) = Half(i + 1, 1) /\ Symbol(3 * i + 2) = Half(i + 1, 2) /\ Symbol(3 * i + 3) = LineFeed
  <1>1. (3 * i + 1) % 3 = 1 /\ (3 * i + 2) % 3 = 2 /\ (3 * i + 3) % 3 = 0
    OBVIOUS
  <1>2. (3 * i + 1) \div 3 = i /\ (3 * i + 2) \div 3 = i
    OBVIOUS
  <1> QED  BY <1>1, <1>2 DEF Symbol

LEMMA Position ==
    ASSUME NEW j \in Nat \ {0}
    PROVE  \E i \in Nat : j = 3 * i + 1 \/ j = 3 * i + 2 \/ j = 3 * i + 3
  <1>1. PICK i \in Nat : i = (j - 1) \div 3
    OBVIOUS
  <1> QED  BY <1>1

LEMMA SymbolType ==
    ASSUME NEW j \in Nat \ {0}
    PROVE  Symbol(j) \in Symbols /\ (Symbol(j) = LineFeed <=> \E i \in Nat : j = 3 * i + 3)
  <1>1. PICK i \in Nat : j = 3 * i + 1 \/ j = 3 * i + 2 \/ j = 3 * i + 3
    BY Position
  <1>2. CASE j = 3 * i + 1
    <2>1. Symbol(j) = Half(i + 1, 1) /\ \A k \in Nat : j # 3 * k + 3
      BY <1>2, SymbolAt
    <2> QED  BY <2>1 DEF Symbols, Half, LineFeed
  <1>3. CASE j = 3 * i + 2
    <2>1. Symbol(j) = Half(i + 1, 2) /\ \A k \in Nat : j # 3 * k + 3
      BY <1>3, SymbolAt
    <2> QED  BY <2>1 DEF Symbols, Half, LineFeed
  <1>4. CASE j = 3 * i + 3
    BY <1>4, SymbolAt DEF Symbols, LineFeed
  <1> QED  BY <1>1, <1>2, <1>3, <1>4

LEMMA PieceType ==
    ASSUME NEW from \in Nat, NEW to \in Nat, from <= to
    PROVE  /\ Piece(from, to) \in Seq(Symbols) /\ Len(Piece(from, to)) = to - from
           /\ \A j \in 1 .. to - from : Piece(from, to)[j] = Symbol(from + j)
  <1>1. \A j \in 1 .. to - from : Symbol(from + j) \in Symbols
    BY SymbolType
  <1>2. Piece(from, to) \in [1 .. to - from -> Symbols]
    BY <1>1 DEF Piece
  <1>3. to - from \in Nat
    OBVIOUS
  <1> QED  BY <1>2, <1>3 DEF Piece

LEMMA PieceIs ==
    ASSUME NEW from \in Nat, NEW to \in Nat, from <= to, NEW t \in Seq(Symbols), Len(t) = to - from,
           \A j \in 1 .. to - from : t[j] = Symbol(from + j)
    PROVE  t = Piece(from, to)
  <1>1. DOMAIN t = 1 .. to - from
    BY LenProperties
  <1>2. t = [j \in 1 .. to - from |-> t[j]]
    BY <1>1, LenProperties
  <1> QED  BY <1>2 DEF Piece

LEMMA PieceConcat ==
    ASSUME NEW a \in Nat, NEW b \in Nat, NEW c \in Nat, a <= b, b <= c
    PROVE  Piece(a, b) \o Piece(b, c) = Piece(a, c)
  <1>1. PICK s \in Seq(Symbols) : s = Piece(a, b) /\ Len(s) = b - a /\ \A j \in 1 .. b - a : s[j] = Symbol(a + j)
    BY PieceType
  <1>2. PICK t \in Seq(Symbols) : t = Piece(b, c) /\ Len(t) = c - b /\ \A j \in 1 .. c - b : t[j] = Symbol(b + j)
    BY PieceType
  <1>3. PICK u : u = s \o t
    OBVIOUS
  <1>4. u \in Seq(Symbols) /\ Len(u) = c - a
    BY <1>1, <1>2, <1>3, ConcatProperties
  <1>5. \A j \in 1 .. c - a : u[j] = IF j <= b - a THEN s[j] ELSE t[j - (b - a)]
    <2>1. \A j \in 1 .. Len(s) + Len(t) : u[j] = IF j <= Len(s) THEN s[j] ELSE t[j - Len(s)]
      BY <1>3, ConcatProperties
    <2>2. Len(s) + Len(t) = c - a /\ Len(s) = b - a
      BY <1>1, <1>2
    <2> QED  BY <2>1, <2>2
  <1>6. ASSUME NEW j \in 1 .. c - a
        PROVE  u[j] = Symbol(a + j)
    <2>1. CASE j <= b - a
      BY <1>1, <1>5, <2>1
    <2>2. CASE ~(j <= b - a)
      <3>1. u[j] = t[j - (b - a)] /\ j - (b - a) \in 1 .. c - b /\ b + (j - (b - a)) = a + j
        BY <1>5, <2>2
      <3> QED  BY <1>2, <3>1
    <2> QED  BY <2>1, <2>2
  <1>7. a <= c
    OBVIOUS
  <1>8. u = Piece(a, c)
    BY <1>4, <1>6, <1>7, PieceIs
  <1> QED  BY <1>1, <1>2, <1>3, <1>8

LEMMA PieceSub ==
    ASSUME NEW a \in Nat, NEW b \in Nat, a <= b, NEW x \in Nat \ {0}, NEW y \in Nat, x <= y + 1, y <= b - a
    PROVE  SubSeq(Piece(a, b), x, y) = Piece(a + x - 1, a + y)
  <1>1. PICK s \in Seq(Symbols) : s = Piece(a, b) /\ Len(s) = b - a /\ \A j \in 1 .. b - a : s[j] = Symbol(a + j)
    BY PieceType
  <1>2. PICK t : t = SubSeq(s, x, y)
    OBVIOUS
  <1>3. \A i \in x .. y : s[i] \in Symbols
    BY <1>1
  <1>4. t \in Seq(Symbols) /\ Len(t) = y - x + 1 /\ \A i \in 1 .. y - x + 1 : t[i] = s[x + i - 1]
    BY <1>2, <1>3, SubSeqProperties
  <1>5. a + x - 1 \in Nat /\ a + y \in Nat /\ a + x - 1 <= a + y /\ (a + y) - (a + x - 1) = y - x + 1
    OBVIOUS
  <1>6. ASSUME NEW j \in 1 .. y - x + 1
        PROVE  t[j] = Symbol((a + x - 1) + j)
    <2>1. t[j] = s[x + j - 1] /\ x + j - 1 \in 1 .. b - a
      BY <1>4
    <2>2. a + (x + j - 1) = (a + x - 1) + j
      OBVIOUS
    <2> QED  BY <1>1, <2>1, <2>2
  <1>7. t = Piece(a + x - 1, a + y)
    BY <1>4, <1>5, <1>6, PieceIs
  <1> QED  BY <1>1, <1>2, <1>7

LEMMA PiecePrefix ==
    ASSUME NEW a \in Nat, NEW b \in Nat, a <= b, NEW n \in Nat, n <= b - a
    PROVE  SubSeq(Piece(a, b), 1, n) = Piece(a, a + n)
  <1>1. PICK x \in Nat \ {0} : x = 1
    OBVIOUS
  <1>2. SubSeq(Piece(a, b), x, n) = Piece(a + x - 1, a + n)
    <2>1. x <= n + 1
      BY <1>1
    <2> QED  BY <2>1, PieceSub
  <1>3. a + x - 1 = a
    BY <1>1
  <1> QED  BY <1>1, <1>2, <1>3

LEMMA PieceSuffix ==
    ASSUME NEW a \in Nat, NEW b \in Nat, a <= b, NEW n \in Nat, n <= b - a
    PROVE  SubSeq(Piece(a, b), n + 1, b - a) = Piece(a + n, b)
  <1>1. PICK x \in Nat \ {0}, y \in Nat : x = n + 1 /\ y = b - a
    OBVIOUS
  <1>2. SubSeq(Piece(a, b), x, y) = Piece(a + x - 1, a + y)
    <2>1. x <= y + 1 /\ y <= b - a
      BY <1>1
    <2> QED  BY <2>1, PieceSub
  <1>3. a + x - 1 = a + n /\ a + y = b
    BY <1>1
  <1> QED  BY <1>1, <1>2, <1>3

LEMMA LineIsPiece ==
    ASSUME NEW i \in Nat
    PROVE  /\ Line(i + 1) = Piece(3 * i, 3 * i + 2)
           /\ Append(Line(i + 1), LineFeed) = Piece(3 * i, 3 * i + 3)
  <1>1. Line(i + 1) \in Seq(Symbols) /\ Len(Line(i + 1)) = 2 /\ LineFeed \in Symbols
    BY DEF Line, Half, Symbols, LineFeed
  <1>2. \A j \in 1 .. 2 : Line(i + 1)[j] = Symbol(3 * i + j)
    <2>1. ASSUME NEW j \in 1 .. 2
          PROVE  Line(i + 1)[j] = Symbol(3 * i + j)
      <3>1. Line(i + 1)[1] = Half(i + 1, 1) /\ Line(i + 1)[2] = Half(i + 1, 2)
        BY DEF Line
      <3>2. j = 1 \/ j = 2
        OBVIOUS
      <3> QED  BY <3>1, <3>2, SymbolAt
    <2> QED  BY <2>1
  <1>3. Line(i + 1) = Piece(3 * i, 3 * i + 2)
    <2>1. 3 * i \in Nat /\ 3 * i + 2 \in Nat /\ 3 * i <= 3 * i + 2 /\ (3 * i + 2) - 3 * i = 2
      OBVIOUS
    <2> QED  BY <1>1, <1>2, <2>1, PieceIs
  <1>4. PICK t : t = Append(Line(i + 1), LineFeed)
    OBVIOUS
  <1>5. t \in Seq(Symbols) /\ Len(t) = 3 /\ \A j \in 1 .. 3 : t[j] = Symbol(3 * i + j)
    <2>1. t \in Seq(Symbols) /\ Len(t) = 3 /\ t[3] = LineFeed /\ t[1] = Line(i + 1)[1] /\ t[2] = Line(i + 1)[2]
      BY <1>1, <1>4, AppendProperties
    <2>2. t[1] = Symbol(3 * i + 1) /\ t[2] = Symbol(3 * i + 2) /\ t[3] = Symbol(3 * i + 3)
      BY <1>2, <2>1, SymbolAt
    <2>3. \A j \in 1 .. 3 : j = 1 \/ j = 2 \/ j = 3
      OBVIOUS
    <2> QED  BY <2>1, <2>2, <2>3
  <1>6. t = Piece(3 * i, 3 * i + 3)
    <2>1. 3 * i \in Nat /\ 3 * i + 3 \in Nat /\ 3 * i <= 3 * i + 3 /\ (3 * i + 3) - 3 * i = 3
      OBVIOUS
    <2> QED  BY <1>5, <2>1, PieceIs
  <1> QED  BY <1>3, <1>4, <1>6

LEMMA LineOfPiece ==
    ASSUME NEW a \in Nat, NEW b \in Nat, NEW i \in Nat, a <= 3 * i, 3 * i + 2 <= b
    PROVE  SubSeq(Piece(a, b), 3 * i - a + 1, 3 * i - a + 2) = Line(i + 1)
  <1>1. PICK x \in Nat \ {0}, y \in Nat : x = 3 * i - a + 1 /\ y = 3 * i - a + 2
    OBVIOUS
  <1>2. a <= b /\ x <= y + 1 /\ y <= b - a
    BY <1>1
  <1>3. SubSeq(Piece(a, b), x, y) = Piece(a + x - 1, a + y)
    BY <1>2, PieceSub
  <1>4. a + x - 1 = 3 * i /\ a + y = 3 * i + 2
    BY <1>1
  <1> QED  BY <1>1, <1>3, <1>4, LineIsPiece

Triples(c) == {3 * q : q \in 1 .. c}

LEMMA TriplesAreSoMany ==
    ASSUME NEW c \in Nat
    PROVE  Cardinality(Triples(c)) = c
  <1> DEFINE f == [q \in 1 .. c |-> 3 * q]
  <1>1. f \in Injection(1 .. c, Triples(c))
    BY DEF Triples, Injection, IsInjective
  <1>2. f \in Surjection(1 .. c, Triples(c))
    BY DEF Triples, Surjection
  <1>3. ExistsBijection(1 .. c, Triples(c))
    BY <1>1, <1>2 DEF ExistsBijection, Bijection
  <1> QED  BY <1>3, FS_CountingElements

\* Where the line feeds of a piece are that begins with a line.
LEMMA FeedsOfPiece ==
    ASSUME NEW m \in Nat, NEW q \in Nat, m <= q, NEW p \in Nat, 3 * q <= p, p <= 3 * q + 2
    PROVE  {i \in 1 .. p - 3 * m : Piece(3 * m, p)[i] = LineFeed} = Triples(q - m)
  <1>1. \A i \in 1 .. p - 3 * m : Piece(3 * m, p)[i] = Symbol(3 * m + i)
    BY PieceType
  <1>2. ASSUME NEW i \in 1 .. p - 3 * m
        PROVE  Piece(3 * m, p)[i] = LineFeed <=> i \in Triples(q - m)
    <2>1. Piece(3 * m, p)[i] = LineFeed <=> \E k \in Nat : 3 * m + i = 3 * k + 3
      BY <1>1, SymbolType
    <2>2. ASSUME NEW k \in Nat, 3 * m + i = 3 * k + 3
          PROVE  i \in Triples(q - m)
      <3>1. PICK j \in Int : j = k + 1 - m
        OBVIOUS
      <3>2. j \in 1 .. q - m /\ i = 3 * j
        BY <2>2, <3>1
      <3> QED  BY <3>2 DEF Triples
    <2>3. ASSUME i \in Triples(q - m)
          PROVE  \E k \in Nat : 3 * m + i = 3 * k + 3
      <3>1. PICK j \in 1 .. q - m : i = 3 * j
        BY <2>3 DEF Triples
      <3>2. m + j - 1 \in Nat /\ 3 * m + i = 3 * (m + j - 1) + 3
        BY <3>1
      <3> QED  BY <3>2
    <2> QED  BY <2>1, <2>2, <2>3
  <1>3. Triples(q - m) \subseteq 1 .. p - 3 * m
    BY DEF Triples
  <1> QED  BY <1>2, <1>3

\* A read that leaves p of the text in all, of which 3 * q are complete lines.
LEMMA LinesOfPiece ==
    ASSUME NEW m \in Nat, NEW q \in Nat, m <= q, NEW p \in Nat, 3 * q <= p, p <= 3 * q + 2
    PROVE  LinesOf(Piece(3 * m, p)) = LinesFrom(m, q)
  <1> DEFINE text == Piece(3 * m, p)
             feeds == {i \in DOMAIN text : text[i] = LineFeed}
             Before(i) == {j \in feeds : j < i}
             End(k) == CHOOSE i \in feeds : Cardinality(Before(i)) = k - 1
  <1>1. LinesOf(text) =
          [k \in 1 .. Cardinality(feeds) |-> SubSeq(text, (IF k = 1 THEN 0 ELSE End(k - 1)) + 1, End(k) - 1)]
    BY DEF LinesOf
  <1>2. feeds = Triples(q - m)
    <2>1. DOMAIN text = 1 .. p - 3 * m
      BY DEF Piece
    <2> QED  BY <2>1, FeedsOfPiece
  <1>3. Cardinality(feeds) = q - m
    BY <1>2, TriplesAreSoMany
  <1>4. ASSUME NEW k \in 1 .. q - m
        PROVE  3 * k \in feeds /\ Cardinality(Before(3 * k)) = k - 1
    <2>1. 3 * k \in feeds
      BY <1>2 DEF Triples
    <2>2. Before(3 * k) = Triples(k - 1)
      BY <1>2 DEF Triples
    <2> QED  BY <2>1, <2>2, TriplesAreSoMany
  <1>5. ASSUME NEW k \in 1 .. q - m
        PROVE  End(k) = 3 * k
    <2>1. ASSUME NEW i \in feeds, Cardinality(Before(i)) = k - 1
          PROVE  i = 3 * k
      <3>1. PICK j \in 1 .. q - m : i = 3 * j
        BY <1>2, <2>1 DEF Triples
      <3>2. Cardinality(Before(i)) = j - 1
        BY <1>4, <3>1
      <3> QED  BY <2>1, <3>1, <3>2
    <2> HIDE DEF Before, feeds
    <2> QED  BY <1>4, <2>1
  <1> HIDE DEF feeds, Before, End
  <1>6. ASSUME NEW k \in 1 .. q - m
        PROVE  SubSeq(text, (IF k = 1 THEN 0 ELSE End(k - 1)) + 1, End(k) - 1) = Line(m + k)
    <2>1. (IF k = 1 THEN 0 ELSE End(k - 1)) + 1 = 3 * k - 2
      <3>1. CASE k = 1
        BY <3>1
      <3>2. CASE k # 1
        <4>1. k - 1 \in 1 .. q - m
          BY <3>2
        <4> QED  BY <1>5, <3>2, <4>1
      <3> QED  BY <3>1, <3>2
    <2>2. End(k) - 1 = 3 * k - 1
      BY <1>5
    <2>3. PICK a \in Nat, i \in Nat : a = 3 * m /\ i = m + k - 1
      OBVIOUS
    <2>4. a <= 3 * i /\ 3 * i + 2 <= p
      BY <2>3
    <2>5. SubSeq(Piece(a, p), 3 * i - a + 1, 3 * i - a + 2) = Line(i + 1)
      BY <2>4, LineOfPiece
    <2>6. 3 * i - a + 1 = 3 * k - 2 /\ 3 * i - a + 2 = 3 * k - 1 /\ i + 1 = m + k
      BY <2>3
    <2>7. SubSeq(text, 3 * k - 2, 3 * k - 1) = Line(m + k)
      BY <2>3, <2>5, <2>6
    <2> QED  BY <2>1, <2>2, <2>7
  <1> HIDE DEF text
  <1>7. LinesOf(text) = [k \in 1 .. q - m |-> Line(m + k)]
    BY <1>1, <1>3, <1>6
  <1> QED  BY <1>7 DEF LinesFrom, text

LEMMA RestOfPiece ==
    ASSUME NEW m \in Nat, NEW q \in Nat, m <= q, NEW p \in Nat, 3 * q <= p, p <= 3 * q + 2
    PROVE  Rest(Piece(3 * m, p)) = Piece(3 * q, p)
  <1>1. PICK text \in Seq(Symbols) : text = Piece(3 * m, p) /\ Len(text) = p - 3 * m
    BY PieceType
  <1>2. PICK n \in Nat : n = p - 3 * m
    OBVIOUS
  <1>3. \A i \in 1 .. n : text[i] = LineFeed <=> i \in Triples(q - m)
    <2>1. {i \in 1 .. n : text[i] = LineFeed} = Triples(q - m)
      BY <1>1, <1>2, FeedsOfPiece
    <2>2. Triples(q - m) \subseteq 1 .. n
      BY <1>2 DEF Triples
    <2> QED  BY <2>1, <2>2
  <1>4. PICK last \in Nat : last = 3 * (q - m)
    OBVIOUS
  <1>5. last \in 0 .. n /\ (last # 0 => last \in Triples(q - m))
    <2>1. last \in 0 .. n
      BY <1>2, <1>4
    <2>2. ASSUME last # 0
          PROVE  last \in Triples(q - m)
      <3>1. q - m \in 1 .. q - m
        BY <1>4, <2>2
      <3> QED  BY <1>4, <3>1 DEF Triples
    <2> QED  BY <2>1, <2>2
  <1>6. \A j \in last + 1 .. n : j \notin Triples(q - m)
    BY <1>4 DEF Triples
  <1>7. (last # 0 => text[last] = LineFeed) /\ \A j \in last + 1 .. n : text[j] # LineFeed
    <2>1. \A j \in last + 1 .. n : j \in 1 .. n
      BY <1>5
    <2> QED  BY <1>3, <1>5, <1>6, <2>1
  <1>8. ASSUME NEW i \in 0 .. n, i # 0 => text[i] = LineFeed, \A j \in i + 1 .. n : text[j] # LineFeed
        PROVE  i = last
    <2>1. CASE i < last
      <3>1. last \in i + 1 .. n /\ last # 0
        BY <1>5, <2>1
      <3> QED  BY <1>7, <1>8, <3>1
    <2>2. CASE i > last
      <3>1. i \in last + 1 .. n /\ i # 0
        BY <1>5, <2>2
      <3> QED  BY <1>7, <1>8, <3>1
    <2> QED  BY <1>5, <2>1, <2>2
  <1>9. LastFeed(text) = last
    <2>1. LastFeed(text) = CHOOSE i \in 0 .. n : (i # 0 => text[i] = LineFeed) /\ \A j \in i + 1 .. n : text[j] # LineFeed
      BY <1>1, <1>2 DEF LastFeed
    <2> QED  BY <1>5, <1>7, <1>8, <2>1
  <1>10. Rest(text) = SubSeq(text, last + 1, n)
    BY <1>1, <1>2, <1>9 DEF Rest
  <1>11. SubSeq(text, last + 1, n) = Piece(3 * q, p)
    <2>1. PICK a \in Nat : a = 3 * m
      OBVIOUS
    <2>2. a <= p /\ last <= n /\ n = p - a /\ a + last = 3 * q
      BY <1>2, <1>4, <1>5, <2>1
    <2>3. SubSeq(Piece(a, p), last + 1, n) = Piece(a + last, p)
      BY <2>2, PieceSuffix
    <2> QED  BY <1>1, <2>1, <2>2, <2>3
  <1> QED  BY <1>1, <1>10, <1>11

LEMMA EventsArePiece ==
    ASSUME NEW n \in Nat
    PROVE  FlattenSeq([i \in 1 .. n |-> Append(Line(i), LineFeed)]) = Piece(0, 3 * n)
  <1> DEFINE Events(k) == [i \in 1 .. k |-> Append(Line(i), LineFeed)]
             T == {k \in Nat : FlattenSeq(Events(k)) # Piece(0, 3 * k)}
  <1> SUFFICES ASSUME T # {} PROVE FALSE
    OBVIOUS
  <1>1. T \in SUBSET Nat
    OBVIOUS
  <1>2. PICK k \in T : \A j \in T : k <= j
    BY <1>1, LeastNumber
  <1>3. k # 0
    <2>1. Events(0) = <<>>
      OBVIOUS
    <2>2. Piece(0, 3 * 0) = <<>>
      BY DEF Piece
    <2>3. 0 \notin T
      BY <2>1, <2>2, FlattenEmpty
    <2> QED  BY <2>3
  <1>4. PICK j \in Nat : k = j + 1
    BY <1>3
  <1>5. FlattenSeq(Events(j)) = Piece(0, 3 * j)
    <2>1. ~(k <= j)
      BY <1>4
    <2>2. j \notin T
      <3> HIDE DEF T
      <3> QED  BY <1>2, <2>1
    <2> QED  BY <2>2
  <1>6. \A i \in Nat \ {0} : Append(Line(i), LineFeed) \in Seq(Symbols)
    BY DEF Line, Half, LineFeed, Symbols
  <1>7. Events(j) \in Seq(Seq(Symbols))
    BY <1>6
  <1>8. Events(j + 1) = Append(Events(j), Append(Line(j + 1), LineFeed))
    <2>1. PICK x \in Seq(Symbols) : x = Append(Line(j + 1), LineFeed)
      <3>1. j + 1 \in Nat \ {0}
        OBVIOUS
      <3> QED  BY <1>6, <3>1
    <2>2. PICK s \in Seq(Seq(Symbols)) : s = Events(j)
      BY <1>7
    <2>3. Len(s) = j /\ \A i \in 1 .. j : s[i] = Append(Line(i), LineFeed)
      BY <2>2
    <2>4. PICK t \in Seq(Seq(Symbols)) : t = Append(s, x)
      BY AppendProperties
    <2>5. DOMAIN t = 1 .. j + 1 /\ t[j + 1] = x /\ \A i \in 1 .. j : t[i] = s[i]
      <3>1. Len(t) = Len(s) + 1 /\ t[Len(s) + 1] = x /\ \A i \in 1 .. Len(s) : t[i] = s[i]
        BY <2>4, AppendProperties
      <3>2. DOMAIN t = 1 .. Len(t)
        BY LenProperties
      <3> QED  BY <2>3, <3>1, <3>2
    <2>6. \A i \in 1 .. j + 1 : t[i] = Append(Line(i), LineFeed)
      <3>1. \A i \in 1 .. j + 1 : i = j + 1 \/ i \in 1 .. j
        OBVIOUS
      <3> QED  BY <2>1, <2>3, <2>5, <3>1
    <2>7. t = [i \in 1 .. j + 1 |-> Append(Line(i), LineFeed)]
      <3>1. t = [i \in DOMAIN t |-> t[i]]
        BY LenProperties
      <3> QED  BY <2>5, <2>6, <3>1
    <2> QED  BY <2>1, <2>2, <2>4, <2>7
  <1>9. FlattenSeq(Events(j + 1)) = Piece(0, 3 * j) \o Append(Line(j + 1), LineFeed)
    <2>1. Append(Line(j + 1), LineFeed) \in Seq(Symbols)
      BY <1>6
    <2> HIDE DEF Events
    <2> QED  BY <1>5, <1>7, <1>8, <2>1, FlattenAppend
  <1>10. Piece(0, 3 * j) \o Append(Line(j + 1), LineFeed) = Piece(0, 3 * (j + 1))
    <2>1. Append(Line(j + 1), LineFeed) = Piece(3 * j, 3 * j + 3)
      BY LineIsPiece
    <2>2. Piece(0, 3 * j) \o Piece(3 * j, 3 * j + 3) = Piece(0, 3 * j + 3)
      <3>1. PICK b \in Nat, c \in Nat : b = 3 * j /\ c = 3 * j + 3
        OBVIOUS
      <3>2. 0 <= b /\ b <= c
        BY <3>1
      <3>3. Piece(0, b) \o Piece(b, c) = Piece(0, c)
        BY <3>2, PieceConcat
      <3> QED  BY <3>1, <3>3
    <2>3. 3 * (j + 1) = 3 * j + 3
      OBVIOUS
    <2> QED  BY <2>1, <2>2, <2>3
  <1>11. k \notin T
    BY <1>4, <1>9, <1>10
  <1> QED  BY <1>11

LEMMA TextIsPiece ==
    ASSUME NEW n \in Nat, NEW closed \in {TRUE, n = 0}
    PROVE  Text(n, closed) = Piece(0, 3 * n) \/ (n # 0 /\ Text(n, closed) = Piece(0, 3 * n - 1))
  <1>1. Text(n, closed) = SubSeq(Piece(0, 3 * n), 1, IF closed THEN 3 * n ELSE 3 * n - 1)
    BY EventsArePiece DEF Text
  <1>2. PICK N \in Nat : N = 3 * n
    OBVIOUS
  <1>3. CASE closed
    <2>1. SubSeq(Piece(0, N), 1, N) = Piece(0, N)
      BY PiecePrefix
    <2> QED  BY <1>1, <1>2, <1>3, <2>1
  <1>4. CASE ~closed
    <2>1. n # 0
      BY <1>4
    <2>2. PICK M \in Nat : M = N - 1 /\ M <= N
      BY <1>2, <2>1
    <2>3. SubSeq(Piece(0, N), 1, M) = Piece(0, M)
      BY <2>2, PiecePrefix
    <2> QED  BY <1>1, <1>2, <1>4, <2>1, <2>2, <2>3
  <1> QED  BY <1>3, <1>4

-----------------------------------------------------------------------------
(* Batches.                                                                  *)

Chunks == Seq(Nat)
Batches == [content : Chunks, chunkCount : 1 .. MaxChunks, done : BOOLEAN]

BInv ==
    /\ phase \in {"closed", "open", "ended", "failed"} /\ source \in Ready
    /\ script \in Seq({"content", "stop", "other"}) /\ Len(script) <= MaxLines
    /\ buffer \in Seq(Chunks) /\ Len(buffer) < MaxChunks
    /\ sent \in Seq(Batches)
    /\ phase = "closed" => sent = <<>>
    /\ \A b \in DOMAIN sent : sent[b].done <=> b = Len(sent) /\ phase = "ended"

LEMMA BatchType ==
    ASSUME BInv, NEW b \in DOMAIN sent PROVE sent[b].chunkCount \in 1 .. MaxChunks
  <1>1. sent[b] \in Batches
    BY DEF BInv
  <1> QED  BY <1>1 DEF Batches

LEMMA JoinedEmpty == Joined(<<>>) = <<>>
  <1>1. [b \in DOMAIN <<>> |-> <<>>[b].content] = <<>>
    OBVIOUS
  <1> QED  BY <1>1, FlattenEmpty DEF Joined

LEMMA ContentsType ==
    ASSUME NEW batches \in Seq(Batches)
    PROVE  [b \in DOMAIN batches |-> batches[b].content] \in Seq(Chunks)
  <1>1. \A b \in DOMAIN batches : batches[b].content \in Chunks
    <2>1. ASSUME NEW b \in DOMAIN batches
          PROVE  batches[b].content \in Chunks
      <3>1. batches[b] \in Batches
        OBVIOUS
      <3> QED  BY <3>1 DEF Batches
    <2> QED  BY <2>1
  <1>2. Len(batches) \in Nat /\ DOMAIN batches = 1 .. Len(batches)
    OBVIOUS
  <1> QED  BY <1>1, <1>2

LEMMA JoinedType ==
    ASSUME NEW batches \in Seq(Batches)
    PROVE  Joined(batches) \in Seq(Nat)
  BY ContentsType, FlattenType DEF Joined, Chunks

\* A batch more.
LEMMA JoinedAppend ==
    ASSUME NEW batches \in Seq(Batches), NEW batch \in Batches
    PROVE  Joined(Append(batches, batch)) = Joined(batches) \o batch.content
  <1>1. PICK s \in Seq(Chunks) : s = [b \in DOMAIN batches |-> batches[b].content]
    BY ContentsType
  <1>2. PICK t \in Seq(Batches) : t = Append(batches, batch)
    BY AppendProperties
  <1>3. PICK c \in Chunks : c = batch.content
    BY DEF Batches
  <1>4. PICK n \in Nat : n = Len(batches)
    OBVIOUS
  <1>5. [b \in DOMAIN t |-> t[b].content] = Append(s, c)
    <2>1. DOMAIN t = 1 .. n + 1 /\ t[n + 1] = batch /\ \A b \in 1 .. n : t[b] = batches[b]
      BY <1>2, <1>4
    <2>2. Len(s) = n /\ \A b \in 1 .. n : s[b] = batches[b].content
      BY <1>1, <1>4
    <2>3. PICK u \in Seq(Chunks) : u = Append(s, c)
      BY AppendProperties
    <2>4. u = [b \in 1 .. n + 1 |-> u[b]]
      <3>1. Len(u) = n + 1
        BY <2>2, <2>3, AppendProperties
      <3> QED  BY <3>1, LenProperties
    <2>5. \A b \in 1 .. n + 1 : u[b] = t[b].content
      <3>1. u[n + 1] = c /\ \A b \in 1 .. n : u[b] = s[b]
        BY <2>2, <2>3, AppendProperties
      <3>2. \A b \in 1 .. n + 1 : b = n + 1 \/ b \in 1 .. n
        OBVIOUS
      <3> QED  BY <1>3, <2>1, <2>2, <3>1, <3>2
    <2> QED  BY <2>1, <2>3, <2>4, <2>5
  <1>6. FlattenSeq(Append(s, c)) = FlattenSeq(s) \o c
    BY FlattenAppend DEF Chunks
  <1> QED  BY <1>1, <1>2, <1>3, <1>5, <1>6 DEF Joined

\* A chunk is kept, or sent with what was kept; the last one is sent.
LEMMA ChunkEffect ==
    ASSUME BInv, NEW content \in Chunks, NEW done \in BOOLEAN, NEW late \in BOOLEAN,
           Chunk(content, done, late)
    PROVE  /\ buffer' \in Seq(Chunks) /\ Len(buffer') < MaxChunks
           /\ \/ ~done /\ UNCHANGED sent
              \/ \E batch \in Batches : batch.done = done /\ sent' = Append(sent, batch)
           /\ done => buffer' = <<>>
           /\ Delivered \in Seq(Nat) /\ Delivered' = Delivered \o content
  <1> DEFINE chunks == Append(buffer, content)
  <1>1. chunks \in Seq(Chunks) /\ Len(chunks) \in 1 .. MaxChunks
    BY StreamingAssumption DEF BInv
  <1>2. PICK j \in Seq(Nat), f \in Seq(Nat), c \in Seq(Nat) : j = Joined(sent) /\ f = FlattenSeq(buffer) /\ c = content
    BY JoinedType, FlattenType DEF BInv, Chunks
  <1>3. FlattenSeq(chunks) = f \o c
    BY <1>2, FlattenAppend DEF BInv, Chunks
  <1>4. Delivered = j \o f /\ j \o f \in Seq(Nat) /\ f \o c \in Seq(Nat)
    BY <1>2, ConcatProperties DEF Delivered
  <1>5. (j \o f) \o c = j \o (f \o c)
    BY ConcatAssociative, SMTT(60)
  <1>6. CASE Full(chunks) \/ late \/ done
    <2>1. buffer' = <<>> /\ sent' = Append(sent, Batch(chunks, done))
      BY <1>6 DEF Chunk
    <2>2. PICK batch : batch = Batch(chunks, done)
      OBVIOUS
    <2>3. batch \in Batches /\ batch.done = done /\ batch.content = f \o c
      BY <1>1, <1>3, <1>4, <2>2 DEF Batch, Batches, Chunks
    <2>4. Joined(Append(sent, batch)) = j \o (f \o c)
      BY <1>2, <2>3, JoinedAppend DEF BInv
    <2>5. Delivered' = (j \o (f \o c)) \o <<>>
      BY <2>1, <2>2, <2>4, FlattenEmpty DEF Delivered
    <2>6. (j \o (f \o c)) \o <<>> = j \o (f \o c)
      BY <1>4, ConcatProperties, ConcatEmptySeq
    <2>7. Delivered' = Delivered \o content
      BY <1>2, <1>4, <1>5, <2>5, <2>6
    <2>8. <<>> \in Seq(Chunks) /\ Len(<<>>) < MaxChunks
      BY StreamingAssumption
    <2> QED  BY <1>4, <2>1, <2>2, <2>3, <2>7, <2>8
  <1>7. CASE ~(Full(chunks) \/ late \/ done)
    <2>1. buffer' = chunks /\ UNCHANGED sent /\ ~Full(chunks) /\ ~done
      BY <1>7 DEF Chunk
    <2>2. Len(buffer') < MaxChunks
      BY <1>1, <2>1, StreamingAssumption DEF Full
    <2>3. Delivered' = j \o (f \o c)
      BY <1>2, <1>3, <2>1 DEF Delivered
    <2> QED  BY <1>1, <1>2, <1>4, <1>5, <2>1, <2>2, <2>3
  <1> QED  BY <1>6, <1>7

LEMMA EndsKeepsInv ==
    ASSUME BInv, phase = "open", Ends, UNCHANGED <<source, script>>
    PROVE  BInv'
  <1>1. phase' = "ended" /\ \E late \in BOOLEAN : Chunk(<<>>, TRUE, late)
    BY DEF Ends
  <1>2. <<>> \in Chunks
    BY DEF Chunks
  <1>3. PICK batch \in Batches : batch.done = TRUE /\ sent' = Append(sent, batch)
    BY <1>1, <1>2, ChunkEffect
  <1>4. buffer' \in Seq(Chunks) /\ Len(buffer') < MaxChunks
    BY <1>1, <1>2, ChunkEffect
  <1>5. sent' \in Seq(Batches)
    BY <1>3 DEF BInv
  <1>6. \A b \in DOMAIN sent' : sent'[b].done <=> b = Len(sent')
    BY <1>3 DEF BInv
  <1> QED  BY <1>1, <1>4, <1>5, <1>6 DEF BInv

LEMMA ContinuesKeepsInv ==
    ASSUME BInv, phase = "open", NEW content \in Chunks, Continues(content), UNCHANGED <<source, script>>
    PROVE  BInv'
  <1>1. phase' = "open" /\ \E late \in BOOLEAN : Chunk(content, FALSE, late)
    BY DEF Continues
  <1>2. UNCHANGED sent \/ \E batch \in Batches : batch.done = FALSE /\ sent' = Append(sent, batch)
    BY <1>1, ChunkEffect
  <1>3. buffer' \in Seq(Chunks) /\ Len(buffer') < MaxChunks
    BY <1>1, ChunkEffect
  <1>4. sent' \in Seq(Batches) /\ \A b \in DOMAIN sent' : ~sent'[b].done
    <2>1. sent \in Seq(Batches) /\ \A b \in DOMAIN sent : ~sent[b].done
      BY DEF BInv
    <2>2. ASSUME NEW batch \in Batches, batch.done = FALSE, sent' = Append(sent, batch)
          PROVE  sent' \in Seq(Batches) /\ \A b \in DOMAIN sent' : ~sent'[b].done
      BY <2>1, <2>2
    <2> QED  BY <1>2, <2>1, <2>2
  <1> QED  BY <1>1, <1>3, <1>4 DEF BInv

LEMMA BeginKeepsInv == ASSUME AInv, BInv, Begin PROVE BInv'
  <1>1. PICK n \in 0 .. MaxLines : Words(n) \/ EventStream(n)
    BY DEF Begin
  <1>2. script' \in [1 .. n -> {"content", "stop", "other"}] /\ n \in Nat
    <2>1. CASE Words(n)
      BY <2>1 DEF Words
    <2>2. CASE EventStream(n)
      BY <2>2 DEF EventStream
    <2> QED  BY <1>1, <2>1, <2>2, StreamingAssumption
  <1>3. script' \in Seq({"content", "stop", "other"}) /\ Len(script') = n
    BY <1>2
  <1>4. /\ phase' = "open" /\ source' \in Ready /\ buffer' = <<>> /\ sent' = <<>>
    BY DEF Begin, AInv, AITypeOK
  <1> QED  BY <1>1, <1>3, <1>4, StreamingAssumption DEF BInv

LEMMA ReadLineKeepsInv == ASSUME BInv, ReadLine PROVE BInv'
  <1>1. phase = "open" /\ UNCHANGED <<source, script>>
    BY DEF ReadLine
  <1> DEFINE line == Head(lines)
  <1>2. CASE Means(line, "content") /\ Continues(<<line[1][1]>>)
    <2>1. PICK i \in DOMAIN script : line = Line(i)
      BY <1>2 DEF Means
    <2>2. line[1][1] = i /\ i \in Nat
      BY <2>1 DEF Line, Half, BInv
    <2> HIDE DEF line
    <2>3. PICK content : content = <<line[1][1]>>
      OBVIOUS
    <2>4. content \in Chunks
      BY <2>2, <2>3 DEF Chunks
    <2>5. Continues(content)
      BY <1>2, <2>3
    <2> QED  BY <1>1, <2>4, <2>5, ContinuesKeepsInv
  <1>3. CASE Ends
    BY <1>1, <1>3, EndsKeepsInv
  <1>4. CASE UNCHANGED <<phase, buffer, sent, stored>>
    BY <1>1, <1>4 DEF BInv
  <1> QED  BY <1>2, <1>3, <1>4 DEF ReadLine

-----------------------------------------------------------------------------
(* How far the stream has come.                                              *)

\* k lines were passed on, m were read, of which lines are left, and p of the text;
\* e is where it ends, with the last line's feed or before it.
Reading(k, m, p, e) ==
    /\ k <= m /\ 3 * m <= p /\ p <= 3 * m + 2 /\ p <= e
    /\ e = 3 * Len(script) \/ e = 3 * Len(script) - 1
    /\ lines = LinesFrom(k, m) /\ partial = Piece(3 * m, p) /\ wire = Piece(p, e)

\* contents are those of the first k lines of a script, none of which stops.
Passed(events, contents, k) ==
    /\ k <= Len(events) /\ \A i \in 1 .. k : events[i] # "stop"
    /\ InOrder(contents)
    /\ Range(contents) = {i \in 1 .. k : events[i] = "content"}

SInv ==
    /\ phase = "closed" => script = <<>> /\ sent = <<>> /\ buffer = <<>>
    /\ phase = "open" => \E k, m, p, e \in Nat : Reading(k, m, p, e) /\ Passed(script, Delivered, k)
    /\ phase = "failed" => \E k \in Nat : Passed(script, Delivered, k)
    /\ phase \in {"open", "failed"} => stored = NoAnswer
    /\ phase = "ended" => StreamIsWhole

Scripts == Seq({"content", "stop", "other"})

LEMMA PassedNothing ==
    ASSUME NEW events \in Scripts
    PROVE  Passed(events, <<>>, 0)
  BY DEF Passed, InOrder, Range, Scripts

\* Another line.
LEMMA PassedOther ==
    ASSUME NEW events \in Scripts, NEW contents \in Seq(Nat), NEW k \in Nat, k < Len(events),
           Passed(events, contents, k), events[k + 1] = "other"
    PROVE  Passed(events, contents, k + 1)
  <1>1. \A i \in 1 .. k + 1 : i = k + 1 \/ i \in 1 .. k
    OBVIOUS
  <1>2. {i \in 1 .. k + 1 : events[i] = "content"} = {i \in 1 .. k : events[i] = "content"}
    BY <1>1
  <1> QED  BY <1>1, <1>2 DEF Passed, Scripts

\* A line with content.
LEMMA PassedContent ==
    ASSUME NEW events \in Scripts, NEW contents \in Seq(Nat), NEW k \in Nat, k < Len(events),
           Passed(events, contents, k), events[k + 1] = "content"
    PROVE  Passed(events, contents \o <<k + 1>>, k + 1)
  <1>1. \A i \in 1 .. k + 1 : i = k + 1 \/ i \in 1 .. k
    OBVIOUS
  <1>2. PICK one \in Seq(Nat) : one = <<k + 1>> /\ Len(one) = 1 /\ one[1] = k + 1 /\ DOMAIN one = {1}
    <2>1. PICK one : one = <<k + 1>>
      OBVIOUS
    <2>2. one \in Seq(Nat) /\ Len(one) = 1 /\ one[1] = k + 1
      BY <2>1
    <2>3. DOMAIN one = {1}
      BY <2>1
    <2> QED  BY <2>1, <2>2, <2>3
  <1>3. PICK more \in Seq(Nat) : more = contents \o one
    BY ConcatProperties
  <1>4. PICK n \in Nat : n = Len(contents) /\ DOMAIN contents = 1 .. n
    BY LenProperties
  <1>5. Len(more) = n + 1 /\ \A i \in 1 .. n + 1 : more[i] = IF i <= n THEN contents[i] ELSE one[i - n]
    BY <1>2, <1>3, <1>4, ConcatProperties
  <1>6. DOMAIN more = 1 .. n + 1
    BY <1>5, LenProperties
  <1>7. Range(contents) = {i \in 1 .. k : events[i] = "content"} /\ \A i \in 1 .. n : contents[i] <= k
    <2>1. \A i \in 1 .. n : contents[i] \in Range(contents)
      BY <1>4 DEF Range
    <2> QED  BY <2>1 DEF Passed
  <1>8. InOrder(more)
    <2>1. ASSUME NEW i \in 1 .. n + 1, NEW j \in 1 .. n + 1, i < j
          PROVE  more[i] < more[j]
      <3>1. i \in 1 .. n /\ more[i] = contents[i]
        BY <1>5, <2>1
      <3>2. CASE j = n + 1
        <4>1. more[j] = k + 1
          <5>1. n + 1 - n = 1 /\ ~(n + 1 <= n) /\ n + 1 \in 1 .. n + 1
            OBVIOUS
          <5>2. more[n + 1] = one[n + 1 - n]
            BY <1>5, <5>1
          <5>3. one[n + 1 - n] = k + 1
            BY <1>2, <5>1
          <5> QED  BY <3>2, <5>2, <5>3
        <4>2. contents[i] \in Nat /\ contents[i] <= k
          BY <1>4, <1>7, <3>1
        <4> QED  BY <3>1, <4>1, <4>2
      <3>3. CASE j # n + 1
        <4>1. j \in 1 .. n /\ more[j] = contents[j]
          BY <1>5, <3>3
        <4> QED  BY <1>4, <2>1, <3>1, <4>1 DEF Passed, InOrder
      <3> QED  BY <3>2, <3>3
    <2> QED  BY <1>6, <2>1 DEF InOrder
  <1>9. Range(more) = {i \in 1 .. k + 1 : events[i] = "content"}
    <2>1. Range(more) = Range(contents) \cup Range(one)
      BY <1>3, RangeConcatenation
    <2>2. Range(one) = {k + 1}
      BY <1>2 DEF Range
    <2>3. {i \in 1 .. k + 1 : events[i] = "content"} = {i \in 1 .. k : events[i] = "content"} \cup {k + 1}
      BY <1>1
    <2> QED  BY <1>7, <2>1, <2>2, <2>3
  <1> QED  BY <1>1, <1>2, <1>3, <1>8, <1>9 DEF Passed, Scripts

\* What was passed on is the beginning of what is given.
LEMMA PassedIsGiven ==
    ASSUME BInv, NEW k \in Nat, Passed(script, Delivered, k)
    PROVE  /\ Range(Delivered) = Given \cap (1 .. k)
           /\ k \in 0 .. Len(script) /\ InOrder(Delivered)
           /\ k = Len(script) \/ script[k + 1] = "stop" => Range(Delivered) = Given
  <1>1. PICK events \in Scripts : events = script /\ DOMAIN events = 1 .. Len(events) /\ Len(events) \in Nat
    BY DEF BInv, Scripts
  <1>2. Given = {i \in 1 .. Len(events) : events[i] = "content" /\ \A j \in 1 .. i : events[j] # "stop"}
    BY <1>1 DEF Given
  <1>3. PICK contents : contents = Delivered
    OBVIOUS
  <1>4. /\ k <= Len(events) /\ \A i \in 1 .. k : events[i] # "stop"
        /\ InOrder(contents) /\ Range(contents) = {i \in 1 .. k : events[i] = "content"}
    BY <1>1, <1>3 DEF Passed
  <1>5. Range(contents) = Given \cap (1 .. k)
    BY <1>2, <1>4
  <1>6. ASSUME k = Len(events) \/ events[k + 1] = "stop"
        PROVE  Given \subseteq 1 .. k
    <2>1. PICK n \in Nat : n = Len(events)
      BY <1>1
    <2>2. ASSUME NEW x \in 1 .. n, x \in Given
          PROVE  x \in 1 .. k
      <3>1. \A j \in 1 .. x : events[j] # "stop"
        BY <1>2, <2>1, <2>2
      <3>2. CASE k = n
        BY <3>2
      <3>3. CASE events[k + 1] = "stop"
        <4>1. ~(k + 1 \in 1 .. x)
          BY <3>1, <3>3
        <4> QED  BY <4>1
      <3> QED  BY <1>6, <2>1, <3>2, <3>3
    <2>3. Given \subseteq 1 .. n
      BY <1>2, <2>1
    <2> QED  BY <2>2, <2>3
  <1>7. k = Len(script) \/ script[k + 1] = "stop" => Range(contents) = Given
    <2>1. k = Len(script) \/ script[k + 1] = "stop" => Given \subseteq 1 .. k
      BY <1>1, <1>6
    <2> QED  BY <1>5, <2>1
  <1>8. k \in 0 .. Len(script)
    BY <1>1, <1>4
  <1> QED  BY <1>3, <1>4, <1>5, <1>7, <1>8

-----------------------------------------------------------------------------
(* Every step of the stream keeps SInv.                                      *)

LEMMA LinesFromType ==
    ASSUME NEW k \in Nat, NEW m \in Nat, k <= m
    PROVE  /\ LinesFrom(k, m) = <<>> <=> k = m
           /\ k < m => Head(LinesFrom(k, m)) = Line(k + 1) /\ Tail(LinesFrom(k, m)) = LinesFrom(k + 1, m)
  <1>1. PICK s \in Seq(Seq(Symbols)) : s = LinesFrom(k, m) /\ Len(s) = m - k /\ \A j \in 1 .. m - k : s[j] = Line(k + j)
    <2>1. \A j \in 1 .. m - k : Line(k + j) \in Seq(Symbols)
      BY DEF Line, Half, Symbols
    <2>2. PICK n \in Nat : n = m - k
      OBVIOUS
    <2>3. LinesFrom(k, m) \in [1 .. n -> Seq(Symbols)]
      BY <2>1, <2>2 DEF LinesFrom
    <2>4. LinesFrom(k, m) \in Seq(Seq(Symbols)) /\ Len(LinesFrom(k, m)) = n
      BY <2>3
    <2>5. \A j \in 1 .. n : LinesFrom(k, m)[j] = Line(k + j)
      BY <2>2 DEF LinesFrom
    <2> QED  BY <2>2, <2>4, <2>5
  <1>2. s = <<>> <=> k = m
    BY <1>1, EmptySeq
  <1>3. ASSUME k < m
        PROVE  Head(s) = Line(k + 1) /\ Tail(s) = LinesFrom(k + 1, m)
    <2>1. s # <<>>
      BY <1>2, <1>3
    <2>2. Head(s) = s[1] /\ 1 \in 1 .. m - k
      BY <1>1, <1>3, <2>1
    <2>3. PICK t \in Seq(Seq(Symbols)) : t = Tail(s) /\ Len(t) = Len(s) - 1 /\ \A j \in 1 .. Len(t) : t[j] = s[j + 1]
      BY <2>1, HeadTailProperties
    <2>4. Len(t) = m - (k + 1)
      BY <1>1, <2>3
    <2>5. \A j \in 1 .. m - (k + 1) : t[j] = Line((k + 1) + j)
      <3>1. ASSUME NEW j \in 1 .. m - (k + 1)
            PROVE  t[j] = Line((k + 1) + j)
        <4>1. t[j] = s[j + 1] /\ j + 1 \in 1 .. m - k /\ k + (j + 1) = (k + 1) + j
          BY <2>3, <2>4
        <4> QED  BY <1>1, <4>1
      <3> QED  BY <3>1
    <2>6. t = [j \in 1 .. m - (k + 1) |-> t[j]]
      BY <2>4, LenProperties
    <2>7. t = LinesFrom(k + 1, m)
      BY <2>5, <2>6 DEF LinesFrom
    <2> QED  BY <1>1, <2>2, <2>3, <2>7
  <1> QED  BY <1>1, <1>2, <1>3

LEMMA ThreesAround ==
    ASSUME NEW p \in Nat PROVE \E q \in Nat : 3 * q <= p /\ p <= 3 * q + 2
  <1>1. PICK q \in Nat : q = p \div 3
    OBVIOUS
  <1> QED  BY <1>1

LEMMA ReadPieceKeepsSInv == ASSUME BInv, SInv, ReadPiece PROVE SInv'
  <1>1. /\ phase = "open" /\ phase' = "open" /\ lines = <<>> /\ wire # <<>> /\ stored' = stored
        /\ UNCHANGED <<script, sent, buffer>>
    BY DEF ReadPiece
  <1>2. PICK k \in Nat, m \in Nat, p \in Nat, e \in Nat : Reading(k, m, p, e) /\ Passed(script, Delivered, k)
    BY <1>1 DEF SInv
  <1>3. k <= m /\ 3 * m <= p /\ p <= e /\ lines = LinesFrom(k, m) /\ partial = Piece(3 * m, p) /\ wire = Piece(p, e)
    BY <1>2 DEF Reading
  <1>4. k = m
    BY <1>1, <1>3, LinesFromType
  <1>5. Len(wire) = e - p
    BY <1>3, PieceType
  <1>6. PICK n \in 1 .. Len(wire) :
          /\ wire' = SubSeq(wire, n + 1, Len(wire))
          /\ lines' = LinesOf(partial \o SubSeq(wire, 1, n)) /\ partial' = Rest(partial \o SubSeq(wire, 1, n))
    BY DEF ReadPiece
  <1>7. PICK r \in Nat : r = p + n
    BY <1>5, <1>6
  <1>8. r <= e /\ p <= r /\ n \in Nat /\ n <= e - p
    BY <1>3, <1>5, <1>6, <1>7
  <1>9. wire' = Piece(r, e)
    <2>1. SubSeq(Piece(p, e), n + 1, e - p) = Piece(p + n, e)
      BY <1>3, <1>8, PieceSuffix
    <2> QED  BY <1>3, <1>5, <1>6, <1>7, <2>1
  <1>10. SubSeq(wire, 1, n) = Piece(p, r)
    BY <1>3, <1>7, <1>8, PiecePrefix
  <1>11. partial \o SubSeq(wire, 1, n) = Piece(3 * m, r)
    <2>1. PICK a \in Nat : a = 3 * m
      OBVIOUS
    <2>2. a <= p
      BY <1>3, <2>1
    <2>3. Piece(a, p) \o Piece(p, r) = Piece(a, r)
      BY <1>8, <2>2, PieceConcat
    <2> QED  BY <1>3, <1>10, <2>1, <2>3
  <1>12. PICK q \in Nat : 3 * q <= r /\ r <= 3 * q + 2
    BY ThreesAround
  <1>13. m <= q
    BY <1>3, <1>8, <1>12
  <1>14. lines' = LinesFrom(m, q) /\ partial' = Piece(3 * q, r)
    <2>1. LinesOf(Piece(3 * m, r)) = LinesFrom(m, q)
      BY <1>12, <1>13, LinesOfPiece
    <2>2. Rest(Piece(3 * m, r)) = Piece(3 * q, r)
      BY <1>12, <1>13, RestOfPiece
    <2> QED  BY <1>6, <1>11, <2>1, <2>2
  <1>15. Reading(k, q, r, e)'
    BY <1>1, <1>2, <1>4, <1>8, <1>9, <1>12, <1>13, <1>14 DEF Reading
  <1>16. Passed(script, Delivered, k)'
    BY <1>1, <1>2 DEF Delivered
  <1>17. stored' = NoAnswer
    BY <1>1 DEF SInv
  <1> QED  BY <1>1, <1>15, <1>16, <1>17 DEF SInv

\* A stop, and the end of the text.
LEMMA EndsKeepsSInv ==
    ASSUME BInv, Ends, UNCHANGED <<script, wire, partial>>, NEW k \in Nat, Passed(script, Delivered, k),
           {i \in Given : Complete(i)} = Range(Delivered)
    PROVE  SInv'
  <1>1. /\ phase' = "ended" /\ stored' = Joined(sent')
        /\ \E late \in BOOLEAN : Chunk(<<>>, TRUE, late)
    BY DEF Ends
  <1>2. /\ buffer' = <<>> /\ Delivered \in Seq(Nat) /\ Delivered' = Delivered \o <<>>
        /\ \E batch \in Batches : sent' = Append(sent, batch)
    <2>1. <<>> \in Chunks
      BY DEF Chunks
    <2> QED  BY <1>1, <2>1, ChunkEffect
  <1>3. Delivered' = Delivered
    BY <1>2, ConcatEmptySeq
  <1>4. sent' \in Seq(Batches)
    BY <1>2 DEF BInv
  <1>5. Delivered' = Joined(sent')
    <2>1. PICK s \in Seq(Nat) : s = Joined(sent')
      BY <1>4, JoinedType
    <2>2. Delivered' = s \o <<>>
      BY <1>2, <2>1, FlattenEmpty DEF Delivered
    <2> QED  BY <2>1, <2>2, ConcatEmptySeq
  <1>6. Range(Delivered) = Given \cap (1 .. k) /\ k \in 0 .. Len(script) /\ InOrder(Delivered)
    BY PassedIsGiven
  <1>7. Given' = Given /\ \A i : Complete(i)' = Complete(i)
    BY DEF Given, Complete
  <1> QED  BY <1>1, <1>3, <1>5, <1>6, <1>7 DEF SInv, StreamIsWhole

LEMMA ReadDoneKeepsSInv == ASSUME BInv, SInv, ReadDone PROVE SInv'
  <1>1. phase = "open" /\ lines = <<>> /\ wire = <<>> /\ Ends /\ UNCHANGED <<script, wire, partial>>
    BY DEF ReadDone
  <1>2. PICK k \in Nat, m \in Nat, p \in Nat, e \in Nat : Reading(k, m, p, e) /\ Passed(script, Delivered, k)
    BY <1>1 DEF SInv
  <1>3. PICK n \in Nat : n = Len(script) /\ DOMAIN script = 1 .. n
    BY LenProperties DEF BInv
  <1>4. /\ k <= m /\ 3 * m <= p /\ p <= 3 * m + 2 /\ p <= e /\ (e = 3 * n \/ e = 3 * n - 1)
        /\ lines = LinesFrom(k, m) /\ partial = Piece(3 * m, p) /\ wire = Piece(p, e)
    BY <1>2, <1>3 DEF Reading
  <1>5. k = m
    BY <1>1, <1>4, LinesFromType
  <1>6. p = e
    <2>1. Len(wire) = e - p
      BY <1>4, PieceType
    <2> QED  BY <1>1, <1>4, <2>1
  <1>7. Range(Delivered) = Given \cap (1 .. k) /\ k \in 0 .. n /\ (k = n => Range(Delivered) = Given)
    BY <1>2, <1>3, PassedIsGiven
  <1>8. Len(partial) = p - 3 * m
    <2>1. PICK a \in Nat : a = 3 * m
      OBVIOUS
    <2> QED  BY <1>4, <2>1, PieceType
  <1>9. Given \subseteq 1 .. n /\ \A i : Complete(i) <=> i < n \/ partial = <<>>
    BY <1>1, <1>3 DEF Given, Complete
  <1>10. {i \in Given : Complete(i)} = Range(Delivered)
    <2>1. CASE e = 3 * n
      <3>1. m = n /\ p = 3 * m
        BY <1>4, <1>6, <2>1
      <3>2. partial = <<>>
        BY <3>1, <1>4 DEF Piece
      <3> QED  BY <1>5, <1>7, <1>9, <3>1, <3>2
    <2>2. CASE e = 3 * n - 1
      <3>1. m = n - 1 /\ p - 3 * m = 2
        BY <1>4, <1>6, <2>2
      <3>2. partial # <<>>
        BY <1>8, <3>1
      <3>3. {i \in Given : Complete(i)} = {i \in Given : i < n}
        BY <1>9, <3>2
      <3>4. {i \in Given : i < n} = Given \cap (1 .. k)
        <4>1. k \in Int /\ k = n - 1
          BY <1>5, <3>1
        <4>2. \A i \in 1 .. n : i < n <=> i \in 1 .. k
          BY <4>1
        <4>3. Given \subseteq 1 .. n
          BY <1>9
        <4> QED  BY <4>2, <4>3
      <3> QED  BY <1>7, <3>3, <3>4
    <2> QED  BY <1>4, <2>1, <2>2
  <1> QED  BY <1>1, <1>2, <1>10, EndsKeepsSInv

LEMMA ReadLineKeepsSInv == ASSUME BInv, SInv, ReadLine PROVE SInv'
  <1>1. /\ phase = "open" /\ lines # <<>> /\ lines' = Tail(lines)
        /\ UNCHANGED <<script, wire, partial>>
    BY DEF ReadLine
  <1>2. PICK k \in Nat, m \in Nat, p \in Nat, e \in Nat : Reading(k, m, p, e) /\ Passed(script, Delivered, k)
    BY <1>1 DEF SInv
  <1>3. PICK events \in Scripts : events = script /\ DOMAIN events = 1 .. Len(events)
    BY LenProperties DEF BInv, Scripts
  <1>4. PICK n \in Nat : n = Len(events)
    BY LenProperties DEF Scripts
  <1>5. /\ k <= m /\ 3 * m <= p /\ p <= 3 * m + 2 /\ p <= e /\ (e = 3 * n \/ e = 3 * n - 1)
        /\ lines = LinesFrom(k, m) /\ partial = Piece(3 * m, p) /\ wire = Piece(p, e)
    BY <1>2, <1>3, <1>4 DEF Reading
  <1>6. k < m /\ Head(lines) = Line(k + 1) /\ lines' = LinesFrom(k + 1, m)
    <2>1. k # m
      BY <1>1, <1>5, LinesFromType
    <2>2. k < m
      BY <1>5, <2>1
    <2> QED  BY <1>1, <1>5, <2>2, LinesFromType
  <1>7. k < n /\ k + 1 <= m /\ k + 1 \in 1 .. n
    BY <1>5, <1>6
  <1>8. Reading(k + 1, m, p, e)'
    BY <1>1, <1>3, <1>4, <1>5, <1>6, <1>7 DEF Reading
  <1>9. stored = NoAnswer
    BY <1>1 DEF SInv
  <1>10. \A kind : Means(Head(lines), kind) <=> events[k + 1] = kind
    <2>1. \A i : Line(k + 1) = Line(i) => i = k + 1
      BY DEF Line, Half
    <2> QED  BY <1>3, <1>4, <1>6, <1>7, <2>1 DEF Means
  <1>11. Passed(events, Delivered, k)
    BY <1>2, <1>3
  <1>12. CASE events[k + 1] = "content"
    <2>1. Continues(<<Head(lines)[1][1]>>)
      BY <1>10, <1>12 DEF ReadLine
    <2>2. Head(lines)[1][1] = k + 1
      BY <1>6 DEF Line, Half
    <2>3. phase' = phase /\ stored' = stored /\ \E late \in BOOLEAN : Chunk(<<k + 1>>, FALSE, late)
      BY <2>1, <2>2 DEF Continues
    <2>4. <<k + 1>> \in Chunks
      BY DEF Chunks
    <2>5. Delivered \in Seq(Nat) /\ Delivered' = Delivered \o <<k + 1>>
      BY <2>3, <2>4, ChunkEffect
    <2>6. PICK contents \in Seq(Nat) : contents = Delivered
      BY <2>5
    <2>7. PICK more : more = Delivered'
      OBVIOUS
    <2>8. Passed(events, more, k + 1)
      BY <1>4, <1>7, <1>11, <1>12, <2>5, <2>6, <2>7, PassedContent
    <2>9. Passed(script, Delivered, k + 1)'
      BY <1>1, <1>3, <2>7, <2>8
    <2> QED  BY <1>1, <1>7, <1>8, <1>9, <2>3, <2>9 DEF SInv
  <1>13. CASE events[k + 1] = "stop"
    <2>1. Ends
      BY <1>10, <1>13 DEF ReadLine
    <2>2. Range(Delivered) = Given \cap (1 .. k) /\ Range(Delivered) = Given
      BY <1>2, <1>3, <1>13, PassedIsGiven
    <2>3. \A i \in 1 .. k : Complete(i)
      BY <1>3, <1>4, <1>7 DEF Complete
    <2>4. {i \in Given : Complete(i)} = Range(Delivered)
      BY <2>2, <2>3
    <2> QED  BY <1>1, <1>2, <2>1, <2>4, EndsKeepsSInv
  <1>14. CASE events[k + 1] = "other"
    <2>1. UNCHANGED <<phase, buffer, sent, stored>>
      BY <1>10, <1>14 DEF ReadLine
    <2>2. PICK contents \in Seq(Nat) : contents = Delivered
      BY JoinedType, FlattenType, ConcatProperties DEF Delivered, BInv, Chunks
    <2>3. Passed(events, contents, k + 1)
      BY <1>4, <1>7, <1>11, <1>14, <2>2, PassedOther
    <2>4. Delivered' = contents
      BY <2>1, <2>2 DEF Delivered
    <2>5. Passed(script, Delivered, k + 1)'
      BY <1>1, <1>3, <2>3, <2>4
    <2> QED  BY <1>1, <1>7, <1>8, <1>9, <2>1, <2>5 DEF SInv
  <1>15. events[k + 1] \in {"content", "stop", "other"}
    BY <1>4, <1>7 DEF Scripts
  <1> QED  BY <1>12, <1>13, <1>14, <1>15

LEMMA BeginKeepsSInv == ASSUME AInv, BInv, Begin PROVE SInv'
  <1>1. /\ phase' = "open" /\ partial' = <<>> /\ buffer' = <<>> /\ sent' = <<>> /\ stored' = NoAnswer
    BY DEF Begin
  <1>2. PICK n \in 0 .. MaxLines : Words(n) \/ EventStream(n)
    BY DEF Begin
  <1>3. n \in Nat
    BY StreamingAssumption
  <1>4. BInv'
    BY BeginKeepsInv
  <1>5. Delivered' = <<>>
    BY <1>1, JoinedEmpty, FlattenEmpty, ConcatEmptySeq DEF Delivered
  <1>6. Passed(script, Delivered, 0)'
    <2>1. PICK events \in Scripts : events = script'
      BY <1>4 DEF BInv, Scripts
    <2>2. Passed(events, <<>>, 0)
      BY PassedNothing
    <2> QED  BY <1>5, <2>1, <2>2
  <1>7. CASE Words(n)
    <2>1. script' = [i \in 1 .. n |-> "content"] /\ lines' = [i \in 1 .. n |-> Line(i)] /\ wire' = <<>>
      BY <1>7 DEF Words
    <2>2. Len(script') = n
      BY <1>3, <2>1
    <2>3. lines' = LinesFrom(0, n)
      BY <1>3, <2>1 DEF LinesFrom
    <2>4. PICK e \in Nat : e = 3 * n
      BY <1>3
    <2>5. Piece(3 * n, e) = <<>> /\ Piece(e, e) = <<>>
      BY <1>3, <2>4 DEF Piece
    <2>6. Reading(0, n, e, e)'
      BY <1>1, <1>3, <2>1, <2>2, <2>3, <2>4, <2>5 DEF Reading
    <2> QED  BY <1>1, <1>3, <1>6, <2>6 DEF SInv
  <1>8. CASE EventStream(n)
    <2>1. script' \in [1 .. n -> {"content", "stop", "other"}] /\ lines' = <<>>
      BY <1>8 DEF EventStream
    <2>2. PICK closed \in {TRUE, n = 0} : wire' = Text(n, closed)
      BY <1>8 DEF EventStream
    <2>3. Len(script') = n
      BY <1>3, <2>1
    <2>4. wire' = Piece(0, 3 * n) \/ (n # 0 /\ wire' = Piece(0, 3 * n - 1))
      BY <1>3, <2>2, TextIsPiece
    <2>5. PICK e \in Nat : (e = 3 * n \/ e = 3 * n - 1) /\ wire' = Piece(0, e)
      <3>1. 3 * n \in Nat /\ (n # 0 => 3 * n - 1 \in Nat)
        BY <1>3
      <3> QED  BY <2>4, <3>1
    <2>6. Piece(3 * 0, 0) = <<>> /\ LinesFrom(0, 0) = <<>>
      BY DEF Piece, LinesFrom
    <2>7. Reading(0, 0, 0, e)'
      BY <1>1, <2>1, <2>3, <2>5, <2>6 DEF Reading
    <2> QED  BY <1>1, <1>6, <2>7 DEF SInv
  <1> QED  BY <1>2, <1>7, <1>8

LEMMA StreamFailsKeepsSInv == ASSUME SInv, StreamFails PROVE SInv'
  <1>1. phase = "open" /\ phase' = "failed" /\ UNCHANGED <<script, sent, buffer, stored>>
    BY DEF StreamFails
  <1>2. PICK k \in Nat : Passed(script, Delivered, k)
    BY <1>1 DEF SInv
  <1>3. Passed(script, Delivered, k)'
    BY <1>1, <1>2 DEF Delivered
  <1> QED  BY <1>1, <1>3 DEF SInv

LEMMA StutterKeepsSInv == ASSUME SInv, UNCHANGED streamVars PROVE SInv'
  BY DEF SInv, streamVars, Reading, Delivered, StreamIsWhole, Given, Complete

-----------------------------------------------------------------------------
IInv == AInv /\ BInv /\ SInv

LEMMA InitInv == Init => IInv
  <1> SUFFICES ASSUME Init PROVE IInv
    OBVIOUS
  <1>1. AInv
    BY AIInitInv DEF Init
  <1>2. source \in Ready
    BY <1>1 DEF Init, AInv, AITypeOK
  <1>3. BInv
    BY <1>2, StreamingAssumption DEF Init, BInv
  <1>4. SInv
    BY DEF Init, SInv
  <1> QED  BY <1>1, <1>3, <1>4 DEF IInv

LEMMA NextKeepsInv == IInv /\ [Next]_vars => IInv'
  <1> SUFFICES ASSUME IInv, [Next]_vars PROVE IInv'
    OBVIOUS
  <1>1. CASE AISteps /\ UNCHANGED streamVars
    <2>1. AInv' /\ SInv'
      BY <1>1, AIKeepsInv, StutterKeepsSInv DEF IInv
    <2>2. BInv'
      BY <1>1 DEF IInv, BInv, streamVars
    <2> QED  BY <2>1, <2>2 DEF IInv
  <1>2. CASE StreamSteps
    <2>1. UNCHANGED aiVars
      BY <1>2 DEF StreamSteps, Begin, ReadPiece, ReadDone, ReadLine, StreamFails
    <2>2. AInv'
      BY <2>1, AIKeepsInv DEF IInv
    <2>3. CASE Begin
      BY <2>2, <2>3, BeginKeepsInv, BeginKeepsSInv DEF IInv
    <2>4. CASE ReadPiece
      <3>1. BInv'
        BY <2>4 DEF ReadPiece, IInv, BInv
      <3> QED  BY <2>2, <2>4, <3>1, ReadPieceKeepsSInv DEF IInv
    <2>5. CASE ReadDone
      <3>1. BInv'
        BY <2>5, EndsKeepsInv DEF ReadDone, IInv
      <3> QED  BY <2>2, <2>5, <3>1, ReadDoneKeepsSInv DEF IInv
    <2>6. CASE ReadLine
      BY <2>2, <2>6, ReadLineKeepsInv, ReadLineKeepsSInv DEF IInv
    <2>7. CASE StreamFails
      <3>1. BInv'
        BY <2>7 DEF StreamFails, IInv, BInv
      <3> QED  BY <2>2, <2>7, <3>1, StreamFailsKeepsSInv DEF IInv
    <2> QED  BY <1>2, <2>3, <2>4, <2>5, <2>6, <2>7 DEF StreamSteps
  <1>3. CASE UNCHANGED vars
    <2>1. AInv' /\ SInv'
      BY <1>3, AIKeepsInv, StutterKeepsSInv DEF IInv, vars
    <2>2. BInv'
      BY <1>3 DEF vars, IInv, BInv, streamVars
    <2> QED  BY <2>1, <2>2 DEF IInv
  <1> QED  BY <1>1, <1>2, <1>3 DEF Next

LEMMA Invariance == Spec => []IInv
  BY InitInv, NextKeepsInv, PTL DEF Spec

-----------------------------------------------------------------------------
(* The theorems.                                                             *)

\* Every variable of the AI service and of the stream has its type, in every
\* state that ai.service.ts, the providers' readers and the batcher can reach.
THEOREM TypeCorrect == Spec => []TypeOK
  <1>1. IInv => TypeOK
    BY BatchType, StreamingAssumption DEF IInv, AInv, BInv, TypeOK
  <1> QED  BY <1>1, Invariance, PTL

\* generateCompletion never answers out of the cache with another provider's
\* completion or that of a conversation that reads otherwise.
THEOREM CacheAnswersForItsOwn == Spec => []CachedAnswersAreOwn
  <1>1. IInv => CachedAnswersAreOwn
    BY DEF IInv, AInv
  <1> QED  BY <1>1, Invariance, PTL

\* batchStreamChunks keeps to maxChunks, and exactly the last batch of a stream
\* that ended is marked as done.
THEOREM BatchesKeepToTheirSize == Spec => []BatchesAreBounded
  <1>1. IInv => BatchesAreBounded
    BY BatchType, StreamingAssumption DEF IInv, BInv, BatchesAreBounded
  <1> QED  BY <1>1, Invariance, PTL

\* However the network cuts the text that generateStream reads and whenever
\* batchStreamChunks sends, the client and the batcher have the first contents that
\* the provider gave, each once and in order; the gateway stores all of them when
\* the stream ends, and nothing when it fails.
THEOREM StreamsAreWhole == Spec => []StreamIsWhole
  <1>1. SInv /\ BInv => StreamIsWhole
    <2> SUFFICES ASSUME SInv, BInv PROVE StreamIsWhole
      OBVIOUS
    <2>1. CASE phase = "ended"
      BY <2>1 DEF SInv
    <2>2. ASSUME NEW k \in Nat, Passed(script, Delivered, k), phase # "ended"
          PROVE  StreamIsWhole
      BY <2>2, PassedIsGiven DEF SInv, StreamIsWhole
    <2>3. CASE phase = "closed"
      <3>1. Delivered = <<>> /\ script = <<>> /\ script \in Scripts
        BY <2>3, JoinedEmpty, FlattenEmpty, ConcatEmptySeq DEF SInv, Delivered, Scripts
      <3>2. Passed(script, Delivered, 0)
        BY <3>1, PassedNothing
      <3> QED  BY <2>2, <2>3, <3>2
    <2>4. CASE phase = "open"
      BY <2>2, <2>4 DEF SInv
    <2>5. CASE phase = "failed"
      BY <2>2, <2>5 DEF SInv
    <2> QED  BY <2>1, <2>3, <2>4, <2>5 DEF BInv
  <1> QED  BY <1>1, Invariance, PTL DEF IInv
=============================================================================
