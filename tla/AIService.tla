----------------------------- MODULE AIService -----------------------------
(* AIService (src/src/ai/ai.service.ts), caching enabled: the active         *)
(* provider may be switched at any moment, also while a completion is        *)
(* awaited, and answers are cached under the provider's name and the         *)
(* normalized conversation.                                                  *)
EXTENDS Naturals

CONSTANTS
    Providers,      \* the registered providers
    Ready,          \* those whose isAvailable is true
    Mock,           \* the provider to fall back on
    Conversations,
    Normalized,     \* a conversation's trimmed and lower-cased messages
    Calls           \* places for completions that await

ASSUME AIServiceAssumption ==
    /\ Mock \in Ready /\ Ready \subseteq Providers
    /\ DOMAIN Normalized = Conversations

VARIABLES
    activeProvider,
    responseCache,  \* cache key -> the completion kept for it
    call

aiVars == <<activeProvider, responseCache, call>>

Keys == Providers \X {Normalized[c] : c \in Conversations}
Nothing == [by |-> "nobody"]
Idle == [phase |-> "idle"]

\* Mutant: the configured provider is taken, ready or not.
SelectedUnchecked(configured) == configured

\* selectActiveProvider, for whatever is configured.
Selected(configured) == IF configured \in Ready THEN configured ELSE Mock

AIInit ==
    /\ \E configured \in Providers : activeProvider = Selected(configured)
    /\ responseCache = [k \in Keys |-> Nothing]
    /\ call = [r \in Calls |-> Idle]

-----------------------------------------------------------------------------
GenerateCacheKey(c) == <<activeProvider, Normalized[c]>>

\* generateCompletion: a hit is answered at once and leaves everything as it was.
GenerateCompletion(r, c) ==
    /\ call[r] = Idle
    /\ responseCache[GenerateCacheKey(c)] = Nothing
    /\ call' = [call EXCEPT ![r] =
         [phase |-> "awaiting", conversation |-> c, key |-> GenerateCacheKey(c), provider |-> activeProvider]]
    /\ UNCHANGED <<activeProvider, responseCache>>

\* Mutant: the key is made when the answer is there.
LateKey(r) == GenerateCacheKey(call[r].conversation)

\* The key was made before the call.
KeyOf(r) == call[r].key

\* The provider answers, for the conversation it was given.
CompletionArrives(r) ==
    /\ call[r] # Idle /\ call[r].provider \in Ready
    /\ responseCache' = [responseCache EXCEPT ![KeyOf(r)] =
         [by |-> call[r].provider, to |-> call[r].conversation]]
    /\ call' = [call EXCEPT ![r] = Idle]
    /\ UNCHANGED activeProvider

\* It throws, and nothing is kept.
CompletionFails(r) ==
    /\ call[r] # Idle /\ call[r].provider # Mock
    /\ call' = [call EXCEPT ![r] = Idle]
    /\ UNCHANGED <<activeProvider, responseCache>>

SwitchProvider(p) ==
    /\ p \in Ready \ {activeProvider}
    /\ activeProvider' = p
    /\ UNCHANGED <<responseCache, call>>

ClearCache ==
    /\ responseCache' = [k \in Keys |-> Nothing]
    /\ UNCHANGED <<activeProvider, call>>

\* An entry expires or is evicted.
CacheForgets(k) ==
    /\ responseCache[k] # Nothing
    /\ responseCache' = [responseCache EXCEPT ![k] = Nothing]
    /\ UNCHANGED <<activeProvider, call>>

AISteps ==
    \/ \E r \in Calls :
         \/ \E c \in Conversations : GenerateCompletion(r, c)
         \/ CompletionArrives(r) \/ CompletionFails(r)
    \/ \E p \in Providers : SwitchProvider(p)
    \/ ClearCache \/ \E k \in Keys : CacheForgets(k)

-----------------------------------------------------------------------------
(* Properties.                                                               *)

AITypeOK ==
    /\ activeProvider \in Ready
    /\ responseCache \in [Keys -> {Nothing} \cup [by : Ready, to : Conversations]]
    /\ call \in [Calls -> {Idle} \cup
         [phase : {"awaiting"}, conversation : Conversations, key : Keys, provider : Ready]]

\* What the cache answers with is what the provider that is active would have
\* been asked: its own completion of a conversation that reads the same, whatever
\* was switched, cleared or evicted while completions were awaited.
CachedAnswersAreOwn ==
    \A k \in Keys : responseCache[k] # Nothing =>
        responseCache[k].by = k[1] /\ Normalized[responseCache[k].to] = k[2]
=============================================================================
