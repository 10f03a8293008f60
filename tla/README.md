# Talksy: TLA+ models and proofs

Talksy is a NestJS server: clients open a WebSocket, send messages, and get the
answers of an AI provider, which the server keeps with the questions in a
session per client. Everything runs on Node's single thread. A method that does
not await runs to completion, so in these models **a method is an action**; a
handler that awaits is split at its awaits, and everything else may happen in
between; a timer callback is an action enabled from its deadline on (a timer may
be late, never early). Paths below are relative to the repository (`src/` here
is its `src/` directory).

## 1. The system

| Component | State | Operations | Modelled in |
|---|---|---|---|
| Conversation history, `session/utils/circular-buffer.ts` | slots, `head`, `size` | `push`, `toArray`, `peekFirst`, `peekLast` | `CircularBuffer`, `BoundedHistory` |
| Session store, `session/session.service.ts` | `sessions`, `expirationTimers`, `disconnectTimers`; the Map's insertion order | create, destroy, mark disconnected, reconnect, touch, add message, read, expire; timer callbacks, sweep, shutdown | `Session`, `Conversation` |
| Gateway, `gateway/assistant.gateway.ts` | open sockets, handlers that await | connect, disconnect, `user_message`, `user_message_stream`, `get_history`, `get_session_info` | `Gateway` |
| Rate limiter, `rate-limit/` | one ring of timestamps per client | `consume`, `checkLimit`, `recordRequest`, `getRequestCount`, resets, sweep | `RateLimit`, `SlidingWindow` |
| Tool executor, `tools/services/tool-executor.service.ts` | per session a Set of call ids; calls that await | `execute`: check, track, validate; handler and timeout settling | `ToolExecutor`, `ToolParameters`, `ToolCalls` |
| Tool registry, `tools/services/tool-registry.service.ts` | maps by name and category | register, override, unregister, clear, look up | `ToolRegistry` |
| AI service, `ai/ai.service.ts` | active provider, response cache | complete, stream, switch provider, clear | `AIService` |
| AI providers, `ai/providers/` | the stream reader's buffer | completions and streams of Groq and of a mock; OpenAI is a placeholder | `Streaming`; completions as outcomes |
| Stream batcher, `gateway/utils/stream-batcher.ts` | buffer, time of last flush | batch per count, time, end | `Streaming` |
| Authentication, `auth/` | refresh tokens in Redis or memory | register, login, refresh, logout, validate | `Auth` |
| Users, `user/user.service.ts` | users and e-mail index in Redis or memory | create, find, change password, delete | `Users` |
| Caches, `cache/` | LRU caches with TTL, reverse index of tokens | get, set, invalidate, prune | `LRUCache`, `TokenCache`; the user caches in `Users` |
| Session storage, `storage/` | active adapter, fallback flag, entries with timers | get, set, delete, clear; fall back, reconnect | `Storage` |
| Redis pool, `redis/redis-pool.service.ts` | client, `isConnected`, connection in progress | connect, disconnect, events | `RedisPool` |
| Pipeline, `common/`, `gateway/filters/`, and shell (`main.ts`, `app.*`, `config/`, `adapters/`) | none of its own | format, log, check one request; wiring | left out |

How they interact:

* The **gateway** calls the **session store** synchronously. `handleConnection`
  reconnects a disconnected session or else creates one (which may evict another
  client's); `handleDisconnect` starts the grace period; a message handler stores
  the question, awaits the AI service, and then stores the answer in whatever
  session the client id has by then.
* The store's **timers and sweep** run between any two calls. Reads destroy what
  they find expired.
* The **rate limiter** stands in front of `user_message` as a guard and shares no
  state with the rest.
* `call_tool` awaits the **tool executor**; the context's session id is the
  client id, and the call id is the client's own when the client sends one.
* Auth, users and caches serve the HTTP side; they share the Redis pool, and each
  falls back to maps in memory at every single operation. The session storage
  with Redis is complete but no other part uses it yet.

Socket.io gives each connection a new id, so a client is "back" in the store's
sense only if its socket id returns; the code is written for that case, and the
models follow the code.

What is hard here: timers left over from an earlier life of a session, with
deadlines that pass while it is disconnected, touched or replaced; answers that
arrive after their session went; a Map's order kept by hand as the order of use;
rings at the wrap; lazily expired entries against a sweep; slots given back
twice or never; reads, checks and writes that awaits pull apart, on two stores of
which either may answer; a command that failed after Redis executed it; caches
and indexes beside each other; a stream cut anywhere. PROJECT.json lists each
hazard at its line.

## 2. The modules

| Module | Contents |
|---|---|
| `BoundedHistory` | `Remember`: what a history promises |
| `CircularBuffer` | the ring as a record, `Push`, `ToArray`, `PeekFirst`, `PeekLast`; `IsBuffer`, the rings that pushes build |
| `Conversation` | abstract specification: per client a status and what was said |
| `Session` | the store, one action per method and callback |
| `SessionProofs` | the ring is the bounded history; the store's inductive invariant and refinement |
| `Gateway` | `EXTENDS Session`; sockets and requests beside the store |
| `Recency` | `EXTENDS Gateway`; a history of who came back, for the order of evictions |
| `GatewayProofs` | presence, what ends a session, what a history holds, whom an eviction takes |
| `SlidingWindow` | the ring of timestamps as operators |
| `RateLimit`, `RateLimitProofs` | the service's clients, guard and sweep; sums of logs, the ring, the limit |
| `ToolExecutor` | calls and slots, whatever the verdict of a call's validation |
| `ToolRegistry` | tools by name and by category |
| `ToolParameters` | the checks of a call's parameters, as operators |
| `ToolCalls`, `ToolCallsProofs` | the executor over the registry: which verdict a call gets; proofs of both, and of the registry |
| `LRUCache` | the cache's Map as a value, its methods as operators |
| `TokenCache` | `EXTENDS LRUCache`; validated tokens and the reverse index of a user's |
| `Auth`, `AuthProofs` | `EXTENDS TokenCache`; pairs of tokens, issued, exchanged, revoked, validated |
| `Users`, `UsersProofs` | accounts in Redis, in the Maps and in the caches, under overlapping requests |
| `RedisPool` | the shared client, and the events of every client there ever was |
| `Storage`, `StorageProofs` | `EXTENDS RedisPool`; the service and its two adapters, for one key |
| `AIService` | the active provider and the response cache |
| `Streaming`, `StreamingProofs` | `EXTENDS AIService`; provider's stream, batcher and the gateway's loop |
| `MC...` | instances for TLC, one per specification |

Operators whose comment starts with "Mutant:" are wrong variants that each
property is tried on: substituted for the definition below them, they make TLC
find the property violated.

**State against code.** `session[c]` is `store.sessions.get(c)`, `Absent` when
there is no entry. A timer map holds the *deadline* of each armed timer, so that
`IsDue` is "its callback may run". `older` is the Map's insertion order as a set
of pairs: `keys().next()` is `Oldest`, `delete` then `set` is `AtEnd`, and `set`
on a present key leaves the order alone, which is what happens when
`createSession` replaces a disconnected session. `conversationBuffer` is the ring
itself, slot for slot. `createdAt`, metadata and the read-only counters are left
out. In `Gateway`, `request[r]` is where the handler of a message stands: unsent,
refused, or of a client and awaiting a completion or a stream, answered, or failed;
it keeps its client for good, so that a history can be held against it. In `ToolExecutor`,
`call[k]` is one call of `execute` and `tracked[s]` the Set of ids of a session;
an empty Set stands for a missing entry, which the code makes equivalent. In
`RateLimit`, `tracked` is the Map's keys; `recorded` and `granted` are history
variables the actions only write, for the properties to compare the ring with.

In the services that await, `request[r]` is a place for a request: idle, or the
await it stands at with what it remembers across it. A command of Redis takes
effect with the step that handles its reply, since one connection carries all
commands in order, and that step runs to the next await. In `Auth`, `grant[t]` is
what a pair of tokens says and `stored[p][t]` until when its refresh token is
kept in place `p`, Redis or the Map `refreshTokens`. In `Users`, `store` holds
for each place the accounts by id and the email's id, an account being known by
the number of its password; `userCache` and `emailToId` are the two caches. In
`Storage`, `timers` counts the in-memory adapter's pending timeouts. A storage operation
that failed on Redis stands at an await between the switch to memory and its second
try (`switched`), and finds whichever adapter is active by then. In
`Streaming`, a line of an event stream is its two halves and the line feed, and
`wire`, `partial`, `lines`, `buffer` and `sent` are where its parts are between
network and client. History variables (`left`, `latest`, `astray`, `steady`,
`overlapped`, `last`, `home`, `returned`) are written and never read by the code's
own steps, but for the bound on `overlapped` below.

**Abstractions.** One method reads one value of the clock: the clock's unit is
coarse against the run of a method. Message texts are model values, or, behind
the gateway, a role and a request. The payload's validation and the rate limit
in front of `user_message` are one action `Refuse` that may or may not happen,
since neither touches the store. A parameter is its JavaScript kind. A provider
may answer, answer nothing on a stream, fail, or never answer.

* *Redis.* In `Auth` each call of `getClient` may find a client or not, so the
  connection may come and go between any two calls; in `Users` it is one
  variable, because what `findById` does depends on two looks at it; in `Storage`
  the pool itself is there. A failed command was executed or was not; in `Storage`,
  where the connection is known, one that got an error reply was not.
* *Expiry.* `Auth` has a clock, for its properties compare three deadlines. In
  `Users`, `AIService` and `Storage` an entry that may expire may do so at any
  moment, which also stands for evictions.
* *One email, one key.* `Users` follows the accounts that one email may have and
  `Storage` one key: other emails and keys share only the caches' capacity, which
  `CacheForgets` covers.
* *The batcher's interval* is a choice at each chunk, `late` or not. A line that has
  both content and a stop is the reader's work on two lines, one with the content and
  the next with the stop, that arrive in one piece: it yields the content, then ends.

## 3. What is checked

Every run is exhaustive within its bounds (`Horizon` stops the clock).

| Run | Instance | What it shows |
|---|---|---|
| `session_store` | 3 interchangeable clients, 2 places, TTL 1, grace 2, 4 instants | types; timers follow sessions; capacity |
| `session_conversation` | 2 clients, 1 place, 2 messages, ring of 2, TTL 2, grace 1, fairness | the store refines `Conversation`; idle sessions end |
| `session_stale_timer` | 1 client, TTL 2, grace 1 | **violated**: a stale grace timer ends an active session |
| `gateway` | 3 clients, 2 places, 2 requests, ring of 2, TTL 1, grace 2, 3 instants | presence, order and owners of messages, what may end a session, whom an eviction takes |
| `gateway_lru` | same, ring of 1 | **violated**: eviction is not of the least recently used |
| `rate_limit` | 1 client, limit 2, window 3, 6 instants, 3 requests an instant, fairness | exact count, limit, `resetAt`, removal |
| `tool_executor` | 2 sessions, 3 calls, two shared client ids, limit 2, a name with two definitions, 12 values for the parameters, fairness | slots, limit, refusals, answers; the index by category |
| `tool_duplicate_ids` | the executor alone: 2 sessions, 4 calls, one shared id | **violated**: more than the limit awaited |
| `auth` | 2 users, 3 pairs of tokens, 2 requests, a token cache of 2, TTLs of 1, 3 instants | rotation and logout are final; no token is lost; the cache and its index |
| `users` | 2 ids, 2 requests, 3 passwords | caches and stores agree on passwords; the email leads to its account |
| `storage` | 2 clients of the pool, 2 operations, a session with a TTL and one without | answered changes are found; timers; the pool's flag |
| `streaming` | 2 ready providers of 3, 2 conversations with one key, 2 completions, streams of 3 lines, batches of 2 | cached answers; streams; batches |

Why the bounds are enough for the questions: TTL and grace of 1 and 2 in both
orders let `expiresAt` pass before, at and after the end of the grace period;
one client more than there are places makes evictions happen, of active and of
disconnected sessions and of the key that is being created; a ring of 2 with two
requests (four messages) wraps; behind the gateway three instants suffice for a
session that is expired but within its grace, for a reconnection of it, and for a timer
of an earlier life to come due during a later one; the limiter's ring has 3 places and takes more
requests than that at one instant and across a whole window, and 6 instants are
nearly two windows; 3 calls against 2 slots with shared ids give two calls on
one slot while another session or a third call competes. The limiter's windows
of different clients are independent, so one client suffices (an instance with
two was checked while the model was written). Symmetry of clients and requests
is used where only safety is checked.

In `auth` a cache of two under three tokens evicts, with entries of both users;
two requests are enough for one refresh token used twice at once, for a logout
between the steps of a refresh, and for a third pair issued by a rotation; no
login is later than `LastLogin` (0), which leaves the remaining instants for the
tokens it issued and for those that rotation issues later. In `users` two ids are
two registrations of the email, `MaxVersion` = 3 passwords are one each and a
change; once requests that the code does not keep apart have overlapped
(`overlapped`) the instance lets them end and begins no more, since nothing is
promised from there on. Two clients of the pool are one that is current and one
that was let go. Three lines are a batch that is full, another behind it, and a
stop before the last; every way to cut them is tried.

Deadlock is checked everywhere but in `tool_duplicate_ids`, whose calls are each
made once, and in `users`, where an instance that has used its ids and passwords
stops.

### The properties

* `TimersFollowSessions`: a client without a session has no timer left, a
  disconnected one only its grace timer, and until shutdown each session has the
  timer that will end it, set from its latest activity. Two Maps of timers
  against one of sessions, over every order of the methods.
* `WithinCapacity`: eviction with replacement, self-eviction and re-insertion keep
  the bound.
* `ImplementsConversation`: section 4. `IdleSessionsEnd`: liveness, section 5.
* `PresenceMatchesStatus`: an active session has an open socket and no grace
  timer; an open socket with a session has an active one.
* `ActiveUntilExpiry`: before `expiresAt` only an eviction for another client
  ends an active session.
* `GraceIsKept`: during the grace period a disconnected session is lost only to
  an eviction, or to an answer that arrives after its `expiresAt`: `addMessage`
  looks at `expiresAt`, which goes on counting while the client is away, and
  destroys the session its client could still have resumed.
* `AnswersFollowQuestions`: under overlapping requests no history holds a message
  twice or an answer before its question.
* `HistoriesAreOwn`: a history holds only what its client said himself and the
  answers to that, each given whole. Requests keep their client after they ended, so
  that an answer stored in another client's history would be seen for good.
* `EvictsLeastRecentUnlessReturned`: what is left of the comment that
  `gateway_lru` refutes. An eviction takes no session used later than another,
  unless its client came back (`returned`) and his key has not moved since.
* `AtMostMaxRequestsInAnyWindow`, `CountIsExact`, `ResetAtIsExact`,
  `IdleWindowsAreRemoved`: the ring, lazily swept and removed, against the plain
  history of requests.
* `EverySlotHasItsCall`, `FreshCallsWithinLimit`, `RefusedOnlyWhenBusy`,
  `StartedCallsAreAnswered`: slots of tool calls, with shared ids, whatever the
  registry and the parameters make of each call.
* `CategoriesIndexTools`: the Set of each category against the map by name.
* `NoLateExchange`: a refresh token that was revoked wherever it was stored is
  exchanged by no refresh that begins afterwards. The exceptions are the code's:
  `refreshToken` checks and revokes with awaits between, so two refreshes of one
  token that overlap both succeed; and a revocation during an outage reaches only
  the Map, so that a token stored in Redis lives on when Redis is back (the
  history `left` still has it there).
* `UnrevokedTokensAreKept`: no step, and no failure of a command, takes a token
  from a place where it was stored but its revocation or its expiry.
* `CachedTokensAreAlive`, `LogoutDropsCachedTokens`, `IndexCoversCache`: what the
  token cache answers, and that a logout drops exactly its user's tokens, which
  rests on the reverse index covering a cache that evicts and expires by itself.
* `CacheIsLRU`: the cache keeps to its size, and the Map's order is that of the
  entries' times.
* `PasswordsAreCurrent`: a cache or a store has an account's latest password or
  none. Exempt are requests that overlap a deletion (`deleteUser` empties the
  cache before it awaits, and `updatePassword` writes back what was deleted
  during its hash), overlapping registrations, and accounts of which one store
  missed a change during an outage.
* `EmailLeadsToItsAccount`: one account, found through the index and through the
  cache. Exempt are the same overlaps, and outages.
* `AvailableMeansUp`: `getClient` returns a client whose connection is up, unless
  a client that the pool let go of still reports to it: its handlers stay
  installed, ioredis goes on retrying, and its `connect` sets `isConnected` for
  whatever client is there.
* `TimersFollowEntries`: the in-memory adapter's timers are those of its entries.
* `AnsweredChangesAreFound`: over overlapping operations, failures, the switch to
  memory and the second try an await later, the active adapter has the last change
  it answered. What the other adapter has is not carried over, in either direction;
  an operation that finds the adapter switched already, or fails at its second try,
  is rejected; and a command that failed but was executed in Redis ends the claim
  until the next answer (`home` is then unknown).
* `CachedAnswersAreOwn`: an answer is cached under the provider that gave it and
  the conversation it was given for, although the provider may be switched while
  the answer is awaited: the key is made before.
* `StreamIsWhole`, `BatchesAreBounded`: however the network cuts the stream and
  whenever batches are flushed, the client and the history get the provider's
  contents: at every moment those so far, once and in order, and at the end in full;
  and exactly the last batch is marked done.
  A last line without its line feed is dropped by the reader; a stream that fails
  stores nothing.

### Disagreements found

1. `createSession` over a disconnected session does not clear its disconnect
   timer (`session.service.ts:83`), so the new session dies with the old grace
   period. The gateway never reaches this, because it reconnects first;
   `PresenceMatchesStatus` shows it, and only there is `NoTimerCutsShort` true.
2. `reconnectSession` sets `lastActivityAt` but does not move the key
   (`session.service.ts:187`), against the comment of `evictLRUSession`.
3. The limit on concurrent tool calls counts ids, not calls
   (`tool-executor.service.ts:300`), so calls that share an id exceed it.

Met while modelling, without a run of their own: the comment "Allow null for any
type" (`tool-executor.service.ts:430`) does not hold for arrays and enums, whose
checks come first; `prune`, `invalidateToken` and `attemptRedisReconnection` have
no caller in the server, so expired entries wait for an access or an eviction and
a storage that fell back stays in memory; the batcher looks at its interval only
when a chunk arrives.

## 4. Abstract specification

`Conversation` knows no clock, timers or capacity: each step serves one client
(start, say, leave, return, end) while any number of the others' conversations
end. Under the mapping `[c |-> (status, ToArray(conversationBuffer))]` the store
implements it: a history grows only by a message to an active session, survives
its client's absence unchanged, and no call disturbs another client's. TLC
checks this with `ImplementsConversation` as a property; the theorem
`StoreImplementsConversations` proves it for every value of the constants.

## 5. Fairness

`Session!Fairness`: weak fairness of the clock and of the two timer callbacks.
Node's event loop runs every due callback, and the model's timers stay enabled
until they run, are cleared, or are set anew. Nothing is assumed of methods or
of the sweep. `RateLimit`: weak fairness of the clock and of the `setInterval`
sweep. `ToolExecutor` and `ToolCalls`: weak fairness of a call's timeout only,
since a handler may never settle. `Auth`, `Users`, `Storage` and `Streaming` assume
none and promise no progress: a command or a provider may never answer.

## 6. What is proved

TLAPS checks all of it for arbitrary sets of clients, messages, sessions, calls,
users, tokens and requests, and all configurations that satisfy the named
assumptions. These ask two things only. Numbers are natural, and at least one where a limit,
window or lifetime of zero would be degenerate; `CircularBuffer` and `SlidingWindow`
check that in their constructors, while `config.schema.ts` sets no minimums (`MaxHistoryAssumption`, `ConfigAssumption`,
`LimitAssumption`, `ExecutorAssumption`, `TokenCacheAssumption`, `AuthAssumption`,
`StreamingAssumption`, and `BoundsAssumption` of the models' own bounds). And what stands for data
or its absence is what it stands for: `undefined`, no client, no id and "not
found" differ from every value (`UndefinedAssumption`, `NoClientAssumption`,
`UsersAssumption`, `NothingAssumption`, `NotFoundAssumption`), and sets of data
are subsets of what they select from (`StorageAssumption`, `ParametersAssumption`,
`RegistryAssumption`, `AIServiceAssumption`, `MessagesAreUtterances`).

All invariants that the passing runs check are theorems, and so are the action
properties and the refinement.

* **The ring and the store** (`SessionProofs`): `PushRemembers`, by cases on
  whether the ring is full and then on whether the read position wraps;
  `PeekIsEndOfArray`. Then `TypeCorrect`, `TimersAreRight` and
  `CapacityIsKept`, all from one inductive invariant `IInv` with one lemma per
  action. None of its parts is inductive alone: an eviction takes *one* key only
  because the order is total on the stored keys (`OrderIsTotal`, which any Map has, is
  part of `IInv`) and so has at most one first key;
  the capacity bound needs a first key to exist, which needs the set of stored
  keys to be finite; timers need the statuses to be typed. Then
  `StoreImplementsConversations`, whose step for `addMessage` is `PushRemembers`.
* **The gateway** (`GatewayProofs`): `GatewayUsesTheStore` (each handler is a
  step of the store or leaves it alone), so everything proved of the store holds
  behind the gateway. `PInv` adds, per client, that socket, status and both
  timers agree; in particular the expiration timer of an active session is its
  `expiresAt` (or gone after shutdown), which the store alone cannot promise,
  since `forceExpireSession` and `createSession` over a disconnected session
  break it. From it follow `PresenceIsRight`, `ActiveSessionsLast` and
  `GracePeriodIsKept`; `TimersLetSessionsLive`, which is the statement that the run
  `session_stale_timer` refutes of the store alone; and, with the store's own
  refinement, `GatewayKeepsConversations`. `HistoriesAreInOrder` adds `HInv`: what a history holds of
  a request says how far the request's handler has come, so that neither message
  can be said twice; `HistoriesStayApart` adds that it is that request's own client
  who has it. `EvictionsSpareTheRecent` holds the Map's order against the sessions'
  times: of two keys the later one was not used earlier, unless its client is in
  `returned`.
* **The rate limiter** (`RateLimitProofs`): `LimitIsKept`, `CountsAreExact`,
  `ResetIsExact`. The count is exact for the window that ends now, but time
  passes and the window's beginning moves through the ring; inductive is `Exact`:
  for *every* `t` at which some window from now on may begin, the newest entries
  of the ring are exactly the requests recorded since `t`, as far as the ring
  reaches. Recording appends or shifts, sweeping drops only entries older than
  all such `t`, the clock's step adds one `t`. The reference is a recursive sum;
  what the proof needs of it (it exists, splits at either end, grows by one with
  one more request, is monotone) is proved by induction through `LeastNumber`,
  the least-element principle on the library's well-founded order of the naturals.
  Positions in the ring are reasoned about through `After`, whose `Steps` lemma
  (steps add up, and meet only after a whole round) keeps the modulus out of
  everything else. `LimitIsKept` also takes that what was granted was recorded.
  `GrantsAreDue` says of `consume` both ways what it decides by: it grants exactly
  when fewer than `maxRequests` were recorded in the window that ends now.
* **Tool calls** (`ToolCallsProofs`): of the executor alone `NoSlotIsLost`,
  `FreshCallsKeepTheLimit` and `RefusalsAreDue`. The invariant needs to know that
  a call's id is its own or a client's, never another call's fresh one, or
  settling one call could untrack another; `RefusalsAreDue` maps each tracked id
  to a call of its own and uses the pigeonhole principle. `CallsAreExecutions`
  shows that every step over the registry is a step of the executor, whose
  verdicts are free, so that its invariant carries over (`CallsTypeCorrect`,
  `NoCallLosesItsSlot`, `CallsKeepTheLimit`, `CallsAreRefusedWhenDue`);
  `CategoriesAreExact` comes from the registry's own invariant, which adds the
  types of its maps.
* **Authentication and the token cache** (`AuthProofs`), from `IInv`, which is
  `GInv`, `KInv` and `RInv`. `KInv`: the cache's order is total and that of its
  times, and each cached token carries the user and the expiry its grant says and
  is in that user's Set; so `CacheKeepsItsOrder`, `IndexIsExact`,
  `CacheDoesNotOutliveTokens` and `LogoutIsExact`; and `EvictionsAreLeastRecent`, what
  the session store promises and breaks: only a full cache evicts, one token, the one
  unused for longest. `RInv`: a live token is stored
  exactly where it was stored and not revoked since, at most one request stores a
  new token, and a refresh that began too late finds nothing at its check and so
  never gets further; from it `RevocationIsFinal` and `LiveTokensAreFound`.
* **Users** (`UsersProofs`): `PasswordsNeverGoBack` and `EmailIsOneAccounts`. Most
  of the work is what a request has learnt before an await and still relies on
  after it. `LInv`: no two registrations write one id. `PInv`: as long as nothing
  has overlapped that the code does not keep apart, no two such requests are under
  way, a deleted account is not cached while it is being deleted, and every copy is
  the latest. `EInv`: as long as one store answers as well, the other is empty,
  there is one account, index and cache lead to it, and what each waiting request
  found out (`Reckons`) is still so.
* **The pool and the storage** (`StorageProofs`): `ClientsAreUp` from
  `SomebodyIsUp`; `TimersAreOfEntries`; `NoAnsweredChangeIsLost`, for which the
  adapter of the last change must keep it also while the *other* one is active,
  since the service may come back (`HomeKeepsLast`).
* **The AI service and the batcher** (`StreamingProofs`): `CacheAnswersForItsOwn`,
  since a call's key is made of its own provider and conversation before it waits;
  `BatchesKeepToTheirSize`, since the buffer stays below its limit between chunks;
  and `StreamsAreWhole`. The text a provider sends is a sequence of symbols in the
  order of its lines, so the reader's buffer and what is still on the wire are two
  `Piece`s of it that meet at one position; `SInv` says that m lines have been read
  out of the buffer and k of them passed on, and that batches and buffer together
  hold the contents among the first k, in order. A network chunk moves the position
  (pieces that meet concatenate to a piece); splitting a piece at its line feeds
  gives its complete lines, and the rest is the piece of the line that is not
  complete. A line passed on joins the buffer, a flush moves the buffer behind the
  batches, and neither changes what they flatten to. That needs lemmas on
  `FlattenSeq` (of an appended batch, of a concatenation), which are inductions over
  data: here the data is a sequence, so they go by the least length that would fail,
  through `LeastNumber` again.

Only model-checked: liveness (`IdleSessionsEnd`, `IdleWindowsAreRemoved`,
`StartedCallsAreAnswered`), which is out of the prover's reach.

## 7. Not modelled

The setTimeout overflow of a delay above 2^31-1 ms (clocks are unbounded
integers), a wall clock that is set back, handlers that go on after their tool
call timed out, `TimeBatcher`, `SlidingWindow.clear` and `CircularBuffer.clear`
(called by nobody in the server), `clearAllTokens` and `clearAllUsers` (called by
tests), the batcher's flush after the end of a stream that never said done (every
provider says it), the wording of the mock provider, the OpenAI placeholder,
parsing of expiry strings, hashing and signing, metrics, logging, formatting, and
the stateless pipeline. Services that are configured off (rate limit, caches,
Redis) keep no state of interest. A refresh token given where an access token is
expected passes the same signature check and is then cached like one, as an entry of
its own until it expires; an access token given to `refresh` or `logout` has no
`tokenId`, so it is rejected by the one and by the other only costs its user the cached
tokens, which `CacheCalls` does too: neither is modelled. In the in-memory adapter, `keys` takes an entry
for expired at the very instant at which `has` does not; without a clock the
model does not tell them apart.

## 8. What could follow

1. Composition of `RateLimit` with `Gateway` in place of the free refusal. The guard
   consumes for `user_message` only and its answer does not depend on the
   conversation, so the properties of each part hold without it.
2. An abstract key-value specification for `Storage` would say little more than
   `AnsweredChangesAreFound`: with overlapping commands the order in which Redis
   executes them is visible only in their answers, and over a fallback the two
   adapters are two stores.
