# A TLA+ model of Alvus Core

Alvus Core is an HTTP gateway in front of several LLM providers. A request names
a *route*; the gateway tries the route's models in order, and for each model the
credentials of its provider in rotation, until one upstream gives a usable
answer. This directory models that machinery: the shared state requests run
through concurrently, the steps of one upstream attempt, the routing loop
that ties them together while the configuration is replaced underneath, the
process that watches the configuration's file, and the translation between the
Anthropic Messages protocol of some clients and the upstreams' chat completions.

Paths below are relative to the repository.

## Inventory

| Part | State | Operations | Used by |
|---|---|---|---|
| credential pool, `internal/credentials/pool.go` | per key `disabled`, `until`; a cursor | `Next`, `Cooldown`, `Disable`, `Available` | routing; `/ready` (`Available`) |
| router and circuit breakers, `internal/router/router.go` | per model consecutive failures, `openUntil` | `Candidates`, `Success`, `Failure`, `Snapshot` | routing; `/metrics` (`Snapshot`) |
| provider adapter, `internal/provider/adapter.go` | none | `Classify`, `Authorize` | routing |
| response cache, `internal/responsecache/cache.go` | entries with expiry, running byte total | `Get`, `Set`, `Len`, `Bytes`, `Key` | routing; `/metrics` (`Len`, `Bytes`) |
| upstream attempt, `doAttempt`, `cancelReadCloser` in `internal/gateway/server.go` | a context, a timer, a flag, a response body | one HTTP exchange | routing |
| gateway, `internal/gateway/server.go` | the runtime state (configuration, router, pools, cache) behind an atomic pointer; global counters; per-model counters under a mutex | `proxy`, `routeRequest`, `Reload`, `/health`, `/ready`, `/metrics`, `/v1/models`, authentication | clients, watcher |
| configuration, `internal/config/config.go` | none | `Load`, `Validate`, environment overrides | start, watcher |
| Anthropic translation, `internal/gateway/anthropic_*.go` | the tools and block indices of one stream | requests, responses and streams from one protocol to the other | `/v1/messages` |
| process, `cmd/alvus-core/main.go` | `lastMod`, signal and stop channels | start, watch, shut down | the operator: the file, signals |

How they interact: `proxy` loads the runtime state once and hands it to
`routeRequest`, which calls the router for the plan, and per candidate the cache,
per key the pool, `doAttempt` and the adapter; what it learns goes back to the
pool (`Cooldown`, `Disable`), the router (`Success`, `Failure`), the cache
(`Set`) and the counters, each call under a lock of its own and none under a
common one. `Reload` builds a new runtime state and swaps the pointer; requests
under way keep the old one. `/metrics` reads the counters and the circuits of
the current state and, by asking its cache for its size, prunes it; `/ready`
counts the keys available in its pools; `/health` reads nothing.

What is hard here, and what makes each part correct:

- **Pool.** Requests share one cursor, and report on keys they were handed long
  ago. The rotation must stay fair, a late report must not shorten a cooldown or
  bring a disabled key back, and `Next` must find a key if there is one.
- **Router.** The plan is made once; verdicts come in later, in any order. The
  breaker must count verdicts in a row, an open circuit must be spared, and it
  must close again.
- **Cache.** Expiry is lazy, eviction serves two limits, the byte total is kept
  by hand. A hit must be the last value stored, in time; both limits must always
  hold; room must be found when it can be.
- **Attempt.** The timer, the client, the upstream and the request race. The
  right party must be blamed (a key is cooled down for one cause, a model charged
  for another), nothing may leak, and the attempt must end.
- **Gateway.** State read at one step is used many steps later. An answer must
  fit the request it is given to, what is learnt must go to the state the
  request captured, lack of capacity must not cost a key, the counters must
  agree, and a request must end in bounded time.
- **Configuration and process.** The file is written by somebody else, in steps,
  and the watcher reads its time and its content at different moments. What is in
  use must have been saved whole and be valid, must change in one step, must obey
  the environment, and no save may be passed over. A signal must end the process,
  also one that comes early.
- **Anthropic translation.** The upstream interleaves text and several calls;
  the client needs blocks that are opened, written and closed by index. A
  conversation passes through two translations per turn: what the model said must
  come back to it, as far as its JSON survives being decoded, with each result
  next to its call.

Every hazard is listed at its line in `PROJECT.json`, with the properties
that cover it.

## Modules

| Module | Models | Kind |
|---|---|---|
| `PoolOps` | the methods of one pool, as operators on its state | operators |
| `CredentialPool` | one pool shared by concurrent callers | state machine over `PoolOps` |
| `CircuitOps` | the methods of the router, as operators on the health states | operators |
| `Router` | concurrent requests that plan, report and give up | state machine over `CircuitOps` |
| `ProviderAdapter` | `Classify` | operator |
| `CacheOps` | the methods of `Memory`, as operators | operators |
| `ResponseCache` | one cache under concurrent calls and time | state machine over `CacheOps` |
| `LossyCache` | what a cache promises, whatever its policy | abstract specification |
| `Attempt` | `doAttempt` step by step | state machine |
| `OrderedFallback` | what ordered routes promise of each request | abstract specification |
| `Gateway` | `proxy`, `routeRequest`, `Reload`, scrapes | composes all the operator modules; implements `OrderedFallback` |
| `ConfigOps` | defaults, environment, keys and `Validate`, as operators on configurations | operators |
| `HotReload` | what transactional reload promises | abstract specification |
| `ConfigWatch` | `main`, `watchConfig`, and who edits the file | state machine over `ConfigOps`; implements `HotReload` |
| `AnthropicOps` | the translation of requests and of whole answers | operators |
| `MessageStream` | what the client of a stream may rely on | abstract specification |
| `AnthropicStream` | `translateOpenAIStream` event by event | state machine over `AnthropicOps`; implements `MessageStream` |
| `Messages` | conversations over `/v1/messages` | composes `AnthropicStream`, `AnthropicOps` and a client |
| `DataOps` | what components do with sets and sequences: sums, selection, order | operators |
| `MC...` | constants for TLC | |
| `OperatorTheorems` | lemmas about the operators of all modules, checked by TLAPS | |
| `...Proofs` | theorems about one state machine each, checked by TLAPS | |

The methods of pool, router and cache are operators (`PoolOps`, `CircuitOps`,
`CacheOps`) used twice: by the state machine of the component alone, where every
order of calls is explored, and by `Gateway`, where only the calls the routing
loop makes occur. All of these methods hold their object's mutex from the first
statement to the last, so each is one atomic action.

### Correspondence with the code

*Time.* A moment in the future (`until`, `openUntil`, `expiresAt`, a deadline)
is kept as the time left until it; "now is before x" is `wait > 0`, and `Tick`
takes one unit off everything. That keeps the state finite and is all the code
asks of time. The unit is abstract: the constants only have to be ordered as in
the code, which is why both cooldowns of a key (5 s and 10 s) are parameters.

*`CredentialPool`.* Keys are indices. `cursor` is the number of calls modulo the
size: the code keeps the number itself and reduces it when it is used
(`pool.go:40`), which is the same. `passed` is a history variable for the fairness of the rotation.

*`Router`.* A request's `plan` is the slice `Candidates` returned, less what it
has tried. `Pass` is a move to the next candidate without a verdict (no key, all
keys rejected, prompt too long); `Abandon` is an early end. `recent` and `late`
are history variables: `recent` keeps, of each model, the last verdicts as they were
reported, with whether the circuit was open before and after each, and knows
nothing of the count the breaker keeps, so that `TripsAreEarned` compares the two;
`late` stops at the number of callers, beyond which
`StragglersBounded` has long failed. An alias without an entry in the code's map has the
map's zero value.

*`ResponseCache`.* The eviction loop takes out an entry that expires earliest,
any such, because a Go map is iterated in random order; `Evictions` is the set
of all results the loop can have. Hashes and copies of bodies are abstracted:
a key is a value, and a body has a size.

*`Attempt`.* One action per step that another goroutine can come between. The
`time.AfterFunc` goroutine of a stream has two steps, the store of the flag and
the cancel, and may be slow in either. `client.Do` may return the headers or the
context's error when both are there.

*`Gateway`.* `runtimes` is the sequence of runtime states so far, the last being
what `state.Load()` returns; a request keeps the index it captured. A request
has the program counter of `routeRequest` between two calls that touch shared
state: `reading`, `candidate`, `keys`, `flight`, `success`, `rejected`,
`fallback`, `storing`, `charging`, `done`. A body of a request decodes or does not:
`modelProbe` reads the model and the mode only, and the rest is decoded when a
model has its turn (`CannotPatch`, `server.go:404`). An action covers one such call with the
computation around it. Computation takes no time: `Tick` is enabled only while
every request waits for its client or its upstream, which is also how a deadline
is met (a request whose timer is at 0 must move before the clock does). A
request's parameters and a model's defaults are reduced to one `knob`, which is
enough to tell a patched request from an unpatched one and tool calling from
none. `Reload` refuses what
`Valid` refuses (`ConfigOps`): in the code `Load` has validated it before.
`/v1/messages` enters `routeRequest` by the same steps as `proxy`
(`anthropic_types.go:51-76`), so `Accept`, `BadRequest` and `Plan` stand for both.
An answer is assumed to fit in the 8 MiB that the probe reads, so that saving it
in the cache does not read from the upstream any more. Nothing but `/metrics`
reads a counter, so counting shares an action with the call next to it, except
where `MetricsAgree` relates two counters that the code changes one after the
other (attempts and their records, fallbacks and theirs).

*`ConfigOps`.* A document is a record of the fields a file sets, `OverDefaults`
puts it over the defaults as `json.Unmarshal` does, `WithEnvironment` and
`Resolved` are `applyEnv`, `normalizeProviders` and `resolveProviderKeys`. Of keys a
configuration keeps how many there are and how many are not empty, because
`Validate` asks for the first number and the pool is built from the second. A
URL is "absolute" or not; a blank string is "".

*`ConfigWatch`.* The file is whole, partial (truncated and being written) or
missing. `os.ReadFile` is taken to read one state of the file: a read that
overlaps a write gets the partial file, which is not JSON. Times come from a clock
that need not move between two saves (the granularity of a file system), and a
rename may bring any older time. `Stat` and `Load` are two steps, as are the
loading and `Reload`; `lastMod` is set in the first. The ticker is a poll at any
time. `save` numbers the saves, so that equal documents can be told apart, and
`fresh` says that a save bears a later time than the watcher had seen when it
was made; `saved` is a history variable. A signal that comes before
`signal.Notify` kills the process, one that comes before `ListenAndServe` makes
it refuse.

*`AnthropicStream`.* One action per event written, so that the client, and an
upstream that breaks off, can come between any two. Chunks come from a set; a
chunk that does not parse, has no choices, or a line that is no data changes
nothing and is left out. `view` is what a client makes of the events by its own
protocol (content blocks by index), `said` what the upstream said put together
by the rules of its protocol; neither is a variable of the code, and the
properties compare the two. The map `tools` is closed in any order. A text is
the sequence of the pieces it came in, so that no piece can be lost or swapped
without a trace. The id made up for a call without one (`call_<index>`) is the
parameter `CallId`.

*`Messages`.* The client keeps its history, puts each answer at its end, and
replies with the results of the tools it was told to call, with or without a
prompt before or after them. The arguments of a call are pieces of JSON. `Values`
are those that make a value, `Recoded` is what decoding into `any` and encoding again
makes of each (numbers go through a float64), and `Oversized` are those with a number
that does not decode: a history that has one is refused (`Refuse`). All that is assumed
of them is that what was encoded once decodes, and stays what it is
(`ValuesAssumption`). A client that is streamed arguments which are no JSON must make
something of them, and it can only send JSON (`Guess`). `sent` is what the upstream gets, `heard` what it has
said, one entry per answer. Routing is one step here, an answer or an error, for
it is the subject of `Gateway`.

## Runs

| Run | What is asked | Instance |
|---|---|---|
| `pool` | rotation, cooldowns, disabled keys, availability | 3 keys, cooldowns of 1 and 3 |
| `router` | circuits open for a reason and in time, stragglers on an open circuit, circuits close | 3 requests, 2 models, 2 routes, threshold 2, Retry-After 0, 1, 3 with a cooldown of 2 |
| `router_halfopen` | *violation*: the half-open comment of `router.go:59` | 2 requests |
| `cache` | exact byte total, both limits, room is found, refinement of `LossyCache` | 4 keys for 3 places; bodies of 1, 2, 4, 5 bytes for 4 |
| `attempt` | honest verdict, nothing leaked, the attempt ends | every interleaving, plain and streaming |
| `attempt_stream` | *violation*: `README.md:73`, a started stream is not capped | as above |
| `gateway` | answers fit, no replayed tool calls, bounded routing, verdicts go to the captured state, capacity spares keys, requests follow their routes (`OrderedFallback`) | 2 requests, 2 models, 2 keys, one reload (good, or refused), replies 200, 401, 429, 503, transport errors, timeouts, hits in the cache |
| `gateway_ends` | counters agree in every state; requests follow their routes (`OrderedFallback`); a plain request is answered | plain, streaming, and a body that does not decode; one client may leave; an answer that is kept and used again, too large an answer, 404, 500, context length |
| `gateway_budget` | *violation*: `README.md:73`, `request_timeout` is the total budget | 1 request, budget 3, 2 keys |
| `gateway_stall` | *violation*: the same sentence, for a stream | 1 streaming request, an upstream that answers 500 |
| `watch` | the promise of hot reload, no save missed, environment first, a usable save is used, a signal ends the process | 3 documents (usable; elsewhere, with cache and keys of its own; with a broken route), 2 environments, 3 saves, a clock of 2 |
| `messages` | well-formed streams, streamed like unstreamed, the history is faithful, results answer calls, streams end | 2 turns, up to 3 chunks of text, two calls, deltas that come apart, finish reasons; arguments with a number that is rounded, one that does not decode, `null`, none, and broken ones |

Why these bounds are enough. Pool: a key between two others is the smallest case
in which neighbours vary independently and the scan wraps past more than one key;
theorems cover all other sizes. Router: two requests can both hold a model
while a third makes its circuit open; a fourth only repeats the second's part. A
threshold of 2 separates counting from tripping. Cache: one key more than there
are places, so eviction has a choice, and sizes that hit the byte limit with
one, two or three entries present. Gateway: two requests are what a race over
one key, one circuit or one cache entry takes; two keys give a key after the
first and none after the second; two models give one fallback; one reload gives
an old and a new state. `gateway_ends` has one key and no reload, but the
endings, streams and clients that `gateway` lacks; `FollowsItsRoute` is checked in
both. Watch: a save can be missed only between a `Stat` and the
`Load` after it, so three saves (one seen, one in the gap, one after) and two
times (and the zero time of a missing file) give an older, an equal and a newer
save; theorems cover all numbers. Messages: two indices can interleave, three chunks open, continue and
continue the other, two turns send back what came in the first; `MaxChunks` is
for the whole conversation, and theorems cover any number of chunks, turns, calls and
indices. `gateway` counts `spent` to 3, past the bound of 2 that
`RoutingIsBounded` states, so the cap does not hide a violation. `MaxReloads`,
`MaxSpent`, `MaxSaves`, `MaxClock`, `MaxChunks` and `MaxTurns` are the only bounds on
the state; `SYMMETRY` permutes the
requests, which no definition tells apart, and `VIEW` leaves the counters out
of the state where no property reads them (`gateway` has no liveness property).

Deadlock is left unchecked where the system may stop: an attempt that is over,
a process that has exited, a conversation whose client asks no more, and a
gateway all of whose requests are done at a moment when no action changes
anything.

### What was found

All four violations are disagreements between the code and what the repository
says of it; each is described with both lines in `PROJECT.json`.

1. `router.go:59` announces a half-open probe. The branch adds the alias only if
   its circuit is not open, in a case where all are: it adds nothing, and the
   route is unavailable until a cooldown has passed.
2. A header timer that fires while the headers arrive cuts the stream after
   `doAttempt` has returned it: `Stop` is too late, and the test of the flag may
   come before the store.
3. An attempt's time limit is computed once for a candidate and reused for each
   of its keys, so that routing can exceed `request_timeout`. The model shows
   the real bound, `request_timeout` times the number of keys
   (`RoutingIsBounded`).
4. The timer of a stream stops at the headers, whatever their status; the body
   of a rejection is then read without limit, and an upstream that stalls in it
   holds the request back from its fallback.

The models show six more, which have no run of their own; most of them are
among the hazards:

5. A configuration that is saved between the first `Load` and the watcher's first
   `Stat` (`main.go:65`) is taken for the one in use and never loaded, and a save
   that does not move the file's time forward is never seen (`main.go:76`), where
   `README.md:46` says that a valid save replaces the state. `NothingMissed` shows
   that there is no third way.
6. `README.md:9` reserves cooldowns for failures of the credential; transport errors
   and server errors cool the key down too (`server.go:447`, `server.go:494`). The
   model does so (`TransportError`, `Charge`); `CapacitySparesKeys` states only the
   part of that sentence which holds, that a lack of capacity costs no key.
7. A streamed call whose name comes after its id is started with an empty name,
   and the name is never sent (`anthropic_stream.go:84`). `SameAsUnstreamed` and
   `HistoryIsFaithful` are therefore stated for *regular* calls, whose first delta
   has both, as the providers send them.
8. The text of a message that also has tool results is sent before the results
   (`anthropic_request.go:115`), between the calls and their answers.
9. The arguments of a call go through Go's `any` in a whole answer
   (`anthropic_response.go:36`) and in every history (`anthropic_request.go:86`): an
   integer above 2^53 is rounded, where a stream passes it on exactly. Arguments that
   are no JSON become `{}` in a whole answer and stay what they are in a stream, and
   a history with a number that no float64 holds is refused for good, although a
   stream may have brought it. `SameAsUnstreamed` and `HistoryIsFaithful` say what is
   kept nevertheless.
10. A body with such a number passes `modelProbe` and fails when a model has its
   turn (`server.go:404`): the request ends there, with models and time left. The
   promise of `OrderedFallback` is for requests that can be sent (`barred`).

### Fairness

Only what the Go runtime owes is assumed: a goroutine that can run is run, a
timer goes off, time passes (`WF` of `RequestStep`, `TimerStep`, `Compute`,
`Tick`, and of `Main`, `HandleSignal`, `Watch`, `StopWatching` and `Translate`, each a
goroutine, or the ticker, that can go on by itself). Nobody has to save a file,
to finish saving it, or to send a signal. Clients and upstreams owe nothing: no fairness on `Accept`, `Headers`,
`UpstreamAnswers`, `UpstreamEnds`, the end of a body or a client's leaving. In
`Gateway`, `Compute(r)` holds reading steps only once there is nothing left to
wait for (the time is up or the client has gone), because only then does the
read return by itself. `ClosesAgain` needs nothing but `Tick`.

## Proofs

TLAPS checks these for every value of the constants that meets the assumptions
(`SizeAssumption`, `CooldownAssumption`, `CfgAssumption`, `CallersAssumption`,
`RetryAfterAssumption`, `BoundsAssumption`, `ChunksAssumption`, `ValuesAssumption`,
`GuessAssumption`, `TurnsAssumption`, `AnswersAssumption`, `CapsAssumption`, `TTLAssumption`, `MissAssumption`, `ConfigsAssumption`,
`TimesAssumption`, `CountsAssumption`); the runs evaluate the assumptions on their
instances. They are the types of what `config.Load` gives and of Go's integers and
durations, and that there are finitely many requests and aliases where these are
counted. One theorem about all behaviours has a hypothesis besides: `StragglersAreBounded` holds for
routes that name no model twice (`NamesOnce`). `Validate` accepts a route that
does; one request then fails the circuit twice, and the bound is not kept.

- `OperatorTheorems`. Lemmas on the operators, cited by the other modules. Where they
  need an induction, it is over sets in place of predicates (`NumberInduction`,
  `RemovalInduction`). The library's sum chooses the function that solves its
  recursive equation; `SolutionExists` and `SolutionIsUnique` make it usable, and
  `SumAdds`, `SumRemoves` and `SumChanges` say how a sum follows one of its terms.
  `Selects` does the same for the filter of `Candidates`: what it gives are the aliases whose
  circuit is closed (`CandidatesAreClosed`), which are models, and on routes without
  repetition each once (`CandidatesTyped`). For the translation of messages the same is
  done for what is flattened: `Flattened` says at which offset each part of it
  lies, `SelectionIsUnique` that there is only one way to pick given places in
  their order, and `MembersInOrder` and `InSomeOrder` that a finite set can be put in
  order and what its members become is still there.
- `CredentialPoolProofs`. *Type correctness* rests on one fact about remainders, and
  on a cooldown being replaced, never added to: a key rests no longer than one of them.
  *Rotation*: `RoundRobin` is not inductive, for it does not know how far off the
  cursor is. `WithinTheRound` adds that: for a usable key the times it was passed
  over plus the cursor's distance to it are less than the size. A call that passes
  the key over cannot have had the cursor on it (`CursorFirst`), so the one goes
  up as the other goes down. *Availability*: every key is met in some round of
  the scan (`EveryKeyIsScanned`), and the least round that hits exists
  (`LeastMember`, from the well-foundedness of the natural numbers).
  *Cooldowns* and *disabled keys* follow from one lemma on what any step does to
  a key.
- `RouterProofs`. *Trips*: `TripsAreEarned` speaks of what was reported and of when
  circuits were seen open, not of the count the breaker keeps. The invariant ties the two
  (`Accounted`): the newest verdicts, as many as the count says, are failures that
  opened nothing. So when the count reaches the threshold there have been that many in
  a row, none of them spent (`OneFailure`), and a success leaves nothing behind
  (`OneSuccess`). *Types* of the plans come
  from `CandidatesTyped`. *Half-open*: with all circuits open the selection is empty
  and so is what its recovery branch adds, for every configuration
  (`HalfOpenTriesNothing`, what `router_halfopen` shows on one). *Stragglers*: the
  caller that makes a circuit open has dropped the model from its plan, so it holds
  it no longer; each late verdict is paid for by the plan it is taken from, which
  named the model once, and no open circuit enters a plan (`CandidatesAreClosed`).
- `AttemptProofs`. `Traced` is the inductive invariant behind the verdict: each
  mark that an end of the context leaves (`ctx`, `outcome`, `result`, the flag) is
  led back to the client or to a timer that went off. It holds because the
  timer's goroutine stores the flag before it cancels; the mutant that swaps the
  two breaks it. `NothingHeld` needs to know that no body is open before `Do`.
- `ResponseCacheProofs`. Every operation is led back to what it does to what a user
  would find under each key (`Held`): a deletion makes it absent (`Drops`), pruning
  changes nothing (`PrunedUnseen`), `Set` stores or leaves it or makes it absent,
  whichever entries it evicts (`SetEnds`). So each action maps to one of
  `LossyCache`. `PlacesEnough` is the half of `WithinBudgets` that counts entries;
  the eviction stops only when there is a place, and deleting never adds one.
  For the bytes, `KeepsAccount` adds that each entry has the size of its own value
  and that the count is the sum of them (`Sized`); a deletion takes one term from
  the sum, so the clamp at zero in `deleteLocked` never acts. `WithinBudgets` follows,
  and `RoomCanBeMade`: evicting in the order of expiry ends, at the latest with
  nothing left, and the least number of evictions that makes room is one of the
  outcomes.
- `GatewayProofs`. The inductive invariant says that each cache keeps an answer under
  what was asked for it (`CacheFits`), and that a request has not come, works on a
  runtime state that exists, or has an answer that fits (`RequestFits`). Each action
  of a request is shown to change that request alone and at most the runtime state
  it captured, whose configuration stays (`Kept`); from there `KeptIsGood` gives the
  invariant, `VerdictsStayHome` and `CapacitySparesKeys` at once. A hit in the cache
  fits because the key of the cache is what is asked after the model's defaults
  have been applied. These four theorems use no assumption on the constants.
  *Types and time*: `TypesFit` says what the fields of a request are at each step of
  `routeRequest` (`FieldsOK`) and how much time it may have used there (`TimeOK`): up
  to the first attempt at a candidate `request_timeout` in all, and from then on
  the candidate's own budget, which is no larger, for each further key. A candidate
  has `KeyCount` attempts at most, so `RoutingIsBounded` follows; a fallback does not
  start the count again, for it happens only within `request_timeout`.
  *Counters*: `CountsFit` ties each counter to the requests it counts: those that
  came, that failed, that are between two candidates, that are under way at one.
  Misses have no step of their own to balance them; the invariant says that every
  request which may yet store leaves a miss that is not yet answered by a store.
  Each step is shown to move one request between these sets and the counters with
  it, which is `MetricsAgree` (`CountersAgree`).
  *Routes*: `CourseOf` says how far a request has come in the words of
  `OrderedFallback`: which model of its plan has its turn, whether it is being asked,
  how many attempts at it are left, whether it is barred from its turn. Keys, circuits, caches and
  the other requests do not occur there. Each step of a request is one step of the
  abstract one, or none (`RequestGoesWell`); the clock may only bar a request from
  further turns (`TickMayBar`), and one whose body does not decode is barred from the
  first; a reload changes nothing, because no configuration in use ever
  changes (`CourseStays`). `FieldsOK` serves again: a request gets its plan before
  its time has begun to run, and comes to each model with no attempt made.
- `ConfigWatchProofs`. The inductive invariant is `TypeOK` with two more parts.
  `Uses`: what is in use is nothing, before the first load, or was made of a
  document that was in the file whole. `Tracked` is what `NothingMissed` does not
  say: a fresh save is either still newer than `lastMod`, or the watcher is about to
  load it, or holds exactly it, or has handed it over; and a save is never fresh
  before the first `Stat`. `NothingMissed` follows. `EnvironmentIsUsed` needs only
  that the environment comes after the file in `Load` (`EnvironmentFirst`). For
  `ProcessRefines` the first load maps to `Start`, a reload that is not refused to
  `Switch`, a valid save to `Offer`, every other step to a stutter.
- `AnthropicStreamProofs`. The inductive invariant says of the translator's state
  that each index given out belongs to the text or to one call (`Owned`), that the
  client's blocks are those of the started calls and of the text (`InPlace`), that
  they are open until the end (`OpenUntilTheEnd`) and how the position in the loop
  and the phase of the message go together (`Phases`). With it each event maps to
  one step of `MessageStream`, each step without an event to a stutter.
  `MessagesRefine` lifts it to a conversation, whose other steps leave the stream
  alone or begin another one. `ConversationsAlternate` adds that the history is odd
  whenever the handler works, so that an answer is what comes next.
  *Streamed like unstreamed*: `SameAsUnstreamed` speaks of the end of a stream only.
  `Follows` says it of every moment: the client has been told all that was said, but
  for the rest of the chunk the translator is in the middle of. A chunk is heard at
  once and told delta by delta, so the calls heard after each delta (`Hears`) are
  compared with the blocks written so far; each index has a block of its own
  (`Owned`), so no piece can go to another call. `AssembledMeans` and `WholeMeans` say
  what the client's message and the translated answer convey (`Conveys`), which is
  the same text and, for a call, its arguments as they are or as they decode;
  `CallsAreStreamed` says that nothing of the former is lost, and
  `StreamsSayTheSame` compares the two.
  *Conversations*: `Converses` is what the history has to be for its translation to be
  right: the client's messages reply to the assistant's before them, and those say
  what was heard. Each message becomes one part of what is sent (`Sends`), an answer
  exactly one message (`AnswerPlaces`), a reply the results of the calls before it
  and perhaps a text (`ReplyPlaces`), and the parts lie next to each other. So the
  assistant's messages are the answers in order, their arguments decoded once more,
  which changes no more of them (`CallsComeBack`, `HistoriesAreFaithful`), and
  results and calls are in neighbouring parts and answer each other
  (`ResultsAnswerTheirCalls`).

All safety invariants, action properties and refinements that the passing runs
check are theorems. Only model-checked is liveness (`ClosesAgain`, `AttemptEnds`,
`PlainIsAnswered`, `FreshSaveIsUsed`, `StopsWhenTold`, `StreamEnds`), which is out of
the provers' reach.

## Not modelled

- Authentication, header filtering, URL rewriting, error texts, logging, the
  `/health`, `/ready` and `/v1/models` views: no state of their own.
- The syntax of configuration files, `.env` files, URLs, durations and
  `Retry-After` headers.
- The reasons and latencies kept for display in health states and metrics.
- Of the Anthropic translation: tools, tool choice and sampling parameters, which
  are renamed field by field, the token estimate, and the texts of errors.
- The ten seconds `Shutdown` waits: `main` does not wait for it.
- The copying of a body to the client after a verdict has been recorded.

## Plan

All components that keep state are modelled. What would come next is
`ConfigWatch` composed with the requests of `Gateway`: a shutdown while requests are
under way.
