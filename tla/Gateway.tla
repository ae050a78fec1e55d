------------------------------ MODULE Gateway ------------------------------
(***************************************************************************)
(* The gateway (internal/gateway/server.go): requests run concurrently     *)
(* through proxy and routeRequest on the runtime state they captured when  *)
(* they arrived, while Reload replaces that state, clients leave, /metrics *)
(* is scraped and time passes.  It composes the circuits of the router,    *)
(* the credential pools, the providers' adapters and the response cache.   *)
(*                                                                         *)
(* Between two calls that touch shared state a request may be overtaken by *)
(* others, but its computation takes no time: the clock moves only while   *)
(* every request waits for its client or its upstream.  A time in the      *)
(* future is kept as the time left until it.                               *)
(***************************************************************************)
EXTENDS CircuitOps, PoolOps, CacheOps, ProviderAdapter, ConfigOps

CONSTANTS
    Requests,     \* the requests that arrive, each once
    Impatient,    \* those whose client may leave before the answer
    Inputs,       \* what a request asks: [name, stream, chat, body, knob, decodes]
    Configs,      \* the configurations that may be loaded
    FirstConfig,  \* the one the gateway starts with
    Replies,      \* what upstreams answer: [status, contextLength, retryAfter, size]
    TransportCooldown,  \* how long a key rests after a transport error (5 s)
    KeyCooldown,        \* and after a server error or a rate limit (10 s)
    MaxReloads,   \* bound: how often the configuration is replaced
    MaxSpent      \* bound: `spent` counts no further than this

\* The types of what config.Load gives and of the times.
ASSUME ConfigsAssumption ==
    /\ FirstConfig \in Configs /\ Valid(FirstConfig)
    /\ \A c \in Configs :
        /\ c.requestTimeout \in Int /\ c.cooldown \in Int
        /\ IsFiniteSet(DOMAIN c.providers)
        /\ \A p \in DOMAIN c.providers : c.providers[p].usableKeys \in Nat
        /\ \A a \in DOMAIN c.models : c.models[a].timeout \in Int
        /\ \A n \in DOMAIN c.routes : c.routes[n] \in Seq(Range(c.routes[n]))
ASSUME TimesAssumption ==
    /\ TransportCooldown \in Nat /\ KeyCooldown \in Nat /\ MaxSpent \in Nat
    /\ \A reply \in Replies : reply.retryAfter \in Nat

VARIABLES
    runtimes,     \* the runtime states so far; state.Load() is the last
    req,          \* the requests
    gone,         \* the requests whose client has left
    metrics       \* the counters behind /metrics

vars == <<runtimes, req, gone, metrics>>

-----------------------------------------------------------------------------
(* Configurations and runtime states.                                      *)

\* The knob of a request or a model that sets none.
NoKnob == "none"

\* A context without a timer: a stream that has its headers.
NoTimer == -1

\* Nothing has been answered.
NoReply == [status |-> 0, contextLength |-> FALSE, retryAfter |-> 0, size |-> 0]

\* buildState.  Of a provider's API keys credentials.New drops the empty ones.
BuildState(c) ==
    [cfg |-> c,
     health |-> NewHealth(c),
     pools |-> [p \in DOMAIN c.providers |-> NewPool(c.providers[p].usableKeys)],
     cache |-> EmptyMemory]

Current == runtimes[Len(runtimes)]

AllAliases == UNION {DOMAIN c.models : c \in Configs}

\* What is counted is finite.
ASSUME CountsAssumption == IsFiniteSet(Requests) /\ IsFiniteSet(AllAliases)

NoModelMetric ==
    [attempts |-> 0, successes |-> 0, failures |-> 0, timeouts |-> 0, fallbacks |-> 0]

Idle == [pc |-> "idle"]

Init ==
    /\ runtimes = <<BuildState(FirstConfig)>>
    /\ req = [r \in Requests |-> Idle]
    /\ gone = {}
    /\ metrics =
        [requests |-> 0, attempts |-> 0, fallbacks |-> 0, errors |-> 0,
         cacheHits |-> 0, cacheMisses |-> 0, cacheStores |-> 0,
         models |-> [a \in AllAliases |-> NoModelMetric]]

-----------------------------------------------------------------------------
(* What a request sees.                                                    *)

\* Mutant of Gen: every step loads the state anew.
GenNow(r) == Len(runtimes)

\* The runtime state a request captured.
Gen(r) == req[r].gen

Rt(r) == runtimes[Gen(r)]
Alias(r) == req[r].plan[req[r].ci]
Model(r) == Rt(r).cfg.models[Alias(r)]
Kind(r) == Rt(r).cfg.providers[Model(r).provider].kind
Pool(r) == Rt(r).pools[Model(r).provider]

\* patchModelRequest: the model's default applies unless the request sets it.
Patched(m, in) ==
    [model |-> m.upstream, body |-> in.body,
     knob |-> IF in.knob = NoKnob THEN m.knob ELSE in.knob]

\* What is asked of the upstream for a model, which is also what identifies an
\* answer in the cache (responsecache.Key).
Asked(m, in) == [provider |-> m.provider, request |-> Patched(m, in)]

\* Mutant of CacheKey: the request is identified before the defaults apply.
CacheKeyUnpatched(m, in) ==
    [provider |-> m.provider,
     request |-> [model |-> m.upstream, body |-> in.body, knob |-> in.knob]]

CacheKey(m, in) == Asked(m, in)

\* Mutant of Cacheable: tool calling is looked for in what the client sent.
CacheableUnpatched(cfg, m, in) ==
    /\ cfg.cache.enabled
    /\ ~in.stream /\ in.chat
    /\ cfg.providers[m.provider].kind \in cfg.cache.kinds
    /\ in.knob # "tools"

\* A request may use the cache: its mode, its path, its provider's kind, and no
\* tool calling in the request as it is sent.
Cacheable(cfg, m, in) ==
    /\ cfg.cache.enabled
    /\ ~in.stream /\ in.chat
    /\ cfg.providers[m.provider].kind \in cfg.cache.kinds
    /\ Patched(m, in).knob # "tools"

\* Mutant of AttemptTimeout: the remaining budget does not limit it.
AttemptTimeoutUnlimited(timeout, remaining) ==
    IF timeout <= 0 THEN remaining ELSE timeout

\* effectiveAttemptTimeout.
AttemptTimeout(timeout, remaining) ==
    IF timeout <= 0 \/ timeout > remaining THEN remaining ELSE timeout

MinPositive(a, b) == IF a <= 0 \/ a >= b THEN b ELSE a

-----------------------------------------------------------------------------
(* Parts of the actions.                                                   *)

\* What a request keeps once it has captured generation g.
Arrived(g, in) ==
    [pc |-> "reading", gen |-> g, in |-> in, plan |-> <<>>, ci |-> 0, tries |-> 0,
     key |-> NoKey, budget |-> 0, timer |-> NoTimer, spent |-> 0,
     reply |-> NoReply, ra |-> 0]

Error == [kind |-> "error"]

\* An answer that model Alias(r) gave, now or earlier, when `asked`.
Answer(r, fresh, asked) ==
    [kind |-> "success", alias |-> Alias(r), fresh |-> fresh, asked |-> asked]

\* The request ends with an answer; nothing else of it is kept.
EndedWith(r, answer) ==
    [req EXCEPT ![r] = [pc |-> "done", gen |-> @.gen, in |-> @.in, answer |-> answer]]

FailRequest(r, m) ==
    /\ req' = EndedWith(r, Error)
    /\ metrics' = [m EXCEPT !.errors = @ + 1]

\* On to the next candidate of the plan.
NextCandidate(r) ==
    [req EXCEPT ![r] = [Arrived(req[r].gen, req[r].in) EXCEPT
        !.pc = "candidate", !.plan = req[r].plan, !.ci = req[r].ci + 1,
        !.spent = req[r].spent]]

\* On to the next key of the candidate.
NextTry(r) ==
    [req EXCEPT ![r].pc = "keys", ![r].tries = @ + 1,
                ![r].key = NoKey, ![r].timer = NoTimer, ![r].reply = NoReply]

\* On to charging the model's circuit, which then gives up the candidate.
ToCharge(r, ra) ==
    [req EXCEPT ![r].pc = "charging", ![r].ra = ra,
                ![r].key = NoKey, ![r].timer = NoTimer, ![r].reply = NoReply]

WithPool(r, p) == [runtimes EXCEPT ![Gen(r)].pools[Model(r).provider] = p]
WithHealth(r, h) == [runtimes EXCEPT ![Gen(r)].health = h]
WithCache(r, c) == [runtimes EXCEPT ![Gen(r)].cache = c]

\* Mutant of Counted: an attempt that timed out is not counted as failed.
CountedTimeoutApart(counters, success, timeout) ==
    [counters EXCEPT
        !.attempts = @ + 1,
        !.successes = IF success THEN @ + 1 ELSE @,
        !.failures = IF success \/ timeout THEN @ ELSE @ + 1,
        !.timeouts = IF timeout THEN @ + 1 ELSE @]

\* recordModelAttempt.
Counted(counters, success, timeout) ==
    [counters EXCEPT
        !.attempts = @ + 1,
        !.successes = IF success THEN @ + 1 ELSE @,
        !.failures = IF success THEN @ ELSE @ + 1,
        !.timeouts = IF timeout THEN @ + 1 ELSE @]
Recorded(m, a, success, timeout) ==
    [m EXCEPT !.models[a] = Counted(@, success, timeout)]

\* recordModelFallback, of the candidate that was given up.
FallbackRecorded(m, r) ==
    IF req[r].ci = 1 THEN m
    ELSE [m EXCEPT !.models[req[r].plan[req[r].ci - 1]].fallbacks = @ + 1]

-----------------------------------------------------------------------------
(* The request's own steps.                                                *)

\* proxy: the request captures the runtime state and starts to be read.
Accept(r, in) ==
    /\ req[r].pc = "idle"
    /\ req' = [req EXCEPT ![r] = Arrived(Len(runtimes), in)]
    /\ metrics' = [metrics EXCEPT !.requests = @ + 1]
    /\ UNCHANGED <<runtimes, gone>>

\* Its body is too large, cannot be read, or names no model.
BadRequest(r) ==
    /\ req[r].pc = "reading"
    /\ FailRequest(r, metrics)
    /\ UNCHANGED <<runtimes, gone>>

\* routeRequest begins: its time runs from here, and the plan is made once.
Plan(r) ==
    /\ req[r].pc = "reading"
    /\ LET rcfg == Rt(r).cfg
           name == req[r].in.name
           plan == IF Known(rcfg, name) THEN Candidates(rcfg, Rt(r).health, name)
                   ELSE <<>>
       IN  IF plan = <<>>
           THEN FailRequest(r, metrics)
           ELSE /\ req' = [req EXCEPT ![r].pc = "candidate", ![r].plan = plan,
                                      ![r].ci = 1]
                /\ UNCHANGED metrics
    /\ UNCHANGED <<runtimes, gone>>

\* "all routes exhausted".
Exhausted(r) ==
    /\ req[r].pc = "candidate"
    /\ req[r].ci > Len(req[r].plan)
    /\ FailRequest(r, metrics)
    /\ UNCHANGED <<runtimes, gone>>

\* A fallback is counted before it is recorded for the model.
CountFallback(r) ==
    /\ req[r].pc = "candidate"
    /\ req[r].ci \in 2 .. Len(req[r].plan)
    /\ metrics' = [metrics EXCEPT !.fallbacks = @ + 1]
    /\ req' = [req EXCEPT ![r].pc = "fallback"]
    /\ UNCHANGED <<runtimes, gone>>

\* A candidate's turn comes: the first's, or another's after it was counted.
HasTurn(r) ==
    \/ req[r].pc = "candidate" /\ req[r].ci = 1
    \/ req[r].pc = "fallback"

\* A candidate's turn comes when the time is up.
OutOfTime(r) ==
    /\ HasTurn(r)
    /\ req[r].spent >= Rt(r).cfg.requestTimeout
    /\ FailRequest(r, FallbackRecorded(metrics, r))
    /\ UNCHANGED <<runtimes, gone>>

\* A candidate's turn comes in time, but patchModelRequest cannot decode the
\* body as a whole: modelProbe, which reads the model and the mode, has skipped
\* what does not decode, such as a number that no float64 holds.
CannotPatch(r) ==
    /\ HasTurn(r)
    /\ req[r].spent < Rt(r).cfg.requestTimeout
    /\ ~req[r].in.decodes
    /\ FailRequest(r, FallbackRecorded(metrics, r))
    /\ UNCHANGED <<runtimes, gone>>

\* A candidate's turn comes in time.  Its attempts get their time limit here,
\* and the cache is looked up.
TryCandidate(r) ==
    /\ HasTurn(r)
    /\ req[r].spent < Rt(r).cfg.requestTimeout
    /\ req[r].in.decodes
    /\ LET m == FallbackRecorded(metrics, r)
           use == Cacheable(Rt(r).cfg, Model(r), req[r].in)
           k == CacheKey(Model(r), req[r].in)
       IN  IF use /\ IsHit(Rt(r).cache, k)
           THEN /\ req' = EndedWith(r, Answer(r, FALSE, Rt(r).cache.entries[k].value))
                /\ metrics' = [m EXCEPT !.cacheHits = @ + 1]
                /\ UNCHANGED runtimes
           ELSE /\ req' = [req EXCEPT ![r].pc = "keys",
                    ![r].budget = AttemptTimeout(Model(r).timeout,
                                      Rt(r).cfg.requestTimeout - req[r].spent)]
                /\ metrics' = [m EXCEPT !.cacheMisses = IF use THEN @ + 1 ELSE @]
                /\ runtimes' = IF use THEN WithCache(r, AfterGet(Rt(r).cache, k))
                               ELSE runtimes
    /\ UNCHANGED gone

\* Every key has had its try.
KeysExhausted(r) ==
    /\ req[r].pc = "keys"
    /\ req[r].tries >= Pool(r).size
    /\ req' = NextCandidate(r)
    /\ UNCHANGED <<runtimes, gone, metrics>>

\* A key is taken from the pool and an attempt begins, or there is none.
TakeKey(r) ==
    /\ req[r].pc = "keys"
    /\ req[r].tries < Pool(r).size
    /\ LET k == NextKey(Pool(r)) IN
        IF k = NoKey
        THEN req' = NextCandidate(r) /\ UNCHANGED metrics
        ELSE /\ req' = [req EXCEPT ![r].pc = "flight", ![r].key = k,
                                   ![r].timer = req[r].budget]
             /\ metrics' = [metrics EXCEPT !.attempts = @ + 1]
    /\ runtimes' = WithPool(r, Advance(Pool(r)))
    /\ UNCHANGED gone

\* Mutant of AttemptCanceled: any error of an attempt ends the request.
AttemptFailsRequest(r) ==
    /\ req[r].pc = "flight"
    /\ FailRequest(r, Recorded(metrics, Alias(r), FALSE, FALSE))
    /\ UNCHANGED <<runtimes, gone>>

\* The attempt fails after its client has left.
AttemptCanceled(r) ==
    /\ req[r].pc = "flight"
    /\ r \in gone
    /\ FailRequest(r, Recorded(metrics, Alias(r), FALSE, FALSE))
    /\ UNCHANGED <<runtimes, gone>>

\* The attempt's time is up: on to the next candidate.
AttemptTimesOut(r) ==
    /\ req[r].pc = "flight"
    /\ r \notin gone
    /\ req[r].timer = 0
    /\ metrics' = Recorded(metrics, Alias(r), FALSE, TRUE)
    /\ req' = ToCharge(r, 0)
    /\ UNCHANGED <<runtimes, gone>>

\* The upstream cannot be reached: the key rests, and the next one is tried.
TransportError(r) ==
    /\ req[r].pc = "flight"
    /\ r \notin gone
    /\ metrics' = Recorded(metrics, Alias(r), FALSE, FALSE)
    /\ runtimes' = WithPool(r, CoolDown(Pool(r), req[r].key, TransportCooldown))
    /\ req' = NextTry(r)
    /\ UNCHANGED gone

\* Mutant of Headers: the headers end the time limit of every request.
HeadersEndingTimer(r, reply) ==
    /\ req[r].pc = "flight"
    /\ req' = [req EXCEPT
            ![r].pc = IF reply.status \in 200 .. 299 THEN "success" ELSE "rejected",
            ![r].reply = reply, ![r].timer = NoTimer]
    /\ UNCHANGED <<runtimes, gone, metrics>>

\* The response headers arrive; those of a stream end its time limit.
Headers(r, reply) ==
    /\ req[r].pc = "flight"
    /\ req' = [req EXCEPT ![r].pc = IF reply.status \in 200 .. 299 THEN "success" ELSE "rejected",
                          ![r].reply = reply,
                          ![r].timer = IF req[r].in.stream THEN NoTimer ELSE @]
    /\ UNCHANGED <<runtimes, gone, metrics>>

\* probeChatCompletion reads the body before it is passed on.
Probed(r) == ~req[r].in.stream /\ req[r].in.chat

\* The answer is accepted: at once, or found useful when read.
AcceptAnswer(r) ==
    /\ req[r].pc = "success"
    /\ metrics' = Recorded(metrics, Alias(r), TRUE, FALSE)
    /\ runtimes' = WithHealth(r, Success(Rt(r).health, Alias(r)))
    /\ req' = IF Cacheable(Rt(r).cfg, Model(r), req[r].in)
              THEN [req EXCEPT ![r].pc = "storing", ![r].timer = NoTimer]
              ELSE EndedWith(r, Answer(r, TRUE, Asked(Model(r), req[r].in)))
    /\ UNCHANGED gone

\* The answer is of no use, or its body cannot be read: the upstream broke
\* off, the time was up, or the client left.
RejectAnswer(r) ==
    /\ req[r].pc = "success"
    /\ Probed(r)
    /\ metrics' = Recorded(metrics, Alias(r), FALSE, FALSE)
    /\ req' = ToCharge(r, 0)
    /\ UNCHANGED <<runtimes, gone>>

\* The answer goes to the cache, unless it is too large or finds no room.
SaveAnswer(r) ==
    /\ req[r].pc = "storing"
    /\ LET conf == Rt(r).cfg.cache
           asked == Asked(Model(r), req[r].in)
           size == req[r].reply.size
       IN  /\ \/ /\ size > conf.maxBodyBytes
                 /\ UNCHANGED <<runtimes, metrics>>
              \/ /\ size <= conf.maxBodyBytes
                 /\ \E o \in SetOutcomes(conf, Rt(r).cache, CacheKey(Model(r), req[r].in),
                                         asked, size, conf.ttl) :
                        /\ runtimes' = WithCache(r, o.mem)
                        /\ metrics' = [metrics EXCEPT
                                        !.cacheStores = IF o.stored THEN @ + 1 ELSE @]
           /\ req' = EndedWith(r, Answer(r, TRUE, asked))
    /\ UNCHANGED gone

\* The decisions the adapter can come to: of a body that is cut short it may
\* miss the words about the context length.
Decisions(r) ==
    LET reply == req[r].reply IN
    {Classify(Kind(r), [status |-> reply.status, contextLength |-> c,
                        retryAfter |-> reply.retryAfter]) :
        c \in {reply.contextLength, FALSE}}

\* The body of a rejection has been read, or cannot be read any further.
ReadRejection(r) ==
    /\ req[r].pc = "rejected"
    /\ metrics' = Recorded(metrics, Alias(r), FALSE, FALSE)
    /\ \E d \in Decisions(r) :
        \/ /\ d.action = "disable-key"
           /\ runtimes' = WithPool(r, DisableKey(Pool(r), req[r].key))
           /\ req' = NextTry(r)
        \/ /\ d.action = "retry-key"
           /\ runtimes' = WithPool(r, CoolDown(Pool(r), req[r].key,
                            IF d.retryAfter > KeyCooldown THEN d.retryAfter
                            ELSE KeyCooldown))
           /\ req' = NextTry(r)
        \/ /\ d.action = "fallback-model"
           /\ runtimes' = IF d.cooldownCredential
                          THEN WithPool(r, CoolDown(Pool(r), req[r].key,
                                            MinPositive(d.retryAfter, KeyCooldown)))
                          ELSE runtimes
           /\ req' = ToCharge(r, d.retryAfter)
        \/ /\ d.action = "skip-model"
           /\ req' = NextCandidate(r)
           /\ UNCHANGED runtimes
        \/ /\ d.action = "terminal"
           /\ req' = EndedWith(r, [kind |-> "rejection"])
           /\ UNCHANGED runtimes
    /\ UNCHANGED gone

\* The model's circuit is charged, and the candidate given up.
Charge(r) ==
    /\ req[r].pc = "charging"
    /\ runtimes' = WithHealth(r, Failure(Rt(r).cfg, Rt(r).health, Alias(r), req[r].ra))
    /\ req' = NextCandidate(r)
    /\ UNCHANGED <<gone, metrics>>

-----------------------------------------------------------------------------
(* The environment.                                                        *)

InProgress(r) == req[r].pc \notin {"idle", "done"}

ClientLeaves(r) ==
    /\ r \in Impatient
    /\ InProgress(r)
    /\ r \notin gone
    /\ gone' = gone \cup {r}
    /\ UNCHANGED <<runtimes, req, metrics>>

\* A configuration that is valid, and listens where the gateway listens, takes
\* the place of the current one; any other leaves everything as it is.
Reload(c) ==
    /\ Len(runtimes) <= MaxReloads
    /\ c.listen = Current.cfg.listen
    /\ Valid(c)
    /\ runtimes' = Append(runtimes, BuildState(c))
    /\ UNCHANGED <<req, gone, metrics>>

\* metricsHandler: asking the cache for its size prunes it.
Scrape ==
    /\ Current.cfg.cache.enabled
    /\ runtimes' = [runtimes EXCEPT ![Len(runtimes)].cache = Prune(@)]
    /\ UNCHANGED <<req, gone, metrics>>

\* A request that waits for its client or its upstream, and may wait on.
Waiting(r) ==
    InProgress(r) =>
        /\ r \notin gone
        /\ req[r].timer # 0
        /\ \/ req[r].pc \in {"reading", "flight", "rejected"}
           \/ req[r].pc = "success" /\ Probed(r)

Tick ==
    /\ \A r \in Requests : Waiting(r)
    /\ runtimes' = [g \in DOMAIN runtimes |-> [runtimes[g] EXCEPT
            !.health = ElapseHealth(@),
            !.pools = [p \in DOMAIN @ |-> Elapse(@[p])],
            !.cache = ElapseCache(@)]]
    /\ req' = [r \in Requests |->
            IF InProgress(r) /\ req[r].pc # "reading"
            THEN [req[r] EXCEPT !.timer = IF @ > 0 THEN @ - 1 ELSE @,
                                !.spent = IF @ < MaxSpent THEN @ + 1 ELSE @]
            ELSE req[r]]
    /\ UNCHANGED <<gone, metrics>>

-----------------------------------------------------------------------------
\* What the gateway does by itself, once there is nothing left to wait for.
Compute(r) ==
    \/ Exhausted(r) \/ CountFallback(r) \/ OutOfTime(r) \/ CannotPatch(r) \/ TryCandidate(r)
    \/ KeysExhausted(r) \/ TakeKey(r)
    \/ AttemptCanceled(r) \/ AttemptTimesOut(r)
    \/ SaveAnswer(r) \/ Charge(r)
    \/ /\ ~Waiting(r)
       /\ \/ BadRequest(r) \/ ReadRejection(r) \/ RejectAnswer(r)
          \/ ~Probed(r) /\ AcceptAnswer(r)

\* What it does when its client or its upstream has something for it.
React(r) ==
    \/ \E in \in Inputs : Accept(r, in)
    \/ BadRequest(r) \/ Plan(r)
    \/ TransportError(r) \/ \E reply \in Replies : Headers(r, reply)
    \/ AcceptAnswer(r) \/ RejectAnswer(r) \/ ReadRejection(r)

Next ==
    \/ \E r \in Requests : Compute(r) \/ React(r) \/ ClientLeaves(r)
    \/ \E c \in Configs : Reload(c)
    \/ Scrape
    \/ Tick

\* Goroutines that can run are run and time passes; clients and upstreams owe
\* nothing.
Fairness == WF_vars(Tick) /\ \A r \in Requests : WF_vars(Compute(r))

Spec == Init /\ [][Next]_vars /\ Fairness

-----------------------------------------------------------------------------
\* A runtime state fits the configuration it was built from.
RuntimeOK(rt) ==
    /\ rt.cfg \in Configs /\ Valid(rt.cfg)
    /\ \A n \in DOMAIN rt.cfg.routes : Range(rt.cfg.routes[n]) \subseteq DOMAIN rt.health
    /\ rt.health \in [DOMAIN rt.cfg.models -> HealthState]
    /\ DOMAIN rt.pools = DOMAIN rt.cfg.providers
    /\ \A p \in DOMAIN rt.pools :
        rt.pools[p] \in PoolsOf(rt.cfg.providers[p].usableKeys)

\* Every request works on a plan, a model and a key that its runtime state has.
RequestOK(r) ==
    InProgress(r) =>
        /\ Gen(r) \in DOMAIN runtimes
        /\ Range(req[r].plan) \subseteq DOMAIN Rt(r).cfg.models
        /\ req[r].pc \notin {"reading", "candidate"} => req[r].ci \in DOMAIN req[r].plan
        /\ req[r].pc \in {"flight", "rejected"} => req[r].key \in DOMAIN Pool(r).keys

\* Every runtime state is complete for the configuration it was built from, and
\* every request finds its plan, its model and its key in the one it captured,
\* also after reloads (server.go, buildState, Reload, routeRequest).
TypeOK ==
    /\ \A g \in DOMAIN runtimes : RuntimeOK(runtimes[g])
    /\ \A r \in Requests : RequestOK(r)
    /\ gone \subseteq Requests

\* The attempts under way, begun and not yet recorded.
UnderWay == {r \in Requests : req[r].pc \in {"flight", "success", "rejected"}}

\* The sum of one of the counters of all the models.
Total(counter) == SumOver([a \in AllAliases |-> metrics.models[a][counter]], AllAliases)

\* The counters agree with each other at all times, though two locks and
\* several atomics guard them: each attempt is recorded for its model exactly
\* once, whatever its end, and the fallbacks of the models add up to the total,
\* but for the requests that are between the two counters (server.go,
\* recordModelAttempt, recordModelFallback, routeRequest).
MetricsAgree ==
    LET mm == metrics.models IN
    /\ metrics.attempts = Total("attempts") + Cardinality(UnderWay)
    /\ metrics.fallbacks = Total("fallbacks")
                            + Cardinality({r \in Requests : req[r].pc = "fallback"})
    /\ \A a \in AllAliases :
        /\ mm[a].attempts = mm[a].successes + mm[a].failures
        /\ mm[a].timeouts <= mm[a].failures
    /\ metrics.cacheStores <= metrics.cacheMisses
    /\ metrics.requests = Cardinality({r \in Requests : req[r].pc # "idle"})
    /\ metrics.errors = Cardinality({r \in Requests :
            req[r].pc = "done" /\ req[r].answer.kind = "error"})

\* An answer, from the upstream or from the cache, is the answer to what this
\* request asks of the model it is attributed to, with that model's provider,
\* upstream name and defaults under the configuration the request captured,
\* whichever request the upstream answered (README.md:96).
AnswersFit ==
    \A r \in Requests : req[r].pc = "done" /\ req[r].answer.kind = "success" =>
        LET m == Rt(r).cfg.models[req[r].answer.alias]
        IN  req[r].answer.asked = Asked(m, req[r].in)

\* A request that exposes tool calling, by itself or by its model's defaults,
\* is never answered from the cache (README.md:96, requestAllowsResponseCache).
NoReplayedToolCalls ==
    \A r \in Requests : req[r].pc = "done" /\ req[r].answer.kind = "success" =>
        req[r].answer.fresh \/ req[r].answer.asked.request.knob # "tools"

Moves(r) == req'[r].pc # req[r].pc

\* A replaced runtime state and its successor do not mix: what a request learns
\* of keys, models and answers goes to the state it captured (README.md:15,
\* "in-flight requests continue on their captured state").
VerdictsStayHome ==
    [][\A r \in Requests : Moves(r) /\ InProgress(r) =>
        \A g \in DOMAIN runtimes \ {req[r].gen} : runtimes'[g] = runtimes[g]]_vars

\* The attempt of r ends for want of capacity: a status that says so, the time
\* limit, or an answer of no use.
EndsForCapacity(r) ==
    /\ Moves(r)
    /\ \/ req[r].pc = "rejected" /\ req[r].reply.status \in CapacityStatuses
       \/ req[r].pc = "success"
       \/ req[r].pc = "flight" /\ req'[r].pc = "charging"

\* Such an end does not cost a key: each is left as usable as it was
\* (README.md:9, "Model/provider-capacity fallbacks do not cool down otherwise
\* healthy credentials").
CapacitySparesKeys ==
    [][\A r \in Requests : EndsForCapacity(r) =>
        \A g \in DOMAIN runtimes : runtimes'[g].pools = runtimes[g].pools]_vars

\* How long routing can take: `request_timeout` for each key of the candidate
\* that has most, no more.  (It is not one `request_timeout`: see WithinBudget.)
MostKeys(cfg) == Sets!Max({cfg.providers[p].usableKeys : p \in DOMAIN cfg.providers} \cup {1})
RoutingIsBounded ==
    \A r \in Requests : InProgress(r) /\ ~req[r].in.stream =>
        req[r].spent <= Rt(r).cfg.requestTimeout * MostKeys(Rt(r).cfg)

\* How many keys there are for the candidate q is at.
KeyCount(cfg, q) == cfg.providers[cfg.models[q.plan[q.ci]].provider].usableKeys

\* No model may have its turn with q: the time is up, or the body does not decode.
Barred(cfg, q) == q.spent >= cfg.requestTimeout \/ ~q.in.decodes

\* How far request q has come, as OrderedFallback tells it.
Place(cfg, q, stage, left) ==
    [stage |-> stage, plan |-> q.plan, place |-> q.ci, left |-> left,
     barred |-> Barred(cfg, q)]

CourseOf(cfg, q) ==
    CASE q.pc = "idle" -> [stage |-> "new"]
      [] q.pc = "reading" -> [stage |-> "reading"]
      [] q.pc \in {"candidate", "fallback"} -> Place(cfg, q, "next", 0)
      [] q.pc = "keys" -> Place(cfg, q, "at", KeyCount(cfg, q) - q.tries)
      [] q.pc \in {"flight", "success", "rejected"} ->
            Place(cfg, q, "asking", KeyCount(cfg, q) - q.tries - 1)
      [] q.pc = "charging" -> Place(cfg, q, "at", 0)
      [] q.pc = "storing" -> Place(cfg, q, "answered", 0)
      [] q.pc = "done" -> [stage |-> "ended", answer |->
            IF q.answer.kind = "success"
            THEN [kind |-> "success", alias |-> q.answer.alias, fresh |-> q.answer.fresh]
            ELSE [kind |-> q.answer.kind]]

Courses == [r \in Requests |-> CourseOf(Rt(r).cfg, req[r])]

\* What Candidates may give: some of the places of a route, or a single model.
RoutesOf(c) == Range(c.routes) \cup {<<a>> : a \in DOMAIN c.models}
PartsOf(as) == {Select(as, places) : places \in SUBSET DOMAIN as}
AllPlans == UNION {PartsOf(as) : as \in UNION {RoutesOf(c) : c \in Configs}}

AllKeyCounts == UNION {{c.providers[p].usableKeys : p \in DOMAIN c.providers} : c \in Configs}

Fallback == INSTANCE OrderedFallback WITH
    Plans <- AllPlans, KeyCounts <- AllKeyCounts, course <- Courses

\* A request works through the models of its route in their order, each as often
\* as there are keys and no more, whatever the other requests and a reload do
\* to circuits, keys, cache and configuration; it ends once, with what the model
\* whose turn it is has answered, and without an answer only when no model is
\* left, the time is up, the client has gone, or what it asks cannot be sent to
\* any model, and then without an attempt (server.go, routeRequest).
FollowsItsRoute == Fallback!Spec

\* A plain request whose routing has begun is answered, even if no upstream
\* ever sends anything (server.go, doAttempt, routeRequest).
PlainIsAnswered ==
    \A r \in Requests :
        (req[r].pc = "candidate" /\ ~req[r].in.stream) ~> (req[r].pc = "done")

\* README.md:73: "`request_timeout` is the total budget available while Alvus
\* Core selects/falls back between upstream models."
WithinBudget ==
    \A r \in Requests : InProgress(r) => req[r].spent <= Rt(r).cfg.requestTimeout

\* The same of a streaming request: its routing comes to an end.
StreamIsRouted ==
    \A r \in Requests :
        (req[r].pc = "candidate" /\ req[r].in.stream) ~> (req[r].pc = "done")
=============================================================================
